----------------------------- MODULE ArenaProofs ------------------------------
(***************************************************************************)
(* That the arena of a reader gives out what stays valid until the reader  *)
(* is closed, maps files only under the cache's lock, and leaves nothing   *)
(* behind: for any threads, blocks and number of files.                    *)
(*                                                                         *)
(* The lists are chains of cells, so the invariant names what it follows:  *)
(*   l[list][i]   the nodes of a list, l[list][n[list]] its head, each     *)
(*                linked to the one before it, l[list][0] = Nil;           *)
(*   file[i]      the file that the i-th cleanup unmaps;                   *)
(*   own[p]       the blocks of each owner p: the reader, its arena, the   *)
(*                call of a thread, a node of a list.                      *)
(* Every allocated block has one owner (Partition), so what an owner frees *)
(* is nobody else's, and nothing is allocated when no owner has a block.   *)
(***************************************************************************)
EXTENDS Arena, FiniteOrder, TLAPS

Lists == {"ptrs", "cleanups"}

OwnerOf(k, i) == <<k, i>>
Owners == ({"owner", "arena"} \X {0}) \cup ({"task"} \X Tasks) \cup (Lists \X Nat)

HasNode == {"lock", "link", "publish"}
HasBlock == {"node"} \cup HasNode
Calling == {"block"} \cup HasBlock
Locking == {"link", "publish"}

Cells == [of : Nat, next : Nat]
Frames == [step : Calling \cup {"idle", "map", "ok", "failed"}, list : Lists,
           of : Block \cup {Nil}, node : Block \cup {Nil}]

-----------------------------------------------------------------------------
(* The invariant. *)

ArenaTypeInv ==
  /\ blocks \subseteq Block
  /\ cell \in [Block -> Cells]
  /\ \A b \in Block \ blocks : cell[b] = Garbage
  /\ head \in [Lists -> Block \cup {Nil}]
  /\ arenaLock \in Tasks \cup {NoTask} /\ {owner, arena} \subseteq Block \cup {Nil}
  /\ mapped \subseteq 1 .. Files /\ cacheHeld \in BOOLEAN
  /\ life \in {"closed", "arena", "cache_dir", "load", "open", "close", "destroy", "unlock"}
  /\ loading \in 1 .. Files + 1 /\ gets \in 0 .. MaxGets
  /\ task \in [Tasks -> Frames]
  /\ handed \subseteq Int

\* What calls there are while the opener is at a point of its life.
CallsInv ==
  /\ \A t \in Worker : task[t].step # "idle" =>
       life = "open" /\ task[t].list = "ptrs" /\ task[t].step \in Calling
  /\ task[Opener].step # "idle" => life \in {"cache_dir", "load"}
  /\ life = "cache_dir" => task[Opener].list = "ptrs"
  /\ At(Opener, "map") => task[Opener].list = "cleanups"
  /\ life = "load" /\ ~At(Opener, "idle") => loading <= Files
  /\ \A t \in Tasks : arenaLock = t <=> task[t].step \in Locking
  /\ \A t \in Tasks : task[t].step \in {"map", "block"} => task[t].of = Nil /\ task[t].node = Nil
  /\ \A t \in Tasks : task[t].step = "node" => task[t].node = Nil

\* What there is at a point of the opener's life.
LifeInv ==
  /\ life \in {"closed", "arena", "cache_dir"} => ~cacheHeld /\ loading = 1
  /\ life \in {"load", "open"} => cacheHeld
  /\ life = "closed" => owner = Nil
  /\ life \in {"closed", "arena", "unlock"} => arena = Nil
  /\ life \in {"closed", "arena", "destroy", "unlock"} =>
       handed = {} /\ head.ptrs = Nil /\ head.cleanups = Nil
  /\ mapped # {} => cacheHeld

QuietInv == ArenaTypeInv /\ CallsInv /\ LifeInv

Partition(own, B) ==
  /\ own \in [Owners -> SUBSET Block]
  /\ \A p, q \in Owners : p # q => own[p] \cap own[q] = {}
  /\ B = UNION {own[p] : p \in Owners}

TaskBlocks(t) ==
  CASE task[t].step = "node"     -> {task[t].of}
    [] task[t].step \in HasNode  -> {task[t].of, task[t].node}
    [] OTHER                     -> {}

OwnersInv(own, n, l) ==
  /\ Partition(own, blocks)
  /\ own[OwnerOf("owner", 0)] = {owner} \ {Nil}
  /\ own[OwnerOf("arena", 0)] = {arena} \ {Nil}
  /\ \A t \in Tasks : own[OwnerOf("task", t)] = TaskBlocks(t)
  /\ \A list \in Lists : \A i \in Nat :
       own[OwnerOf(list, i)] = IF i \in 1 .. n[list]
                               THEN {l[list][i], cell[l[list][i]].of} ELSE {}

\* When the arena is destroyed the opener has the heads.
HeadOf(list) ==
  IF life # "destroy" THEN head[list]
  ELSE IF list = "ptrs" THEN task[Opener].node ELSE task[Opener].of

ListsInv(n, l) ==
  /\ n \in [Lists -> Nat] /\ l \in [Lists -> [Nat -> Block \cup {Nil}]]
  /\ \A list \in Lists :
       /\ l[list][0] = Nil /\ HeadOf(list) = l[list][n[list]]
       /\ \A i \in 1 .. n[list] : l[list][i] \in Block /\ cell[l[list][i]].of \in Block
                                    /\ cell[l[list][i]].next = l[list][i - 1]

\* What calls have written into their blocks and nodes.
NodesInv ==
  /\ \A t \in Tasks : task[t].step \in HasBlock => task[t].of \in Block
  /\ \A t \in Tasks : task[t].step \in HasNode =>
       task[t].node \in Block /\ cell[task[t].node].of = task[t].of
  /\ \A t \in Tasks : At(t, "publish") => cell[task[t].node].next = head[task[t].list]
  /\ task[Opener].list = "cleanups" /\ task[Opener].step \in HasBlock =>
       cell[task[Opener].of].of = loading

\* The file that is being loaded, once it is mapped.
Underway ==
  IF task[Opener].list = "cleanups" /\ task[Opener].step \in Calling THEN {loading} ELSE {}

FilesInv(n, l, file) ==
  /\ file \in [Nat -> 1 .. Files + 1]
  /\ mapped = {file[i] : i \in 1 .. n["cleanups"]} \cup Underway
  /\ \A i, j \in 1 .. n["cleanups"] : i # j => file[i] # file[j]
  /\ \A i \in 1 .. n["cleanups"] : cell[cell[l["cleanups"][i]].of].of = file[i]
  /\ life = "load" => \A i \in 1 .. n["cleanups"] :
                        file[i] < loading \/ (file[i] = loading /\ At(Opener, "ok"))

HandedInv(n, l, file) ==
  \A x \in handed : \/ \E i \in 1 .. n["ptrs"] : x = cell[l["ptrs"][i]].of
                    \/ \E i \in 1 .. n["cleanups"] : -x = file[i]

Followed(own, n, l, file) ==
  /\ OwnersInv(own, n, l) /\ ListsInv(n, l) /\ NodesInv
  /\ FilesInv(n, l, file) /\ HandedInv(n, l, file)

ArenaInv == QuietInv /\ \E own, n, l, file : Followed(own, n, l, file)

-----------------------------------------------------------------------------
(* Blocks and their owners. *)

LEMMA FreshIsFree ==
  ASSUME CanAllocate
  PROVE  Fresh \in Block \ blocks
<1>1. Block \ blocks \in SUBSET Nat /\ Block \ blocks # {}
  BY ArenaConstants DEF CanAllocate
<1>2. \E b \in Block \ blocks : \A c \in Block \ blocks : b <= c
  BY <1>1, LeastNatural
<1> QED
  BY <1>2 DEF Fresh, Min

LEMMA OwnersKnown ==
  /\ OwnerOf("owner", 0) \in Owners /\ OwnerOf("arena", 0) \in Owners
  /\ \A t \in Tasks : OwnerOf("task", t) \in Owners
  /\ \A list \in Lists, i \in Nat : OwnerOf(list, i) \in Owners
BY DEF OwnerOf, Owners

LEMMA OwnersDiffer ==
  /\ OwnerOf("owner", 0) # OwnerOf("arena", 0)
  /\ \A t \in Tasks : /\ OwnerOf("task", t) # OwnerOf("owner", 0)
                      /\ OwnerOf("task", t) # OwnerOf("arena", 0)
                      /\ \A u \in Tasks : t # u => OwnerOf("task", t) # OwnerOf("task", u)
  /\ \A list \in Lists, i \in Nat :
       /\ OwnerOf(list, i) # OwnerOf("owner", 0) /\ OwnerOf(list, i) # OwnerOf("arena", 0)
       /\ \A t \in Tasks : OwnerOf(list, i) # OwnerOf("task", t)
       /\ \A other \in Lists, j \in Nat :
            list # other \/ i # j => OwnerOf(list, i) # OwnerOf(other, j)
BY DEF OwnerOf, Lists

LEMMA OwnerGets ==
  ASSUME NEW own, NEW B, Partition(own, B), NEW p \in Owners, NEW b \in Block \ B
  PROVE  Partition([own EXCEPT ![p] = @ \cup {b}], B \cup {b})
<1> DEFINE o == [own EXCEPT ![p] = @ \cup {b}]
<1>1. own \in [Owners -> SUBSET Block] /\ B = UNION {own[q] : q \in Owners}
  BY DEF Partition
<1>2. o \in [Owners -> SUBSET Block]
  BY <1>1
<1>3. \A q \in Owners : o[q] = IF q = p THEN own[p] \cup {b} ELSE own[q]
  BY <1>1
<1> HIDE DEF o
<1>4. \A q, r \in Owners : q # r => o[q] \cap o[r] = {}
  <2>1. \A q \in Owners : b \notin own[q]
    BY <1>1
  <2> QED
    BY <1>3, <2>1 DEF Partition
<1>5. B \cup {b} = UNION {o[q] : q \in Owners}
  <2>1. ASSUME NEW x \in B PROVE \E q \in Owners : x \in o[q]
    BY <1>1, <1>3
  <2>2. b \in o[p]
    BY <1>3
  <2>3. ASSUME NEW q \in Owners, NEW x \in o[q] PROVE x \in B \cup {b}
    BY <1>1, <1>3
  <2> QED
    BY <2>1, <2>2, <2>3
<1> QED
  BY <1>2, <1>4, <1>5 DEF Partition, o

LEMMA OwnerChanges ==
  ASSUME NEW own, NEW B, Partition(own, B), NEW p \in Owners, NEW q \in Owners, p # q,
         own[q] = {}
  PROVE  Partition([own EXCEPT ![q] = own[p], ![p] = {}], B)
<1> DEFINE o == [own EXCEPT ![q] = own[p], ![p] = {}]
<1>1. own \in [Owners -> SUBSET Block] /\ B = UNION {own[r] : r \in Owners}
  BY DEF Partition
<1>2. o \in [Owners -> SUBSET Block]
  BY <1>1
<1>3. \A r \in Owners : o[r] = IF r = p THEN {} ELSE IF r = q THEN own[p] ELSE own[r]
  BY <1>1
<1> HIDE DEF o
<1>4. \A r, s \in Owners : r # s => o[r] \cap o[s] = {}
  BY <1>3 DEF Partition
<1>5. B = UNION {o[r] : r \in Owners}
  <2>1. ASSUME NEW x \in B PROVE \E r \in Owners : x \in o[r]
    BY <1>1, <1>3
  <2>2. ASSUME NEW r \in Owners, NEW x \in o[r] PROVE x \in B
    BY <1>1, <1>3
  <2> QED
    BY <2>1, <2>2
<1> QED
  BY <1>2, <1>4, <1>5 DEF Partition, o

LEMMA OwnerFrees ==
  ASSUME NEW own, NEW B, Partition(own, B), NEW p \in Owners
  PROVE  Partition([own EXCEPT ![p] = {}], B \ own[p])
<1> DEFINE o == [own EXCEPT ![p] = {}]
<1>1. own \in [Owners -> SUBSET Block] /\ B = UNION {own[r] : r \in Owners}
  BY DEF Partition
<1>2. o \in [Owners -> SUBSET Block]
  BY <1>1
<1>3. \A r \in Owners : o[r] = IF r = p THEN {} ELSE own[r]
  BY <1>1
<1> HIDE DEF o
<1>4. \A r, s \in Owners : r # s => o[r] \cap o[s] = {}
  BY <1>3 DEF Partition
<1>5. B \ own[p] = UNION {o[r] : r \in Owners}
  <2>1. ASSUME NEW x \in B \ own[p] PROVE \E r \in Owners : x \in o[r]
    BY <1>1, <1>3
  <2>2. ASSUME NEW r \in Owners, NEW x \in o[r] PROVE x \in B \ own[p]
    <3>1. r # p /\ x \in own[r]
      BY <1>3, <2>2
    <3> QED
      BY <1>1, <3>1 DEF Partition
  <2> QED
    BY <2>1, <2>2
<1> QED
  BY <1>2, <1>4, <1>5 DEF Partition, o

-----------------------------------------------------------------------------
(* Types, and what there is at a point of the opener's life. *)

LEMMA NothingListed ==
  ASSUME NEW n, NEW l, ListsInv(n, l), NEW list \in Lists, HeadOf(list) = Nil
  PROVE  n[list] = 0
<1>1. n[list] \in Nat
  BY DEF ListsInv
<1>2. Nil \notin Block
  BY ArenaConstants
<1>3. n[list] \in 1 .. n[list] => l[list][n[list]] \in Block
  BY DEF ListsInv
<1>4. l[list][n[list]] = Nil
  BY DEF ListsInv
<1> QED
  BY <1>1, <1>2, <1>3, <1>4

-----------------------------------------------------------------------------
(* What a step changes of a thread's frame and of a cell. *)

FrameIs(t, step, list, of, node) ==
  /\ task' \in [Tasks -> Frames]
  /\ task'[t].step = step /\ task'[t].list = list
  /\ task'[t].of = of /\ task'[t].node = node
  /\ \A u \in Tasks : u # t => task'[u] = task[u]

LEMMA FrameOne ==
  ASSUME task \in [Tasks -> Frames], NEW t \in Tasks, NEW f \in Frames,
         task' = [task EXCEPT ![t] = f]
  PROVE  FrameIs(t, f.step, f.list, f.of, f.node)
<1>1. task' \in [Tasks -> Frames]
  OBVIOUS
<1>2. task'[t] = f /\ \A u \in Tasks : u # t => task'[u] = task[u]
  OBVIOUS
<1> QED
  BY <1>1, <1>2 DEF FrameIs

LEMMA FrameFields ==
  ASSUME task \in [Tasks -> Frames], NEW t \in Tasks
  PROVE  /\ task[t].step \in Calling \cup {"idle", "map", "ok", "failed"}
         /\ task[t].list \in Lists /\ task[t].of \in Block \cup {Nil}
         /\ task[t].node \in Block \cup {Nil}
BY DEF Frames

LEMMA FrameProceeds ==
  ASSUME task \in [Tasks -> Frames], NEW t \in Tasks,
         NEW s \in Calling \cup {"idle", "map", "ok", "failed"}, ProceedTo(t, s)
  PROVE  FrameIs(t, s, task[t].list, task[t].of, task[t].node)
<1> DEFINE f == [task[t] EXCEPT !.step = s]
<1>1. task' = [task EXCEPT ![t] = f]
  BY DEF ProceedTo
<1>2. f \in Frames /\ f.step = s /\ f.list = task[t].list /\ f.of = task[t].of
        /\ f.node = task[t].node
  BY FrameFields DEF Frames
<1> HIDE DEF f
<1> QED
  BY <1>1, <1>2, FrameOne

LEMMA FrameCalls ==
  ASSUME task \in [Tasks -> Frames], NEW t \in Tasks, NEW ls \in Lists,
         NEW s \in {"block", "map"}, Calls(t, ls, s)
  PROVE  FrameIs(t, s, ls, Nil, Nil)
<1> DEFINE f == [Idle EXCEPT !.step = s, !.list = ls]
<1>1. task' = [task EXCEPT ![t] = f]
  BY DEF Calls
<1>2. f \in Frames /\ f.step = s /\ f.list = ls /\ f.of = Nil /\ f.node = Nil
  BY DEF Idle, Frames, Calling
<1> HIDE DEF f
<1> QED
  BY <1>1, <1>2, FrameOne

LEMMA FrameLeaves ==
  ASSUME task \in [Tasks -> Frames], NEW t \in Tasks, NEW s \in {"ok", "failed"}, Leaves(t, s)
  PROVE  FrameIs(t, IF t = Opener THEN s ELSE "idle", "ptrs", Nil, Nil)
<1> DEFINE e == IF t = Opener THEN s ELSE "idle"
           f == [Idle EXCEPT !.step = e]
<1>1. task' = [task EXCEPT ![t] = f]
  BY DEF Leaves
<1>2. f \in Frames /\ f.step = e /\ f.list = "ptrs" /\ f.of = Nil /\ f.node = Nil
  BY DEF Idle, Frames, Lists
<1> HIDE DEF f
<1> QED
  BY <1>1, <1>2, FrameOne

LEMMA FrameAllocates ==
  ASSUME task \in [Tasks -> Frames], NEW t \in Tasks, NEW b \in Block
  PROVE  /\ task' = [task EXCEPT ![t].step = "node", ![t].of = b]
              => FrameIs(t, "node", task[t].list, b, task[t].node)
         /\ task' = [task EXCEPT ![t].step = "lock", ![t].node = b]
              => FrameIs(t, "lock", task[t].list, task[t].of, b)
<1> DEFINE f == [task[t] EXCEPT !.step = "node", !.of = b]
           g == [task[t] EXCEPT !.step = "lock", !.node = b]
<1>1. [task EXCEPT ![t].step = "node", ![t].of = b] = [task EXCEPT ![t] = f]
  OBVIOUS
<1>2. f \in Frames /\ f.step = "node" /\ f.list = task[t].list /\ f.of = b
        /\ f.node = task[t].node
  BY FrameFields DEF Frames, Calling, HasBlock
<1>3. [task EXCEPT ![t].step = "lock", ![t].node = b] = [task EXCEPT ![t] = g]
  OBVIOUS
<1>4. g \in Frames /\ g.step = "lock" /\ g.list = task[t].list /\ g.of = task[t].of
        /\ g.node = b
  BY FrameFields DEF Frames, Calling, HasBlock, HasNode
<1> HIDE DEF f, g
<1> QED
  BY <1>1, <1>2, <1>3, <1>4, FrameOne

LEMMA FramePoints ==
  ASSUME task \in [Tasks -> Frames], NEW t \in Tasks,
         NEW a \in Block \cup {Nil}, NEW b \in Block \cup {Nil}
  PROVE  /\ task' = [task EXCEPT ![t].of = a, ![t].node = b]
              => FrameIs(t, task[t].step, task[t].list, a, b)
         /\ task' = [task EXCEPT ![t].of = a]
              => FrameIs(t, task[t].step, task[t].list, a, task[t].node)
         /\ task' = [task EXCEPT ![t].node = b]
              => FrameIs(t, task[t].step, task[t].list, task[t].of, b)
<1> DEFINE f == [task[t] EXCEPT !.of = a, !.node = b]
           g == [task[t] EXCEPT !.of = a]
           h == [task[t] EXCEPT !.node = b]
<1>1. /\ [task EXCEPT ![t].of = a, ![t].node = b] = [task EXCEPT ![t] = f]
      /\ [task EXCEPT ![t].of = a] = [task EXCEPT ![t] = g]
      /\ [task EXCEPT ![t].node = b] = [task EXCEPT ![t] = h]
  OBVIOUS
<1>2. f \in Frames /\ f.step = task[t].step /\ f.list = task[t].list /\ f.of = a /\ f.node = b
  BY FrameFields DEF Frames
<1>3. /\ g \in Frames /\ g.step = task[t].step /\ g.list = task[t].list
      /\ g.of = a /\ g.node = task[t].node
  BY FrameFields DEF Frames
<1>4. /\ h \in Frames /\ h.step = task[t].step /\ h.list = task[t].list
      /\ h.of = task[t].of /\ h.node = b
  BY FrameFields DEF Frames
<1> HIDE DEF f, g, h
<1> QED
  BY <1>1, <1>2, <1>3, <1>4, FrameOne

CellIs(b, of, next) ==
  /\ cell' \in [Block -> Cells]
  /\ cell'[b].of = of /\ cell'[b].next = next
  /\ \A c \in Block : c # b => cell'[c] = cell[c]

LEMMA CellChanges ==
  ASSUME cell \in [Block -> Cells], NEW b \in Block, NEW v \in Nat
  PROVE  /\ cell' = [cell EXCEPT ![b].of = v] => CellIs(b, v, cell[b].next)
         /\ cell' = [cell EXCEPT ![b].next = v] => CellIs(b, cell[b].of, v)
<1> DEFINE f == [cell[b] EXCEPT !.of = v]
           g == [cell[b] EXCEPT !.next = v]
<1>1. /\ [cell EXCEPT ![b].of = v] = [cell EXCEPT ![b] = f]
      /\ [cell EXCEPT ![b].next = v] = [cell EXCEPT ![b] = g]
  OBVIOUS
<1>2. f \in Cells /\ f.of = v /\ f.next = cell[b].next
  BY DEF Cells
<1>3. g \in Cells /\ g.of = cell[b].of /\ g.next = v
  BY DEF Cells
<1>4. ASSUME NEW c \in Cells, cell' = [cell EXCEPT ![b] = c]
      PROVE  CellIs(b, c.of, c.next)
  <2>1. cell' \in [Block -> Cells] /\ cell'[b] = c
          /\ \A d \in Block : d # b => cell'[d] = cell[d]
    BY <1>4
  <2> QED
    BY <2>1 DEF CellIs
<1> HIDE DEF f, g
<1> QED
  BY <1>1, <1>2, <1>3, <1>4

LEMMA CellsFreed ==
  ASSUME ArenaTypeInv, NEW freed, FreeBlocks(freed)
  PROVE  /\ blocks' = blocks \ freed /\ blocks' \subseteq Block
         /\ cell' \in [Block -> Cells]
         /\ \A b \in Block : b \notin freed => cell'[b] = cell[b]
         /\ \A b \in Block \ blocks' : cell'[b] = Garbage
<1>1. Garbage \in Cells
  BY DEF Garbage, Cells, Nil
<1>2. /\ blocks' = blocks \ freed /\ blocks \subseteq Block /\ cell \in [Block -> Cells]
      /\ cell' = [b \in Block |-> IF b \in freed THEN Garbage ELSE cell[b]]
      /\ \A b \in Block \ blocks : cell[b] = Garbage
  BY DEF FreeBlocks, ArenaTypeInv
<1>3. \A b \in Block : cell'[b] = IF b \in freed THEN Garbage ELSE cell[b]
  BY <1>2
<1>4. cell' \in [Block -> Cells]
  BY <1>1, <1>2
<1> QED
  BY <1>2, <1>3, <1>4

-----------------------------------------------------------------------------
(* The steps of a call: types, and what there is at a point of the opener's *)
(* life.                                                                    *)

\* A call belongs to a worker while the reader is open, else to the opener.
LEMMA CallsKeep ==
  ASSUME QuietInv, NEW t \in Tasks, NEW s, NEW ls, NEW of, NEW node, FrameIs(t, s, ls, of, node),
         task[t].step # "idle", life' = life, loading' = loading,
         ls = task[t].list \/ ls = "ptrs",
         t = Opener => s # "map",
         t # Opener => s \in Calling \cup {"idle"},
         s \in {"map", "block"} => of = Nil /\ node = Nil, s = "node" => node = Nil,
         \A u \in Tasks : arenaLock' = u <=> task'[u].step \in Locking
  PROVE  CallsInv'
<1>1. t # Opener => life = "open" /\ task[t].list = "ptrs"
  BY DEF QuietInv, CallsInv, Tasks
<1>2. /\ Opener \in Tasks /\ \A u \in Worker : u \in Tasks /\ u # Opener
  BY ArenaConstants DEF Tasks
<1>3. t = Opener => life \in {"cache_dir", "load"}
  BY DEF QuietInv, CallsInv
<1>4. /\ task'[t].step = s /\ task'[t].list = ls /\ task'[t].of = of /\ task'[t].node = node
      /\ \A u \in Tasks : u # t => task'[u] = task[u]
  BY DEF FrameIs
<1>5. \A u \in Worker : task'[u].step # "idle" =>
        life' = "open" /\ task'[u].list = "ptrs" /\ task'[u].step \in Calling
  BY <1>1, <1>2, <1>4 DEF QuietInv, CallsInv
<1>6. task'[Opener].step # "idle" => life' \in {"cache_dir", "load"}
  BY <1>2, <1>3, <1>4 DEF QuietInv, CallsInv
<1>7. life' = "cache_dir" => task'[Opener].list = "ptrs"
  BY <1>2, <1>4 DEF QuietInv, CallsInv
<1>8. At(Opener, "map")' => task'[Opener].list = "cleanups"
  BY <1>2, <1>4 DEF QuietInv, CallsInv, At
<1>9. life' = "load" /\ ~At(Opener, "idle")' => loading' <= Files
  BY <1>2, <1>4 DEF QuietInv, CallsInv, At
<1>10. \A u \in Tasks :
         /\ task'[u].step \in {"map", "block"} => task'[u].of = Nil /\ task'[u].node = Nil
         /\ task'[u].step = "node" => task'[u].node = Nil
  BY <1>4 DEF QuietInv, CallsInv
<1> QED
  BY <1>5, <1>6, <1>7, <1>8, <1>9, <1>10 DEF CallsInv

LEMMA QuietBlock ==
  ASSUME QuietInv, NEW t \in Tasks, AllocateBlock(t)
  PROVE  /\ QuietInv' /\ Fresh \in Block \ blocks
         /\ FrameIs(t, "node", task[t].list, Fresh, task[t].node)
         /\ CellIs(Fresh, IF task[t].list = "cleanups" THEN loading ELSE Nil, Nil)
<1> DEFINE v == IF task[t].list = "cleanups" THEN loading ELSE Nil
<1>1. /\ Fresh \in Block \ blocks /\ task[t].step = "block"
      /\ blocks' = blocks \cup {Fresh} /\ cell' = [cell EXCEPT ![Fresh].of = v]
      /\ UNCHANGED <<head, arenaLock, owner, arena, cacheHeld, loading, mapped, life, handed, gets>>
  BY FreshIsFree DEF AllocateBlock, At, listsKept, ownerKept
<1>2. v \in Nat /\ cell \in [Block -> Cells] /\ cell[Fresh].next = Nil
        /\ task \in [Tasks -> Frames]
  BY <1>1 DEF QuietInv, ArenaTypeInv, Garbage, Nil
<1>3. FrameIs(t, "node", task[t].list, Fresh, task[t].node)
  BY <1>1, <1>2, FrameAllocates DEF AllocateBlock
<1> HIDE DEF v
<1>4. CellIs(Fresh, v, Nil)
  BY <1>1, <1>2, CellChanges
<1>5. ArenaTypeInv'
  BY <1>1, <1>3, <1>4 DEF QuietInv, ArenaTypeInv, FrameIs, CellIs
<1>6. \A u \in Tasks : arenaLock' = u <=> task'[u].step \in Locking
  BY <1>1, <1>3 DEF QuietInv, CallsInv, FrameIs, Locking
<1>7. CallsInv'
  <2>1. task[t].node = Nil
    BY <1>1 DEF QuietInv, CallsInv
  <2> QED
    BY <1>1, <1>3, <1>6, <2>1, CallsKeep DEF Calling, HasBlock
<1>8. LifeInv'
  BY <1>1 DEF QuietInv, LifeInv
<1> QED
  BY <1>1, <1>3, <1>4, <1>5, <1>7, <1>8 DEF QuietInv, v

LEMMA QuietNode ==
  ASSUME QuietInv, NodesInv, NEW t \in Tasks, AllocateNode(t)
  PROVE  /\ QuietInv' /\ Fresh \in Block \ blocks
         /\ FrameIs(t, "lock", task[t].list, task[t].of, Fresh)
         /\ CellIs(Fresh, task[t].of, Nil)
<1>1. /\ Fresh \in Block \ blocks /\ task[t].step = "node"
      /\ blocks' = blocks \cup {Fresh} /\ cell' = [cell EXCEPT ![Fresh].of = task[t].of]
      /\ UNCHANGED <<head, arenaLock, owner, arena, cacheHeld, loading, mapped, life, handed, gets>>
  BY FreshIsFree DEF AllocateNode, At, listsKept, ownerKept
<1>2. task[t].of \in Nat /\ cell \in [Block -> Cells] /\ cell[Fresh].next = Nil
        /\ task \in [Tasks -> Frames]
  BY <1>1, ArenaConstants DEF QuietInv, ArenaTypeInv, Garbage, NodesInv, HasBlock
<1>3. FrameIs(t, "lock", task[t].list, task[t].of, Fresh)
  BY <1>1, <1>2, FrameAllocates DEF AllocateNode
<1>4. CellIs(Fresh, task[t].of, Nil)
  BY <1>1, <1>2, CellChanges
<1>5. ArenaTypeInv'
  BY <1>1, <1>3, <1>4 DEF QuietInv, ArenaTypeInv, FrameIs, CellIs
<1>6. \A u \in Tasks : arenaLock' = u <=> task'[u].step \in Locking
  BY <1>1, <1>3 DEF QuietInv, CallsInv, FrameIs, Locking
<1>7. CallsInv'
  BY <1>1, <1>3, <1>6, CallsKeep DEF Calling, HasBlock, HasNode
<1>8. LifeInv'
  BY <1>1 DEF QuietInv, LifeInv
<1> QED
  BY <1>1, <1>3, <1>4, <1>5, <1>7, <1>8 DEF QuietInv

LEMMA QuietTake ==
  ASSUME QuietInv, NEW t \in Tasks, TakeArena(t)
  PROVE  QuietInv' /\ FrameIs(t, "link", task[t].list, task[t].of, task[t].node)
<1>1. /\ task[t].step = "lock" /\ arenaLock = NoTask /\ arenaLock' = t
      /\ UNCHANGED <<blocks, cell, head, owner, arena, cacheHeld, loading, mapped, life, handed, gets>>
  BY DEF TakeArena, At, ownerKept
<1>2. FrameIs(t, "link", task[t].list, task[t].of, task[t].node)
  BY FrameProceeds DEF TakeArena, QuietInv, ArenaTypeInv, Calling, HasBlock, HasNode
<1>3. ArenaTypeInv'
  BY <1>1, <1>2 DEF QuietInv, ArenaTypeInv, FrameIs
<1>4. \A u \in Tasks : arenaLock' = u <=> task'[u].step \in Locking
  <2>1. NoTask \notin Tasks
    BY ArenaConstants DEF NoTask, Tasks, Opener
  <2> QED
    BY <1>1, <1>2, <2>1 DEF QuietInv, CallsInv, FrameIs, Locking
<1>5. CallsInv'
  BY <1>1, <1>2, <1>4, CallsKeep DEF Calling, HasBlock, HasNode
<1>6. LifeInv'
  BY <1>1 DEF QuietInv, LifeInv
<1> QED
  BY <1>2, <1>3, <1>5, <1>6 DEF QuietInv

LEMMA QuietLink ==
  ASSUME QuietInv, NodesInv, NEW t \in Tasks, LinkNode(t), task[t].node \in blocks
  PROVE  /\ QuietInv'
         /\ FrameIs(t, "publish", task[t].list, task[t].of, task[t].node)
         /\ CellIs(task[t].node, cell[task[t].node].of, head[task[t].list])
<1> DEFINE b == task[t].node
           v == head[task[t].list]
<1>1. /\ task[t].step = "link" /\ cell' = [cell EXCEPT ![b].next = v]
      /\ UNCHANGED <<blocks, head, arenaLock, owner, arena, cacheHeld, loading, mapped, life, handed, gets>>
  BY DEF LinkNode, At, listsKept, ownerKept
<1>2. v \in Nat /\ b \in Block /\ cell \in [Block -> Cells] /\ task \in [Tasks -> Frames]
  <2>1. task \in [Tasks -> Frames] /\ cell \in [Block -> Cells]
          /\ head \in [Lists -> Block \cup {Nil}]
    BY DEF QuietInv, ArenaTypeInv
  <2>2. task[t].list \in Lists
    BY <2>1, FrameFields
  <2>3. b \in Block
    BY <1>1 DEF NodesInv, HasNode
  <2>4. v \in Block \cup {Nil}
    BY <2>1, <2>2
  <2>5. Block \cup {Nil} \subseteq Nat
    BY ArenaConstants DEF Nil
  <2> HIDE DEF b, v
  <2> QED
    BY <2>1, <2>3, <2>4, <2>5
<1>3. FrameIs(t, "publish", task[t].list, task[t].of, task[t].node)
  BY <1>2, FrameProceeds DEF LinkNode, Calling, HasBlock, HasNode
<1> HIDE DEF b, v
<1>4. CellIs(b, cell[b].of, v)
  BY <1>1, <1>2, CellChanges
<1>5. ArenaTypeInv'
  <2>1. b \in blocks
    BY DEF b
  <2> QED
    BY <1>1, <1>2, <1>3, <1>4, <2>1 DEF QuietInv, ArenaTypeInv, FrameIs, CellIs
<1>6. \A u \in Tasks : arenaLock' = u <=> task'[u].step \in Locking
  BY <1>1, <1>3 DEF QuietInv, CallsInv, FrameIs, Locking
<1>7. CallsInv'
  BY <1>1, <1>3, <1>6, CallsKeep DEF Calling, HasBlock, HasNode
<1>8. LifeInv'
  BY <1>1 DEF QuietInv, LifeInv
<1> QED
  BY <1>3, <1>4, <1>5, <1>7, <1>8 DEF QuietInv, b, v

LEMMA QuietPublish ==
  ASSUME QuietInv, NodesInv, NEW t \in Tasks, PublishNode(t)
  PROVE  /\ QuietInv' /\ task[t].node \in Block /\ task[t].list \in Lists
         /\ FrameIs(t, IF t = Opener THEN "ok" ELSE "idle", "ptrs", Nil, Nil)
<1>1. /\ task[t].step = "publish" /\ arenaLock' = NoTask
      /\ head' = [head EXCEPT ![task[t].list] = task[t].node]
      /\ handed' = handed \cup {Result(t)}
      /\ UNCHANGED <<blocks, cell, owner, arena, cacheHeld, loading, mapped, life, gets>>
  BY DEF PublishNode, At, ownerKept
<1>2. /\ task[t].node \in Block /\ task[t].of \in Block /\ task[t].list \in Lists
      /\ task \in [Tasks -> Frames]
  <2>1. task \in [Tasks -> Frames]
    BY DEF QuietInv, ArenaTypeInv
  <2> QED
    BY <1>1, <2>1, FrameFields DEF NodesInv, HasBlock, HasNode
<1>3. FrameIs(t, IF t = Opener THEN "ok" ELSE "idle", "ptrs", Nil, Nil)
  BY <1>2, FrameLeaves DEF PublishNode
<1>4. Result(t) \in Int
  <2>1. loading \in Int
    BY ArenaConstants DEF QuietInv, ArenaTypeInv
  <2>2. Block \subseteq Int
    BY ArenaConstants
  <2>3. task[t].of \in Int
    BY <1>2, <2>2
  <2> QED
    BY <2>1, <2>3 DEF Result
<1>5. ArenaTypeInv'
  BY <1>1, <1>2, <1>3, <1>4 DEF QuietInv, ArenaTypeInv, FrameIs
<1>6. \A u \in Tasks : arenaLock' = u <=> task'[u].step \in Locking
  <2>1. NoTask \notin Tasks
    BY ArenaConstants DEF NoTask, Tasks, Opener
  <2>2. arenaLock = t
    BY <1>1 DEF QuietInv, CallsInv, Locking
  <2> QED
    BY <1>1, <1>3, <2>1, <2>2 DEF QuietInv, CallsInv, FrameIs, Locking
<1>7. CallsInv'
  BY <1>1, <1>3, <1>6, CallsKeep DEF Calling, HasBlock, HasNode
<1>8. life \in {"cache_dir", "load", "open"}
  BY <1>1 DEF QuietInv, CallsInv, Tasks
<1>9. LifeInv'
  BY <1>1, <1>8 DEF QuietInv, LifeInv
<1> QED
  BY <1>2, <1>3, <1>5, <1>7, <1>9 DEF QuietInv

LEMMA QuietFails ==
  ASSUME QuietInv, NEW t \in Tasks, CallFails(t)
  PROVE  /\ QuietInv'
         /\ FrameIs(t, IF t = Opener THEN "failed" ELSE "idle", "ptrs", Nil, Nil)
<1>1. /\ task[t].step \in {"map", "block", "node", "lock"}
      /\ FreeBlocks(GivenBack(t)) /\ mapped' \subseteq mapped
      /\ UNCHANGED <<head, arenaLock, owner, arena, cacheHeld, loading, life, handed, gets>>
  BY DEF CallFails, listsKept, ownerKept
<1>2. FrameIs(t, IF t = Opener THEN "failed" ELSE "idle", "ptrs", Nil, Nil)
  BY FrameLeaves DEF CallFails, QuietInv, ArenaTypeInv
<1>3. /\ blocks' \subseteq Block /\ cell' \in [Block -> Cells]
      /\ \A b \in Block \ blocks' : cell'[b] = Garbage
  BY <1>1, CellsFreed DEF QuietInv
<1>4. ArenaTypeInv'
  BY <1>1, <1>2, <1>3 DEF QuietInv, ArenaTypeInv, FrameIs
<1>5. \A u \in Tasks : arenaLock' = u <=> task'[u].step \in Locking
  BY <1>1, <1>2 DEF QuietInv, CallsInv, FrameIs, Locking
<1>6. CallsInv'
  BY <1>1, <1>2, <1>5, CallsKeep DEF Calling, HasBlock, HasNode
<1>7. LifeInv'
  BY <1>1 DEF QuietInv, LifeInv
<1> QED
  BY <1>2, <1>4, <1>6, <1>7 DEF QuietInv

LEMMA QuietMap ==
  ASSUME QuietInv, MapFile
  PROVE  /\ QuietInv' /\ life = "load" /\ task[Opener].list = "cleanups"
         /\ FrameIs(Opener, "block", task[Opener].list, task[Opener].of, task[Opener].node)
<1>1. /\ task[Opener].step = "map" /\ mapped' = mapped \cup {loading}
      /\ UNCHANGED <<blocks, cell, head, arenaLock, owner, arena, cacheHeld, loading, life, handed, gets>>
  BY DEF MapFile, At, listsKept, ownerKept
<1>2. life = "load" /\ task[Opener].list = "cleanups" /\ loading <= Files /\ Opener \in Tasks
  BY <1>1 DEF QuietInv, CallsInv, At, Tasks
<1>3. FrameIs(Opener, "block", task[Opener].list, task[Opener].of, task[Opener].node)
  BY <1>2, FrameProceeds DEF MapFile, QuietInv, ArenaTypeInv, Calling
<1>4. ArenaTypeInv'
  <2>1. loading \in 1 .. Files
    BY <1>2, ArenaConstants DEF QuietInv, ArenaTypeInv
  <2> QED
    BY <1>1, <1>3, <2>1 DEF QuietInv, ArenaTypeInv, FrameIs
<1>5. \A u \in Tasks : arenaLock' = u <=> task'[u].step \in Locking
  BY <1>1, <1>3 DEF QuietInv, CallsInv, FrameIs, Locking
<1>6. CallsInv'
  <2>1. task[Opener].of = Nil /\ task[Opener].node = Nil
    BY <1>1, <1>2 DEF QuietInv, CallsInv
  <2> QED
    BY <1>1, <1>2, <1>3, <1>5, <2>1, CallsKeep DEF Calling, HasBlock, HasNode
<1>7. LifeInv'
  BY <1>1, <1>2 DEF QuietInv, LifeInv
<1> QED
  BY <1>2, <1>3, <1>4, <1>6, <1>7 DEF QuietInv

-----------------------------------------------------------------------------
(* The steps of the opener, and a worker's next call. *)

LEMMA QuietOpenCalled ==
  ASSUME QuietInv, OpenCalled
  PROVE  QuietInv' /\ Fresh \in Block \ blocks
<1>1. /\ life = "closed" /\ Fresh \in Block \ blocks /\ owner' = Fresh
      /\ blocks' = blocks \cup {Fresh} /\ life' = "arena"
      /\ UNCHANGED <<cell, head, arenaLock, arena, cacheHeld, loading, mapped, task, handed, gets>>
  BY FreshIsFree DEF OpenCalled, listsKept, Enters
<1>2. ArenaTypeInv'
  BY <1>1 DEF QuietInv, ArenaTypeInv
<1>3. CallsInv'
  BY <1>1 DEF QuietInv, CallsInv, At
<1>4. LifeInv'
  BY <1>1 DEF QuietInv, LifeInv
<1> QED
  BY <1>1, <1>2, <1>3, <1>4 DEF QuietInv

LEMMA OpenerIsTask ==
  Opener \in Tasks /\ \A u \in Worker : u \in Tasks /\ u # Opener
BY ArenaConstants DEF Tasks

LEMMA QuietMakeArena ==
  ASSUME QuietInv, MakeArena
  PROVE  /\ QuietInv' /\ Fresh \in Block \ blocks
         /\ FrameIs(Opener, "block", "ptrs", Nil, Nil)
<1>1. /\ life = "arena" /\ Fresh \in Block \ blocks /\ arena' = Fresh
      /\ blocks' = blocks \cup {Fresh} /\ life' = "cache_dir"
      /\ UNCHANGED <<cell, head, arenaLock, owner, cacheHeld, loading, mapped, handed, gets>>
  BY FreshIsFree DEF MakeArena, listsKept, Enters
<1>2. FrameIs(Opener, "block", "ptrs", Nil, Nil)
  BY OpenerIsTask, FrameCalls DEF MakeArena, QuietInv, ArenaTypeInv, Lists
<1>3. task[Opener].step = "idle"
  BY <1>1 DEF QuietInv, CallsInv
<1>4. ArenaTypeInv'
  BY <1>1, <1>2 DEF QuietInv, ArenaTypeInv, FrameIs
<1>5. CallsInv'
  <2>1. \A u \in Tasks : arenaLock' = u <=> task'[u].step \in Locking
    BY <1>1, <1>2, <1>3 DEF QuietInv, CallsInv, FrameIs, Locking
  <2> QED
    BY <1>1, <1>2, <2>1, OpenerIsTask DEF QuietInv, CallsInv, FrameIs, At
<1>6. LifeInv'
  BY <1>1 DEF QuietInv, LifeInv
<1> QED
  BY <1>1, <1>2, <1>4, <1>5, <1>6 DEF QuietInv

LEMMA QuietMakeArenaFails ==
  ASSUME QuietInv, MakeArenaFails
  PROVE  QuietInv'
<1>1. /\ life = "arena" /\ FreeBlocks({owner}) /\ owner' = Nil /\ life' = "closed"
      /\ UNCHANGED <<head, arenaLock, arena, cacheHeld, loading, mapped, task, handed, gets>>
  BY DEF MakeArenaFails, listsKept, Enters
<1>2. /\ blocks' \subseteq Block /\ cell' \in [Block -> Cells]
      /\ \A b \in Block \ blocks' : cell'[b] = Garbage
  BY <1>1, CellsFreed DEF QuietInv
<1>3. ArenaTypeInv'
  BY <1>1, <1>2 DEF QuietInv, ArenaTypeInv
<1>4. CallsInv'
  BY <1>1 DEF QuietInv, CallsInv, At
<1>5. LifeInv'
  BY <1>1 DEF QuietInv, LifeInv
<1> QED
  BY <1>3, <1>4, <1>5 DEF QuietInv

\* Of the opener's steps, those that leave the arena and its owners alone.
OpenerGoesOn ==
  \/ TakeCacheLock \/ FileLoaded \/ OpenReturns \/ OpenFails \/ CloseCalled
  \/ \E how \in {"missing", "heap", "mapped"} : LoadFile(how)

NoBlockStep == {"idle", "block", "map", "ok", "failed"}

\* A file that has been loaded stays so.
LoadedStay ==
  \A f \in Nat : f < loading \/ (f = loading /\ At(Opener, "ok"))
                  => f < loading' \/ (f = loading' /\ At(Opener, "ok")')

LEMMA QuietGoesOn ==
  ASSUME QuietInv, OpenerGoesOn
  PROVE  /\ QuietInv' /\ life # "destroy" /\ life' # "destroy"
         /\ UNCHANGED <<blocks, cell, head, owner, arena, mapped, handed>>
         /\ task[Opener].step \in NoBlockStep /\ task'[Opener].step \in NoBlockStep
         /\ \A u \in Tasks : u # Opener => task'[u] = task[u]
         /\ Underway = {} /\ Underway' = {}
         /\ life' = "load" /\ mapped # {} => life = "load" /\ LoadedStay
<1> USE OpenerIsTask
<1>1. task \in [Tasks -> Frames]
  BY DEF QuietInv, ArenaTypeInv
<1>2. ASSUME NEW s \in NoBlockStep, ProceedTo(Opener, s)
      PROVE  FrameIs(Opener, s, task[Opener].list, task[Opener].of, task[Opener].node)
  <2>1. s \in Calling \cup {"idle", "map", "ok", "failed"}
    BY DEF NoBlockStep, Calling
  <2> QED
    BY <1>1, <1>2, <2>1, FrameProceeds
<1>3. ASSUME UNCHANGED arenaLock, task[Opener].step \in NoBlockStep,
             task'[Opener].step \in NoBlockStep, \A u \in Tasks : u # Opener => task'[u] = task[u]
      PROVE  \A u \in Tasks : arenaLock' = u <=> task'[u].step \in Locking
  BY <1>3 DEF QuietInv, CallsInv, NoBlockStep, Locking
<1>4. CASE TakeCacheLock
  <2>1. /\ life = "cache_dir" /\ task[Opener].step = "ok" /\ cacheHeld' = TRUE /\ life' = "load"
        /\ UNCHANGED <<blocks, cell, head, arenaLock, owner, arena, loading, mapped, handed, gets>>
    BY <1>4 DEF TakeCacheLock, listsKept, Enters, At
  <2>2. FrameIs(Opener, "idle", task[Opener].list, task[Opener].of, task[Opener].node)
    BY <1>2, <1>4 DEF TakeCacheLock, NoBlockStep
  <2>3. ArenaTypeInv'
    BY <2>1, <2>2 DEF QuietInv, ArenaTypeInv, FrameIs
  <2>4. CallsInv'
    BY <1>3, <2>1, <2>2 DEF QuietInv, CallsInv, FrameIs, At, NoBlockStep
  <2>5. LifeInv'
    BY <2>1 DEF QuietInv, LifeInv
  <2> QED
    BY <2>1, <2>2, <2>3, <2>4, <2>5
       DEF QuietInv, LifeInv, FrameIs, NoBlockStep, Underway, Calling, HasBlock, HasNode
<1>5. CASE FileLoaded
  <2>1. /\ life = "load" /\ task[Opener].step = "ok" /\ loading' = loading + 1 /\ life' = life
        /\ UNCHANGED <<blocks, cell, head, arenaLock, owner, arena, cacheHeld, mapped, handed, gets>>
    BY <1>5 DEF FileLoaded, listsKept, At
  <2>2. FrameIs(Opener, "idle", task[Opener].list, task[Opener].of, task[Opener].node)
    BY <1>2, <1>5 DEF FileLoaded, NoBlockStep
  <2>3. loading <= Files
    BY <2>1 DEF QuietInv, CallsInv, At
  <2>4. ArenaTypeInv'
    <3>1. loading' \in 1 .. Files + 1
      BY <2>1, <2>3, ArenaConstants DEF QuietInv, ArenaTypeInv
    <3> QED
      BY <2>1, <2>2, <3>1 DEF QuietInv, ArenaTypeInv, FrameIs
  <2>5. CallsInv'
    BY <1>3, <2>1, <2>2 DEF QuietInv, CallsInv, FrameIs, At, NoBlockStep
  <2>6. LifeInv'
    BY <2>1 DEF QuietInv, LifeInv
  <2>7. LoadedStay
    BY <2>1 DEF LoadedStay, At, QuietInv, ArenaTypeInv
  <2> QED
    BY <2>1, <2>2, <2>4, <2>5, <2>6, <2>7
       DEF QuietInv, FrameIs, NoBlockStep, Underway, Calling, HasBlock, HasNode
<1>6. CASE OpenReturns \/ CloseCalled
  <2>1. /\ life \in {"load", "open"} /\ task[Opener].step = "idle" /\ life' \in {"open", "close"}
        /\ \A u \in Worker : task[u].step = "idle"
        /\ UNCHANGED <<blocks, cell, head, arenaLock, owner, arena, cacheHeld, loading, mapped, handed, gets, task>>
    BY <1>6 DEF OpenReturns, CloseCalled, listsKept, ownerKept, Enters, At, QuietInv, CallsInv
  <2>2. ArenaTypeInv'
    BY <2>1 DEF QuietInv, ArenaTypeInv
  <2>3. CallsInv'
    BY <2>1 DEF QuietInv, CallsInv, At
  <2>4. LifeInv'
    BY <2>1 DEF QuietInv, LifeInv
  <2> QED
    BY <2>1, <2>2, <2>3, <2>4 DEF QuietInv, NoBlockStep, Underway, Calling, HasBlock, HasNode
<1>7. CASE OpenFails
  <2>1. /\ life \in {"cache_dir", "load"} /\ task[Opener].step \in {"idle", "ok", "failed"} /\ life' = "close"
        /\ UNCHANGED <<blocks, cell, head, arenaLock, owner, arena, cacheHeld, loading, mapped, handed, gets>>
    BY <1>7 DEF OpenFails, listsKept, ownerKept, Enters
  <2>2. FrameIs(Opener, "idle", task[Opener].list, task[Opener].of, task[Opener].node)
    BY <1>2, <1>7 DEF OpenFails, NoBlockStep
  <2>3. ArenaTypeInv'
    BY <2>1, <2>2 DEF QuietInv, ArenaTypeInv, FrameIs
  <2>4. CallsInv'
    <3>1. \A u \in Tasks : arenaLock' = u <=> task'[u].step \in Locking
      BY <1>3, <2>1, <2>2 DEF FrameIs, NoBlockStep
    <3> QED
      BY <2>1, <2>2, <3>1 DEF QuietInv, CallsInv, FrameIs, At
  <2>5. LifeInv'
    BY <2>1 DEF QuietInv, LifeInv
  <2> QED
    BY <2>1, <2>2, <2>3, <2>4, <2>5
       DEF QuietInv, FrameIs, NoBlockStep, Underway, Calling, HasBlock, HasNode
<1>8. ASSUME NEW how \in {"missing", "heap", "mapped"}, LoadFile(how)
      PROVE  /\ QuietInv' /\ life # "destroy" /\ life' # "destroy"
             /\ UNCHANGED <<blocks, cell, head, owner, arena, mapped, handed>>
             /\ task[Opener].step \in NoBlockStep /\ task'[Opener].step \in NoBlockStep
             /\ \A u \in Tasks : u # Opener => task'[u] = task[u]
             /\ Underway = {} /\ Underway' = {}
             /\ life' = "load" /\ mapped # {} => life = "load" /\ LoadedStay
  <2>1. /\ life = "load" /\ task[Opener].step = "idle" /\ life' = life /\ loading <= Files
        /\ UNCHANGED <<blocks, cell, head, arenaLock, owner, arena, cacheHeld, loading, mapped, handed, gets>>
    BY <1>8 DEF LoadFile, listsKept, ownerKept, At
  <2>2. \/ FrameIs(Opener, "ok", task[Opener].list, task[Opener].of, task[Opener].node)
        \/ FrameIs(Opener, "block", "ptrs", Nil, Nil)
        \/ FrameIs(Opener, "map", "cleanups", Nil, Nil)
    <3>1. CASE how = "missing"
      BY <1>2, <1>8, <3>1 DEF LoadFile, NoBlockStep
    <3>2. CASE how = "heap"
      <4>1. Calls(Opener, "ptrs", "block")
        BY <1>8, <3>2 DEF LoadFile
      <4> QED
        BY <1>1, <4>1, FrameCalls DEF Lists
    <3>3. CASE how = "mapped"
      <4>1. Calls(Opener, "cleanups", "map")
        BY <1>8, <3>3 DEF LoadFile
      <4> QED
        BY <1>1, <4>1, FrameCalls DEF Lists
    <3> QED
      BY <3>1, <3>2, <3>3
  <2>3. ArenaTypeInv'
    BY <2>1, <2>2 DEF QuietInv, ArenaTypeInv, FrameIs
  <2>4. CallsInv'
    <3>1. \A u \in Tasks : arenaLock' = u <=> task'[u].step \in Locking
      BY <1>3, <2>1, <2>2 DEF FrameIs, NoBlockStep
    <3> QED
      BY <2>1, <2>2, <3>1 DEF QuietInv, CallsInv, FrameIs, At
  <2>5. LifeInv'
    BY <2>1 DEF QuietInv, LifeInv
  <2>6. LoadedStay
    BY <2>1 DEF LoadedStay, At
  <2>7. Underway = {} /\ Underway' = {}
    BY <2>1, <2>2 DEF Underway, FrameIs, Calling, HasBlock, HasNode
  <2> QED
    BY <2>1, <2>2, <2>3, <2>4, <2>5, <2>6, <2>7 DEF QuietInv, FrameIs, NoBlockStep
<1> QED
  BY <1>4, <1>5, <1>6, <1>7, <1>8 DEF OpenerGoesOn

LEMMA QuietGet ==
  ASSUME QuietInv, NEW t \in Worker, GetDecoded(t)
  PROVE  /\ QuietInv' /\ FrameIs(t, "block", "ptrs", Nil, Nil) /\ task[t].step = "idle"
         /\ life = "open" /\ UNCHANGED <<blocks, cell, head, owner, arena, mapped, life, handed>>
<1>1. /\ life = "open" /\ task[t].step = "idle" /\ gets < MaxGets /\ gets' = gets + 1
      /\ UNCHANGED <<blocks, cell, head, arenaLock, owner, arena, cacheHeld, loading, mapped, life, handed>>
  BY DEF GetDecoded, listsKept, ownerKept, At
<1>2. FrameIs(t, "block", "ptrs", Nil, Nil)
  BY OpenerIsTask, FrameCalls DEF GetDecoded, QuietInv, ArenaTypeInv, Lists
<1>3. gets' \in 0 .. MaxGets
  BY <1>1, ArenaConstants DEF QuietInv, ArenaTypeInv
<1>4. ArenaTypeInv'
  BY <1>1, <1>2, <1>3 DEF QuietInv, ArenaTypeInv, FrameIs
<1>5. CallsInv'
  <2>1. \A u \in Tasks : arenaLock' = u <=> task'[u].step \in Locking
    BY <1>1, <1>2, OpenerIsTask DEF QuietInv, CallsInv, FrameIs, Locking
  <2> QED
    BY <1>1, <1>2, <2>1, OpenerIsTask DEF QuietInv, CallsInv, FrameIs, At, Calling
<1>6. LifeInv'
  BY <1>1 DEF QuietInv, LifeInv
<1> QED
  BY <1>1, <1>2, <1>4, <1>5, <1>6 DEF QuietInv

\* The lists leave the arena.
LEMMA QuietDetach ==
  ASSUME QuietInv, Detach
  PROVE  /\ QuietInv' /\ FrameIs(Opener, "idle", task[Opener].list, head.cleanups, head.ptrs)
         /\ task[Opener].step = "idle"
<1>1. /\ life = "close" /\ life' = "destroy" /\ handed' = {}
      /\ task' = [task EXCEPT ![Opener].of = head.cleanups, ![Opener].node = head.ptrs]
      /\ head' = [ptrs |-> Nil, cleanups |-> Nil]
      /\ UNCHANGED <<blocks, cell, arenaLock, owner, arena, cacheHeld, loading, mapped, gets>>
  BY DEF Detach, ownerKept, Enters
<1>2. task[Opener].step = "idle"
  BY <1>1 DEF QuietInv, CallsInv
<1>3. FrameIs(Opener, "idle", task[Opener].list, head.cleanups, head.ptrs)
  <2>1. head.cleanups \in Block \cup {Nil} /\ head.ptrs \in Block \cup {Nil}
    BY DEF QuietInv, ArenaTypeInv, Lists
  <2>2. task \in [Tasks -> Frames]
    BY DEF QuietInv, ArenaTypeInv
  <2> QED
    BY <1>1, <1>2, <2>1, <2>2, FramePoints, OpenerIsTask
<1>4. ArenaTypeInv'
  <2>1. head' \in [Lists -> Block \cup {Nil}]
    BY <1>1 DEF Lists
  <2> QED
    BY <1>1, <1>3, <2>1 DEF QuietInv, ArenaTypeInv, FrameIs
<1>5. CallsInv'
  <2>1. \A u \in Tasks : arenaLock' = u <=> task'[u].step \in Locking
    BY <1>1, <1>2, <1>3 DEF QuietInv, CallsInv, FrameIs, Locking
  <2> QED
    BY <1>1, <1>3, <2>1, OpenerIsTask DEF QuietInv, CallsInv, FrameIs, At
<1>6. LifeInv'
  BY <1>1 DEF QuietInv, LifeInv
<1> QED
  BY <1>2, <1>3, <1>4, <1>5, <1>6 DEF QuietInv

\* A node of a list goes, with what it is about.
LEMMA QuietPops ==
  ASSUME QuietInv, life = "destroy", NEW freed, FreeBlocks(freed), mapped' \subseteq mapped,
         NEW of, NEW node, FrameIs(Opener, task[Opener].step, task[Opener].list, of, node),
         UNCHANGED <<head, arenaLock, owner, arena, cacheHeld, loading, life, handed, gets>>
  PROVE  QuietInv'
<1>1. /\ blocks' \subseteq Block /\ cell' \in [Block -> Cells]
      /\ \A b \in Block \ blocks' : cell'[b] = Garbage
  BY CellsFreed DEF QuietInv
<1>2. ArenaTypeInv'
  BY <1>1 DEF QuietInv, ArenaTypeInv, FrameIs
<1>3. CallsInv'
  <2>1. \A u \in Tasks : task'[u].step = task[u].step /\ task'[u].list = task[u].list
    BY DEF FrameIs
  <2>2. task[Opener].step = "idle"
    BY DEF QuietInv, CallsInv
  <2>3. \A u \in Tasks : u # Opener => task'[u] = task[u]
    BY DEF FrameIs
  <2> QED
    BY <2>1, <2>2, <2>3, OpenerIsTask DEF QuietInv, CallsInv, At
<1>4. LifeInv'
  BY DEF QuietInv, LifeInv
<1> QED
  BY <1>2, <1>3, <1>4 DEF QuietInv

LEMMA QuietEnds ==
  ASSUME QuietInv, FreeArena \/ (FreeReader /\ mapped = {})
  PROVE  QuietInv'
<1>1. CASE FreeArena
  <2>1. /\ life = "destroy" /\ FreeBlocks({arena}) /\ arena' = Nil /\ life' = "unlock"
        /\ UNCHANGED <<head, arenaLock, owner, cacheHeld, loading, mapped, task, handed, gets>>
    BY <1>1 DEF FreeArena, listsKept, Enters
  <2>2. /\ blocks' \subseteq Block /\ cell' \in [Block -> Cells]
        /\ \A b \in Block \ blocks' : cell'[b] = Garbage
    BY <2>1, CellsFreed DEF QuietInv
  <2>3. ArenaTypeInv'
    BY <2>1, <2>2 DEF QuietInv, ArenaTypeInv
  <2>4. CallsInv'
    BY <2>1 DEF QuietInv, CallsInv, At
  <2>5. LifeInv'
    BY <2>1 DEF QuietInv, LifeInv
  <2> QED
    BY <2>3, <2>4, <2>5 DEF QuietInv
<1>2. CASE FreeReader /\ mapped = {}
  <2>1. /\ life = "unlock" /\ FreeBlocks({owner}) /\ owner' = Nil /\ life' = "closed"
        /\ cacheHeld' = FALSE /\ loading' = 1 /\ gets' = 0 /\ mapped = {}
        /\ UNCHANGED <<head, arenaLock, arena, mapped, task, handed>>
    BY <1>2 DEF FreeReader, listsKept, Enters
  <2>2. /\ blocks' \subseteq Block /\ cell' \in [Block -> Cells]
        /\ \A b \in Block \ blocks' : cell'[b] = Garbage
    BY <2>1, CellsFreed DEF QuietInv
  <2>3. ArenaTypeInv'
    <3>1. loading' \in 1 .. Files + 1 /\ gets' \in 0 .. MaxGets
      BY <2>1, ArenaConstants
    <3> QED
      BY <2>1, <2>2, <3>1 DEF QuietInv, ArenaTypeInv
  <2>4. CallsInv'
    BY <2>1 DEF QuietInv, CallsInv, At
  <2>5. LifeInv'
    BY <2>1 DEF QuietInv, LifeInv
  <2> QED
    BY <2>3, <2>4, <2>5 DEF QuietInv
<1> QED
  BY <1>1, <1>2

-----------------------------------------------------------------------------
(* The lists and the owners: what other threads' steps leave alone. *)

\* A node of a list and what it is about are allocated, and are not what a call
\* has to itself.
LEMMA ListedOwned ==
  ASSUME QuietInv, NEW own, NEW n, NEW l, OwnersInv(own, n, l), ListsInv(n, l),
         NEW list \in Lists, NEW i \in 1 .. n[list]
  PROVE  /\ l[list][i] \in blocks /\ cell[l[list][i]].of \in blocks
         /\ \A t \in Tasks : {l[list][i], cell[l[list][i]].of} \cap TaskBlocks(t) = {}
         /\ {l[list][i], cell[l[list][i]].of} = own[OwnerOf(list, i)]
<1>1. i \in Nat
  BY DEF ListsInv
<1>2. OwnerOf(list, i) \in Owners
  BY <1>1, OwnersKnown
<1>3. own[OwnerOf(list, i)] = {l[list][i], cell[l[list][i]].of}
  BY <1>1 DEF OwnersInv
<1>4. own[OwnerOf(list, i)] \subseteq blocks
  BY <1>2 DEF OwnersInv, Partition
<1>5. \A t \in Tasks : own[OwnerOf(list, i)] \cap TaskBlocks(t) = {}
  <2> SUFFICES ASSUME NEW t \in Tasks PROVE own[OwnerOf(list, i)] \cap TaskBlocks(t) = {}
    OBVIOUS
  <2>1. OwnerOf("task", t) \in Owners /\ own[OwnerOf("task", t)] = TaskBlocks(t)
    BY OwnersKnown DEF OwnersInv
  <2>2. OwnerOf("task", t) # OwnerOf(list, i)
    BY <1>1, OwnersDiffer
  <2> QED
    BY <1>2, <2>1, <2>2 DEF OwnersInv, Partition
<1> QED
  BY <1>3, <1>4, <1>5

LEMMA ListsStay ==
  ASSUME QuietInv, NEW own, NEW n, NEW l, OwnersInv(own, n, l), ListsInv(n, l),
         \A list \in Lists : HeadOf(list)' = HeadOf(list),
         NEW t \in Tasks, \A b \in blocks : b \notin TaskBlocks(t) => cell'[b] = cell[b]
  PROVE  /\ ListsInv(n, l)'
         /\ \A list \in Lists : \A i \in 1 .. n[list] :
              /\ cell'[l[list][i]] = cell[l[list][i]]
              /\ cell'[cell[l[list][i]].of] = cell[cell[l[list][i]].of]
<1>1. ASSUME NEW list \in Lists, NEW i \in 1 .. n[list]
      PROVE  /\ cell'[l[list][i]] = cell[l[list][i]]
             /\ cell'[cell[l[list][i]].of] = cell[cell[l[list][i]].of]
  BY ListedOwned
<1>2. ListsInv(n, l)'
  BY <1>1 DEF ListsInv
<1> QED
  BY <1>1, <1>2

LEMMA FilesStay ==
  ASSUME NEW n, NEW l, NEW file, FilesInv(n, l, file), HandedInv(n, l, file),
         ListsInv(n, l),
         \A list \in Lists : \A i \in 1 .. n[list] :
           /\ cell'[l[list][i]] = cell[l[list][i]]
           /\ cell'[cell[l[list][i]].of] = cell[cell[l[list][i]].of],
         mapped' = (mapped \ Underway) \cup Underway' \/ (mapped' = mapped /\ Underway' = Underway),
         \A i \in 1 .. n["cleanups"] : file[i] \notin Underway,
         handed' \subseteq handed,
         life' = "load" => \A i \in 1 .. n["cleanups"] :
                             file[i] < loading' \/ (file[i] = loading' /\ At(Opener, "ok")')
  PROVE  FilesInv(n, l, file)' /\ HandedInv(n, l, file)'
<1>1. \A i \in 1 .. n["cleanups"] : cell'[cell'[l["cleanups"][i]].of].of = file[i]
  BY DEF FilesInv, Lists
<1>2. mapped' = {file[i] : i \in 1 .. n["cleanups"]} \cup Underway'
  BY DEF FilesInv
<1>3. FilesInv(n, l, file)'
  BY <1>1, <1>2 DEF FilesInv
<1>4. HandedInv(n, l, file)'
  BY DEF HandedInv, Lists
<1> QED
  BY <1>3, <1>4

\* What the other calls have to themselves.
LEMMA OthersStay ==
  ASSUME NEW own, NEW n, NEW l, OwnersInv(own, n, l), NEW t \in Tasks,
         \A b \in blocks : b \notin TaskBlocks(t) => cell'[b] = cell[b],
         NEW u \in Tasks, u # t
  PROVE  /\ task[u].step \in HasBlock => cell'[task[u].of] = cell[task[u].of]
         /\ task[u].step \in HasNode => cell'[task[u].node] = cell[task[u].node]
<1>1. /\ OwnerOf("task", u) \in Owners /\ own[OwnerOf("task", u)] = TaskBlocks(u)
      /\ OwnerOf("task", t) \in Owners /\ own[OwnerOf("task", t)] = TaskBlocks(t)
  BY OwnersKnown DEF OwnersInv
<1>2. OwnerOf("task", u) # OwnerOf("task", t)
  BY OwnersDiffer
<1>3. TaskBlocks(u) \subseteq blocks /\ TaskBlocks(u) \cap TaskBlocks(t) = {}
  BY <1>1, <1>2 DEF OwnersInv, Partition
<1>4. task[u].step \in HasBlock => task[u].of \in TaskBlocks(u)
  BY DEF TaskBlocks, HasBlock, HasNode
<1>5. task[u].step \in HasNode => task[u].node \in TaskBlocks(u)
  BY DEF TaskBlocks, HasNode
<1> QED
  BY <1>3, <1>4, <1>5

LEMMA OwnerOfTask ==
  ASSUME NEW own, NEW n, NEW l, OwnersInv(own, n, l), NEW t \in Tasks
  PROVE  /\ OwnerOf("task", t) \in Owners /\ own[OwnerOf("task", t)] = TaskBlocks(t)
         /\ TaskBlocks(t) \subseteq blocks /\ Partition(own, blocks)
BY OwnersKnown DEF OwnersInv, Partition

\* One call's own blocks change.
LEMMA OwnersOfCall ==
  ASSUME NEW own, NEW n, NEW l, OwnersInv(own, n, l), ListsInv(n, l), NEW t \in Tasks,
         NEW o, Partition(o, blocks'), NEW S,
         o = [own EXCEPT ![OwnerOf("task", t)] = S], TaskBlocks(t)' = S,
         \A u \in Tasks : u # t => TaskBlocks(u)' = TaskBlocks(u),
         UNCHANGED <<owner, arena>>,
         \A list \in Lists : \A i \in 1 .. n[list] : cell'[l[list][i]] = cell[l[list][i]]
  PROVE  OwnersInv(o, n, l)'
<1> DEFINE p == OwnerOf("task", t)
<1>1. p \in Owners /\ own \in [Owners -> SUBSET Block]
  BY OwnersKnown DEF OwnersInv, Partition
<1>2. o[p] = S /\ \A q \in Owners : q # p => o[q] = own[q]
  BY <1>1
<1> HIDE DEF p
<1>3. o[OwnerOf("owner", 0)] = {owner'} \ {Nil} /\ o[OwnerOf("arena", 0)] = {arena'} \ {Nil}
  BY <1>2, OwnersKnown, OwnersDiffer DEF OwnersInv, p
<1>4. \A u \in Tasks : o[OwnerOf("task", u)] = TaskBlocks(u)'
  BY <1>2, OwnersKnown, OwnersDiffer DEF OwnersInv, p
<1>5. ASSUME NEW list \in Lists, NEW i \in Nat
      PROVE  o[OwnerOf(list, i)] = IF i \in 1 .. n[list]
                                   THEN {l[list][i], cell'[l[list][i]].of} ELSE {}
  <2>1. o[OwnerOf(list, i)] = own[OwnerOf(list, i)]
    BY <1>2, OwnersKnown, OwnersDiffer DEF p
  <2> QED
    BY <2>1 DEF OwnersInv
<1>6. Partition(o, blocks)'
  OBVIOUS
<1> QED
  BY <1>3, <1>4, <1>5, <1>6 DEF OwnersInv

\* No call's own blocks change.
LEMMA OwnersSame ==
  ASSUME NEW own, NEW n, NEW l, OwnersInv(own, n, l), ListsInv(n, l),
         \A u \in Tasks : TaskBlocks(u)' = TaskBlocks(u),
         UNCHANGED <<blocks, owner, arena>>,
         \A list \in Lists : \A i \in 1 .. n[list] : cell'[l[list][i]].of = cell[l[list][i]].of
  PROVE  OwnersInv(own, n, l)'
<1>1. Partition(own, blocks)'
  BY DEF OwnersInv, Partition
<1>2. ASSUME NEW list \in Lists, NEW i \in Nat
      PROVE  own[OwnerOf(list, i)] = IF i \in 1 .. n[list]
                                     THEN {l[list][i], cell'[l[list][i]].of} ELSE {}
  BY DEF OwnersInv
<1>3. /\ own[OwnerOf("owner", 0)] = {owner'} \ {Nil} /\ own[OwnerOf("arena", 0)] = {arena'} \ {Nil}
      /\ \A u \in Tasks : own[OwnerOf("task", u)] = TaskBlocks(u)'
  BY DEF OwnersInv
<1> QED
  BY <1>1, <1>2, <1>3 DEF OwnersInv

-----------------------------------------------------------------------------
(* Each step keeps what the invariant follows. *)

NextFollowed == \E own, n, l, file : Followed(own, n, l, file)'

LEMMA LoadedNotUnderway ==
  ASSUME QuietInv, NEW n, NEW l, NEW file, FilesInv(n, l, file), ListsInv(n, l)
  PROVE  \A i \in 1 .. n["cleanups"] : file[i] \notin Underway
<1> SUFFICES ASSUME NEW i \in 1 .. n["cleanups"], file[i] = loading,
                    task[Opener].list = "cleanups", task[Opener].step \in Calling
             PROVE  FALSE
  BY DEF Underway
<1>1. life = "load" /\ ~At(Opener, "ok")
  BY DEF QuietInv, CallsInv, Calling, HasBlock, HasNode, At
<1> QED
  BY <1>1 DEF FilesInv, QuietInv, ArenaTypeInv

LEMMA GoesOnFollowed ==
  ASSUME QuietInv, NEW own, NEW n, NEW l, NEW file, Followed(own, n, l, file), OpenerGoesOn
  PROVE  Followed(own, n, l, file)'
<1>1. /\ life # "destroy" /\ life' # "destroy"
      /\ UNCHANGED <<blocks, cell, head, owner, arena, mapped, handed>>
      /\ task[Opener].step \in NoBlockStep /\ task'[Opener].step \in NoBlockStep
      /\ \A u \in Tasks : u # Opener => task'[u] = task[u]
      /\ Underway = {} /\ Underway' = {}
      /\ life' = "load" /\ mapped # {} => life = "load" /\ LoadedStay
  BY QuietGoesOn
<1>2. OwnersInv(own, n, l) /\ ListsInv(n, l) /\ NodesInv /\ FilesInv(n, l, file) /\ HandedInv(n, l, file)
  BY DEF Followed
<1>3. \A u \in Tasks : TaskBlocks(u)' = TaskBlocks(u)
  BY <1>1 DEF TaskBlocks, NoBlockStep, HasNode
<1>4. OwnersInv(own, n, l)'
  BY <1>1, <1>2, <1>3, OwnersSame
<1>5. ListsInv(n, l)'
  BY <1>1, <1>2 DEF ListsInv, HeadOf
<1>6. NodesInv'
  BY <1>1, <1>2 DEF NodesInv, NoBlockStep, HasBlock, HasNode, At
<1>7. FilesInv(n, l, file)' /\ HandedInv(n, l, file)'
  <2>1. \A i \in 1 .. n["cleanups"] : file[i] \in Nat /\ file[i] \in mapped
    BY <1>2 DEF FilesInv, ListsInv, Lists
  <2>2. life' = "load" => \A i \in 1 .. n["cleanups"] :
                            file[i] < loading' \/ (file[i] = loading' /\ At(Opener, "ok")')
    BY <1>1, <1>2, <2>1 DEF FilesInv, LoadedStay
  <2> QED
    BY <1>1, <1>2, <2>2, FilesStay
<1> QED
  BY <1>4, <1>5, <1>6, <1>7 DEF Followed

\* The steps of a call that touch no list: they change at most cells that are free
\* or the call's own.
LEMMA CallFollowed ==
  ASSUME QuietInv, NEW own, NEW n, NEW l, NEW file, Followed(own, n, l, file),
         NEW t \in Tasks, \A u \in Tasks : u # t => task'[u] = task[u],
         \A b \in blocks : b \notin TaskBlocks(t) => cell'[b] = cell[b],
         life # "destroy", UNCHANGED <<life, head, owner, arena, loading, handed>>,
         NEW o, Partition(o, blocks'), NEW S,
         o = [own EXCEPT ![OwnerOf("task", t)] = S], TaskBlocks(t)' = S,
         task'[t].step \in HasBlock => task'[t].of \in Block,
         task'[t].step \in HasNode =>
           task'[t].node \in Block /\ cell'[task'[t].node].of = task'[t].of,
         task'[t].step = "publish" => cell'[task'[t].node].next = head[task'[t].list],
         t = Opener /\ task'[t].list = "cleanups" /\ task'[t].step \in HasBlock =>
           cell'[task'[t].of].of = loading,
         mapped' = (mapped \ Underway) \cup Underway' \/ (mapped' = mapped /\ Underway' = Underway),
         At(Opener, "ok") => At(Opener, "ok")'
  PROVE  Followed(o, n, l, file)'
<1>1. OwnersInv(own, n, l) /\ ListsInv(n, l) /\ NodesInv /\ FilesInv(n, l, file) /\ HandedInv(n, l, file)
  BY DEF Followed
<1>2. \A list \in Lists : HeadOf(list)' = HeadOf(list)
  BY DEF HeadOf
<1>3. /\ ListsInv(n, l)'
      /\ \A list \in Lists : \A i \in 1 .. n[list] :
           /\ cell'[l[list][i]] = cell[l[list][i]]
           /\ cell'[cell[l[list][i]].of] = cell[cell[l[list][i]].of]
  BY <1>1, <1>2, ListsStay
<1>4. OwnersInv(o, n, l)'
  <2>1. \A u \in Tasks : u # t => TaskBlocks(u)' = TaskBlocks(u)
    BY DEF TaskBlocks
  <2> QED
    BY <1>1, <1>3, <2>1, OwnersOfCall
<1>5. NodesInv'
  <2>1. \A u \in Tasks : u # t =>
          /\ task[u].step \in HasBlock => cell'[task[u].of] = cell[task[u].of]
          /\ task[u].step \in HasNode => cell'[task[u].node] = cell[task[u].node]
    BY <1>1, OthersStay
  <2>2. \A u \in Tasks : task'[u].step \in HasBlock => task'[u].of \in Block
    BY <1>1 DEF NodesInv
  <2>3. \A u \in Tasks : task'[u].step \in HasNode =>
          task'[u].node \in Block /\ cell'[task'[u].node].of = task'[u].of
    BY <1>1, <2>1 DEF NodesInv
  <2>4. \A u \in Tasks : task'[u].step = "publish" => cell'[task'[u].node].next = head'[task'[u].list]
    BY <1>1, <2>1 DEF NodesInv, At, HasNode
  <2>5. task'[Opener].list = "cleanups" /\ task'[Opener].step \in HasBlock =>
          cell'[task'[Opener].of].of = loading'
    BY <1>1, <2>1, OpenerIsTask DEF NodesInv
  <2> QED
    BY <2>2, <2>3, <2>4, <2>5 DEF NodesInv, At
<1>6. FilesInv(n, l, file)' /\ HandedInv(n, l, file)'
  <2>1. \A i \in 1 .. n["cleanups"] : file[i] \notin Underway
    BY <1>1, LoadedNotUnderway
  <2>2. life' = "load" => \A i \in 1 .. n["cleanups"] :
                            file[i] < loading' \/ (file[i] = loading' /\ At(Opener, "ok")')
    BY <1>1 DEF FilesInv
  <2> QED
    BY <1>1, <1>3, <2>1, <2>2, FilesStay
<1> QED
  BY <1>3, <1>4, <1>5, <1>6 DEF Followed

LEMMA BlockFollowed ==
  ASSUME QuietInv, NEW own, NEW n, NEW l, NEW file, Followed(own, n, l, file),
         NEW t \in Tasks, AllocateBlock(t)
  PROVE  NextFollowed
<1> DEFINE p == OwnerOf("task", t)
           v == IF task[t].list = "cleanups" THEN loading ELSE Nil
<1>0. PICK o, S : o = [own EXCEPT ![p] = @ \cup {Fresh}] /\ S = {Fresh}
  OBVIOUS
<1>1. /\ Fresh \in Block \ blocks
      /\ FrameIs(t, "node", task[t].list, Fresh, task[t].node) /\ CellIs(Fresh, v, Nil)
  BY QuietBlock
<1>2. /\ task[t].step = "block" /\ blocks' = blocks \cup {Fresh}
      /\ UNCHANGED <<head, arenaLock, owner, arena, cacheHeld, loading, mapped, life, handed, gets>>
  BY DEF AllocateBlock, At, listsKept, ownerKept
<1>3. /\ task'[t].step = "node" /\ task'[t].list = task[t].list /\ task'[t].of = Fresh
      /\ \A u \in Tasks : u # t => task'[u] = task[u]
  BY <1>1 DEF FrameIs
<1>4. \A b \in blocks : cell'[b] = cell[b]
  BY <1>1 DEF CellIs, QuietInv, ArenaTypeInv
<1>5. p \in Owners /\ own[p] = TaskBlocks(t) /\ Partition(own, blocks)
  BY OwnerOfTask DEF Followed
<1>6. TaskBlocks(t) = {} /\ TaskBlocks(t)' = S
  BY <1>0, <1>2, <1>3 DEF TaskBlocks, HasNode
<1>7. Partition(o, blocks') /\ o = [own EXCEPT ![p] = S]
  BY <1>0, <1>1, <1>2, <1>5, <1>6, OwnerGets
<1>8. life # "destroy"
  BY <1>2, OpenerIsTask DEF QuietInv, CallsInv, Tasks
<1>9. Underway' = Underway
  BY <1>2, <1>3, OpenerIsTask DEF Underway, Calling, HasBlock, HasNode
<1>10. t = Opener /\ task'[t].list = "cleanups" => cell'[task'[t].of].of = loading
  BY <1>1, <1>3 DEF CellIs
<1> HIDE DEF p, v
<1>11. Followed(o, n, l, file)'
  <2>1. o = [own EXCEPT ![OwnerOf("task", t)] = S]
    BY <1>7 DEF p
  <2>2. /\ task'[t].of \in Block /\ task'[t].step # "publish"
        /\ task'[t].step \in HasNode =>
             task'[t].node \in Block /\ cell'[task'[t].node].of = task'[t].of
    BY <1>1, <1>3, <1>10 DEF HasNode
  <2>3. At(Opener, "ok") => At(Opener, "ok")'
    BY <1>2, <1>3, OpenerIsTask DEF At
  <2>4. mapped' = mapped /\ UNCHANGED <<life, head, owner, arena, loading, handed>>
    BY <1>2
  <2>5. /\ \A u \in Tasks : u # t => task'[u] = task[u]
        /\ \A b \in blocks : b \notin TaskBlocks(t) => cell'[b] = cell[b]
    BY <1>3, <1>4
  <2>6. Partition(o, blocks') /\ TaskBlocks(t)' = S
    BY <1>6, <1>7
  <2>7. /\ task'[t].step \in HasBlock => task'[t].of \in Block
        /\ task'[t].step \in HasNode =>
             task'[t].node \in Block /\ cell'[task'[t].node].of = task'[t].of
        /\ task'[t].step = "publish" => cell'[task'[t].node].next = head[task'[t].list]
        /\ t = Opener /\ task'[t].list = "cleanups" /\ task'[t].step \in HasBlock =>
             cell'[task'[t].of].of = loading
    BY <2>2, <1>10
  <2> QED
    BY <1>8, <1>9, <2>1, <2>3, <2>4, <2>5, <2>6, <2>7, CallFollowed
<1> QED
  BY <1>11 DEF NextFollowed

LEMMA NodeFollowed ==
  ASSUME QuietInv, NEW own, NEW n, NEW l, NEW file, Followed(own, n, l, file),
         NEW t \in Tasks, AllocateNode(t)
  PROVE  NextFollowed
<1> DEFINE p == OwnerOf("task", t)
<1>0. PICK o, S : o = [own EXCEPT ![p] = @ \cup {Fresh}] /\ S = {task[t].of, Fresh}
  OBVIOUS
<1>1. /\ Fresh \in Block \ blocks
      /\ FrameIs(t, "lock", task[t].list, task[t].of, Fresh) /\ CellIs(Fresh, task[t].of, Nil)
  BY QuietNode DEF Followed
<1>2. /\ task[t].step = "node" /\ blocks' = blocks \cup {Fresh}
      /\ UNCHANGED <<head, arenaLock, owner, arena, cacheHeld, loading, mapped, life, handed, gets>>
  BY DEF AllocateNode, At, listsKept, ownerKept
<1>3. /\ task'[t].step = "lock" /\ task'[t].list = task[t].list /\ task'[t].of = task[t].of
      /\ task'[t].node = Fresh
      /\ \A u \in Tasks : u # t => task'[u] = task[u]
  BY <1>1 DEF FrameIs
<1>4. \A b \in blocks : cell'[b] = cell[b]
  BY <1>1 DEF CellIs, QuietInv, ArenaTypeInv
<1>5. p \in Owners /\ own[p] = TaskBlocks(t) /\ Partition(own, blocks) /\ TaskBlocks(t) \subseteq blocks
  BY OwnerOfTask DEF Followed
<1>6. TaskBlocks(t) = {task[t].of} /\ TaskBlocks(t)' = S
  BY <1>0, <1>2, <1>3 DEF TaskBlocks, HasNode
<1>7. Partition(o, blocks') /\ o = [own EXCEPT ![p] = S]
  BY <1>0, <1>1, <1>2, <1>5, <1>6, OwnerGets
<1>8. life # "destroy"
  BY <1>2, OpenerIsTask DEF QuietInv, CallsInv, Tasks
<1>9. Underway' = Underway
  BY <1>2, <1>3, OpenerIsTask DEF Underway, Calling, HasBlock, HasNode
<1>10. /\ task[t].of \in Block /\ cell'[Fresh].of = task[t].of
       /\ t = Opener /\ task'[t].list = "cleanups" => cell'[task'[t].of].of = loading
  BY <1>1, <1>2, <1>3, <1>4, <1>5, <1>6 DEF CellIs, Followed, NodesInv, HasBlock
<1> HIDE DEF p
<1>11. Followed(o, n, l, file)'
  <2>1. o = [own EXCEPT ![OwnerOf("task", t)] = S]
    BY <1>7 DEF p
  <2>2. /\ task'[t].of \in Block /\ task'[t].step # "publish"
        /\ task'[t].step \in HasNode =>
             task'[t].node \in Block /\ cell'[task'[t].node].of = task'[t].of
    BY <1>1, <1>3, <1>10 DEF HasNode
  <2>3. At(Opener, "ok") => At(Opener, "ok")'
    BY <1>2, <1>3, OpenerIsTask DEF At
  <2>4. mapped' = mapped /\ UNCHANGED <<life, head, owner, arena, loading, handed>>
    BY <1>2
  <2>5. /\ \A u \in Tasks : u # t => task'[u] = task[u]
        /\ \A b \in blocks : b \notin TaskBlocks(t) => cell'[b] = cell[b]
    BY <1>3, <1>4
  <2>6. Partition(o, blocks') /\ TaskBlocks(t)' = S
    BY <1>6, <1>7
  <2>7. /\ task'[t].step \in HasBlock => task'[t].of \in Block
        /\ task'[t].step \in HasNode =>
             task'[t].node \in Block /\ cell'[task'[t].node].of = task'[t].of
        /\ task'[t].step = "publish" => cell'[task'[t].node].next = head[task'[t].list]
        /\ t = Opener /\ task'[t].list = "cleanups" /\ task'[t].step \in HasBlock =>
             cell'[task'[t].of].of = loading
    BY <2>2, <1>10
  <2> QED
    BY <1>8, <1>9, <2>1, <2>3, <2>4, <2>5, <2>6, <2>7, CallFollowed
<1> QED
  BY <1>11 DEF NextFollowed

\* Taking the lock, and linking the node to the head.
LEMMA LinkFollowed ==
  ASSUME QuietInv, NEW own, NEW n, NEW l, NEW file, Followed(own, n, l, file),
         NEW t \in Tasks, TakeArena(t) \/ LinkNode(t)
  PROVE  NextFollowed /\ QuietInv'
<1> DEFINE p == OwnerOf("task", t)
<1>1. p \in Owners /\ own[p] = TaskBlocks(t) /\ Partition(own, blocks) /\ TaskBlocks(t) \subseteq blocks
  BY OwnerOfTask DEF Followed
<1>2. own = [own EXCEPT ![p] = TaskBlocks(t)]
  BY <1>1 DEF Partition
<1>3. /\ task[t].step \in {"lock", "link"}
      /\ UNCHANGED <<blocks, head, owner, arena, cacheHeld, loading, mapped, life, handed, gets>>
  BY DEF TakeArena, LinkNode, At, listsKept, ownerKept
<1>4. TaskBlocks(t) = {task[t].of, task[t].node}
  BY <1>3 DEF TaskBlocks, HasNode
<1>5. /\ task[t].of \in Block /\ task[t].node \in Block /\ cell[task[t].node].of = task[t].of
      /\ t = Opener /\ task[t].list = "cleanups" => cell[task[t].of].of = loading
  BY <1>3 DEF Followed, NodesInv, HasBlock, HasNode
<1>6. /\ QuietInv' /\ task'[t].step \in {"link", "publish"} /\ task'[t].list = task[t].list
      /\ task'[t].of = task[t].of /\ task'[t].node = task[t].node
      /\ \A u \in Tasks : u # t => task'[u] = task[u]
      /\ \A b \in Block : cell'[b].of = cell[b].of
      /\ \A b \in Block : b # task[t].node => cell'[b] = cell[b]
      /\ task'[t].step = "publish" => cell'[task[t].node].next = head[task[t].list]
  <2>1. CASE TakeArena(t)
    <3>1. QuietInv' /\ FrameIs(t, "link", task[t].list, task[t].of, task[t].node) /\ cell' = cell
      BY <2>1, QuietTake DEF TakeArena
    <3> QED
      BY <3>1 DEF FrameIs
  <2>2. CASE LinkNode(t)
    <3>1. /\ QuietInv' /\ FrameIs(t, "publish", task[t].list, task[t].of, task[t].node)
          /\ CellIs(task[t].node, cell[task[t].node].of, head[task[t].list])
      BY <1>1, <1>4, <2>2, QuietLink DEF Followed
    <3>2. \A b \in Block : cell'[b].of = cell[b].of
      BY <3>1 DEF CellIs
    <3> QED
      BY <3>1, <3>2 DEF FrameIs, CellIs
  <2> QED
    BY <2>1, <2>2
<1>7. TaskBlocks(t)' = TaskBlocks(t)
  BY <1>4, <1>6 DEF TaskBlocks, HasNode
<1>8. life # "destroy"
  BY <1>3, OpenerIsTask DEF QuietInv, CallsInv, Tasks
<1>9. Underway' = Underway
  BY <1>3, <1>6, OpenerIsTask DEF Underway, Calling, HasBlock, HasNode
<1>10. \A b \in blocks : b \notin TaskBlocks(t) => cell'[b] = cell[b]
  BY <1>4, <1>6 DEF QuietInv, ArenaTypeInv
<1>11. Partition(own, blocks')
  BY <1>1, <1>3
<1>12. own = [own EXCEPT ![OwnerOf("task", t)] = TaskBlocks(t)]
  BY <1>2
<1> HIDE DEF p
<1>13. Followed(own, n, l, file)'
  <2>1. /\ task'[t].of \in Block /\ task'[t].node \in Block
        /\ cell'[task'[t].node].of = task'[t].of
        /\ task'[t].step = "publish" => cell'[task'[t].node].next = head[task'[t].list]
        /\ t = Opener /\ task'[t].list = "cleanups" => cell'[task'[t].of].of = loading
    BY <1>5, <1>6
  <2>2. At(Opener, "ok") => At(Opener, "ok")'
    BY <1>3, <1>6, OpenerIsTask DEF At
  <2>3. mapped' = mapped /\ UNCHANGED <<life, head, owner, arena, loading, handed>>
    BY <1>3
  <2> QED
    BY <1>6, <1>7, <1>8, <1>9, <1>10, <1>11, <1>12, <2>1, <2>2, <2>3, CallFollowed
<1> QED
  BY <1>6, <1>13 DEF NextFollowed

\* A call that fails gives back what it has, and its file.
LEMMA FailsFollowed ==
  ASSUME QuietInv, NEW own, NEW n, NEW l, NEW file, Followed(own, n, l, file),
         NEW t \in Tasks, CallFails(t)
  PROVE  NextFollowed
<1> DEFINE p == OwnerOf("task", t)
           o == [own EXCEPT ![p] = {}]
           e == IF t = Opener THEN "failed" ELSE "idle"
<1>1. FrameIs(t, e, "ptrs", Nil, Nil)
  BY QuietFails
<1>2. /\ task[t].step \in {"map", "block", "node", "lock"} /\ FreeBlocks(GivenBack(t))
      /\ mapped' = IF task[t].list = "cleanups" THEN mapped \ {loading} ELSE mapped
      /\ UNCHANGED <<head, arenaLock, owner, arena, cacheHeld, loading, life, handed, gets>>
  BY DEF CallFails, listsKept, ownerKept
<1>3. p \in Owners /\ own[p] = TaskBlocks(t) /\ Partition(own, blocks) /\ TaskBlocks(t) \subseteq blocks
  BY OwnerOfTask DEF Followed
<1>4. GivenBack(t) = TaskBlocks(t)
  <2>1. Nil \notin blocks
    BY ArenaConstants DEF QuietInv, ArenaTypeInv
  <2> QED
    BY <1>2, <1>3, <2>1 DEF GivenBack, TaskBlocks, HasNode, QuietInv, CallsInv
<1>5. /\ task'[t].step = e /\ task'[t].list = "ptrs"
      /\ \A u \in Tasks : u # t => task'[u] = task[u]
  BY <1>1 DEF FrameIs
<1>6. TaskBlocks(t)' = {}
  BY <1>5 DEF TaskBlocks, HasNode
<1>7. /\ blocks' = blocks \ TaskBlocks(t)
      /\ \A b \in blocks : b \notin TaskBlocks(t) => cell'[b] = cell[b]
  BY <1>2, <1>4, CellsFreed DEF QuietInv, ArenaTypeInv
<1>8. Partition(o, blocks')
  BY <1>3, <1>7, OwnerFrees
<1>9. life # "destroy"
  BY <1>2, OpenerIsTask DEF QuietInv, CallsInv, Tasks
<1>10. mapped' = (mapped \ Underway) \cup Underway' \/ (mapped' = mapped /\ Underway' = Underway)
  <2>1. CASE task[t].list = "cleanups"
    <3>1. t = Opener
      BY <1>2, <2>1 DEF QuietInv, CallsInv, Tasks
    <3>2. Underway' = {} /\ (task[t].step # "map" => Underway = {loading})
      BY <1>2, <1>5, <2>1, <3>1 DEF Underway, Calling, HasBlock, HasNode
    <3>3. task[t].step = "map" => loading \notin mapped /\ Underway = {}
      <4> SUFFICES ASSUME task[t].step = "map" PROVE loading \notin mapped /\ Underway = {}
        OBVIOUS
      <4>1. Underway = {} /\ life = "load"
        BY <3>1 DEF Underway, Calling, HasBlock, HasNode, QuietInv, CallsInv, At
      <4>2. FilesInv(n, l, file)
        BY DEF Followed
      <4>3. \A i \in 1 .. n["cleanups"] : file[i] # loading
        BY <3>1, <4>1, <4>2 DEF FilesInv, At, QuietInv, ArenaTypeInv
      <4> QED
        BY <4>1, <4>2, <4>3 DEF FilesInv
    <3> QED
      BY <1>2, <2>1, <3>2, <3>3
  <2>2. CASE task[t].list # "cleanups"
    <3>1. Underway' = Underway
      BY <1>2, <1>5, <2>2, OpenerIsTask DEF Underway
    <3> QED
      BY <1>2, <2>2, <3>1
  <2> QED
    BY <2>1, <2>2
<1> HIDE DEF o, p
<1>11. Followed(o, n, l, file)'
  <2>1. o = [own EXCEPT ![OwnerOf("task", t)] = {}]
    BY DEF o, p
  <2> QED
    BY <1>2, <1>5, <1>6, <1>7, <1>8, <1>9, <1>10, <2>1, CallFollowed, OpenerIsTask
       DEF HasNode, HasBlock, At
<1> QED
  BY <1>11 DEF NextFollowed

\* A thread begins a call: it has no block yet.
LEMMA GetFollowed ==
  ASSUME QuietInv, NEW own, NEW n, NEW l, NEW file, Followed(own, n, l, file),
         NEW t \in Worker, GetDecoded(t)
  PROVE  NextFollowed
<1>1. /\ FrameIs(t, "block", "ptrs", Nil, Nil) /\ task[t].step = "idle" /\ life = "open"
      /\ UNCHANGED <<blocks, cell, head, owner, arena, mapped, life, handed>>
  BY QuietGet
<1>2. t \in Tasks /\ t # Opener /\ loading' = loading
  BY OpenerIsTask DEF GetDecoded, ownerKept
<1>3. /\ task'[t].step = "block" /\ \A u \in Tasks : u # t => task'[u] = task[u]
  BY <1>1 DEF FrameIs
<1>4. TaskBlocks(t) = {} /\ TaskBlocks(t)' = {}
  BY <1>1, <1>3 DEF TaskBlocks, HasNode
<1>5. Partition(own, blocks') /\ own = [own EXCEPT ![OwnerOf("task", t)] = {}]
  <2>1. own[OwnerOf("task", t)] = {} /\ Partition(own, blocks)
    BY <1>2, <1>4, OwnerOfTask DEF Followed
  <2> QED
    BY <1>1, <2>1 DEF Partition
<1>6. task'[Opener] = task[Opener] /\ Underway' = Underway
  BY <1>2, <1>3, OpenerIsTask DEF Underway
<1>7. Followed(own, n, l, file)'
  BY <1>1, <1>2, <1>3, <1>4, <1>5, <1>6, CallFollowed DEF At, HasBlock, HasNode
<1> QED
  BY <1>7 DEF NextFollowed

\* The opener has mapped the file that it loads.
LEMMA MapFollowed ==
  ASSUME QuietInv, NEW own, NEW n, NEW l, NEW file, Followed(own, n, l, file), MapFile
  PROVE  NextFollowed
<1>1. /\ life = "load" /\ task[Opener].list = "cleanups"
      /\ FrameIs(Opener, "block", task[Opener].list, task[Opener].of, task[Opener].node)
  BY QuietMap
<1>2. /\ task[Opener].step = "map" /\ mapped' = mapped \cup {loading}
      /\ UNCHANGED <<blocks, cell, head, owner, arena, loading, life, handed>>
  BY DEF MapFile, At, listsKept, ownerKept
<1>3. /\ task'[Opener].step = "block" /\ task'[Opener].list = "cleanups"
      /\ \A u \in Tasks : u # Opener => task'[u] = task[u]
  BY <1>1 DEF FrameIs
<1>4. TaskBlocks(Opener) = {} /\ TaskBlocks(Opener)' = {}
  BY <1>2, <1>3 DEF TaskBlocks, HasNode
<1>5. Partition(own, blocks') /\ own = [own EXCEPT ![OwnerOf("task", Opener)] = {}]
  <2>1. own[OwnerOf("task", Opener)] = {} /\ Partition(own, blocks)
    BY <1>4, OwnerOfTask, OpenerIsTask DEF Followed
  <2> QED
    BY <1>2, <2>1 DEF Partition
<1>6. mapped' = (mapped \ Underway) \cup Underway'
  <2>1. Underway = {} /\ Underway' = {loading}
    BY <1>2, <1>3 DEF Underway, Calling, HasBlock, HasNode
  <2> QED
    BY <1>2, <2>1
<1>7. Followed(own, n, l, file)'
  BY <1>1, <1>2, <1>3, <1>4, <1>5, <1>6, OpenerIsTask, CallFollowed DEF At, HasBlock, HasNode
<1> QED
  BY <1>7 DEF NextFollowed

\* A call ends: its node, and what that is about, are the list's.
LEMMA PublishFollowed ==
  ASSUME QuietInv, NEW own, NEW n, NEW l, NEW file, Followed(own, n, l, file),
         NEW t \in Tasks, PublishNode(t)
  PROVE  NextFollowed
<1>1. PICK k, m, b, a, f : /\ k = task[t].list /\ m = n[k] + 1
                           /\ b = task[t].node /\ a = task[t].of /\ f = loading
  OBVIOUS
<1> DEFINE p == OwnerOf("task", t)
           o == [own EXCEPT ![OwnerOf(k, m)] = own[p], ![p] = {}]
           n2 == [n EXCEPT ![k] = m]
           l2 == [l EXCEPT ![k] = [l[k] EXCEPT ![m] = b]]
           file2 == IF k = "cleanups" THEN [file EXCEPT ![m] = f] ELSE file
           e == IF t = Opener THEN "ok" ELSE "idle"
<1>2. OwnersInv(own, n, l) /\ ListsInv(n, l) /\ NodesInv /\ FilesInv(n, l, file) /\ HandedInv(n, l, file)
  BY DEF Followed
<1>3. b \in Block /\ k \in Lists /\ FrameIs(t, e, "ptrs", Nil, Nil)
  BY <1>1, <1>2, QuietPublish
<1>4. /\ task[t].step = "publish" /\ head' = [head EXCEPT ![k] = b]
      /\ handed' = handed \cup {Result(t)}
      /\ UNCHANGED <<blocks, cell, owner, arena, cacheHeld, loading, mapped, life, gets>>
  BY <1>1 DEF PublishNode, At, ownerKept
<1>5. /\ task'[t].step = e /\ task'[t].list = "ptrs"
      /\ \A u \in Tasks : u # t => task'[u] = task[u]
  BY <1>3 DEF FrameIs
<1>6. /\ a \in Block /\ cell[b].of = a /\ cell[b].next = head[k]
      /\ t = Opener /\ k = "cleanups" => cell[a].of = f
  BY <1>1, <1>2, <1>4 DEF NodesInv, HasBlock, HasNode, At
<1>7. life # "destroy" /\ life' = life
  BY <1>4, OpenerIsTask DEF QuietInv, CallsInv, Tasks
<1>8. m \in Nat /\ m = n[k] + 1 /\ n[k] \in Nat /\ n \in [Lists -> Nat] /\ l \in [Lists -> [Nat -> Block \cup {Nil}]]
  BY <1>1, <1>2, <1>3 DEF ListsInv
<1>9. k = "cleanups" => t = Opener
  BY <1>1, <1>4 DEF QuietInv, CallsInv, Tasks
<1>10. /\ n2 \in [Lists -> Nat] /\ n2[k] = m /\ \A list \in Lists : list # k => n2[list] = n[list]
  BY <1>3, <1>8
<1>11. /\ l2 \in [Lists -> [Nat -> Block \cup {Nil}]] /\ l2[k][m] = b
       /\ \A list \in Lists : \A i \in Nat : list # k \/ i # m => l2[list][i] = l[list][i]
  BY <1>3, <1>8
<1>12. /\ p \in Owners /\ own[p] = {a, b} /\ Partition(own, blocks)
  <2>1. TaskBlocks(t) = {a, b}
    BY <1>1, <1>4 DEF TaskBlocks, HasNode
  <2> QED
    BY <1>2, <2>1, OwnerOfTask
<1>13. /\ OwnerOf(k, m) \in Owners /\ OwnerOf(k, m) # p /\ own[OwnerOf(k, m)] = {}
  <2>1. OwnerOf(k, m) \in Owners /\ OwnerOf(k, m) # p
    BY <1>3, <1>8, OwnersKnown, OwnersDiffer
  <2>2. m \notin 1 .. n[k]
    BY <1>8
  <2> QED
    BY <1>2, <1>3, <1>8, <2>1, <2>2 DEF OwnersInv
<1>14. Partition(o, blocks)
  BY <1>12, <1>13, OwnerChanges
<1>15. /\ o[OwnerOf(k, m)] = {a, b} /\ o[p] = {}
       /\ \A q \in Owners : q # OwnerOf(k, m) /\ q # p => o[q] = own[q]
  BY <1>12, <1>13 DEF Partition
<1> HIDE DEF p, o, n2, l2, file2, e
<1>16. OwnersInv(o, n2, l2)'
  <2>1. Partition(o, blocks)'
    BY <1>4, <1>14
  <2>2. o[OwnerOf("owner", 0)] = {owner'} \ {Nil} /\ o[OwnerOf("arena", 0)] = {arena'} \ {Nil}
    BY <1>2, <1>3, <1>4, <1>8, <1>15, OwnersKnown, OwnersDiffer DEF OwnersInv, p
  <2>3. ASSUME NEW u \in Tasks PROVE o[OwnerOf("task", u)] = TaskBlocks(u)'
    <3>1. CASE u = t
      BY <1>5, <1>15, <3>1 DEF TaskBlocks, HasNode, e, p
    <3>2. CASE u # t
      <4>1. TaskBlocks(u)' = TaskBlocks(u)
        BY <1>5, <3>2 DEF TaskBlocks
      <4>2. o[OwnerOf("task", u)] = own[OwnerOf("task", u)]
        BY <1>3, <1>8, <1>15, <3>2, OwnersKnown, OwnersDiffer DEF p
      <4> QED
        BY <1>2, <4>1, <4>2 DEF OwnersInv
    <3> QED
      BY <3>1, <3>2
  <2>4. ASSUME NEW list \in Lists, NEW i \in Nat
        PROVE  o[OwnerOf(list, i)] = IF i \in 1 .. n2[list]
                                     THEN {l2[list][i], cell'[l2[list][i]].of} ELSE {}
    <3>1. CASE list = k /\ i = m
      <4>1. i \in 1 .. n2[list] /\ l2[list][i] = b
        BY <1>8, <1>10, <1>11, <3>1
      <4>2. o[OwnerOf(list, i)] = {b, a} /\ cell'[b].of = a
        BY <1>4, <1>6, <1>15, <3>1
      <4> QED
        BY <4>1, <4>2
    <3>2. CASE list # k \/ i # m
      <4>1. o[OwnerOf(list, i)] = own[OwnerOf(list, i)]
        BY <1>3, <1>8, <1>15, <3>2, OwnersKnown, OwnersDiffer DEF p
      <4>2. i \in 1 .. n2[list] <=> i \in 1 .. n[list]
        BY <1>8, <1>10, <3>2
      <4>3. l2[list][i] = l[list][i]
        BY <1>11, <3>2
      <4> QED
        BY <1>2, <1>4, <4>1, <4>2, <4>3 DEF OwnersInv
    <3> QED
      BY <3>1, <3>2
  <2> QED
    BY <2>1, <2>2, <2>3, <2>4 DEF OwnersInv
<1>17. \A list \in Lists : \A i \in 1 .. n2[list] :
         (list = k /\ i = m) \/ (i \in 1 .. n[list] /\ i # m /\ l2[list][i] = l[list][i])
             \/ (list # k /\ i \in 1 .. n[list] /\ l2[list][i] = l[list][i])
  BY <1>8, <1>10, <1>11
<1>18. ListsInv(n2, l2)'
  <2>1. ASSUME NEW list \in Lists
        PROVE  /\ l2[list][0] = Nil /\ HeadOf(list)' = l2[list][n2[list]]
    <3>1. l2[list][0] = Nil
      BY <1>2, <1>8, <1>11 DEF ListsInv
    <3>2. HeadOf(list)' = head'[list] /\ HeadOf(list) = head[list]
      BY <1>7 DEF HeadOf
    <3>3. head'[list] = IF list = k THEN b ELSE head[list]
      BY <1>3, <1>4 DEF QuietInv, ArenaTypeInv
    <3>4. list # k => l2[list][n2[list]] = l[list][n[list]]
      BY <1>8, <1>10, <1>11
    <3> QED
      BY <1>2, <1>10, <1>11, <3>1, <3>2, <3>3, <3>4 DEF ListsInv
  <2>2. ASSUME NEW list \in Lists, NEW i \in 1 .. n2[list]
        PROVE  /\ l2[list][i] \in Block /\ cell'[l2[list][i]].of \in Block
               /\ cell'[l2[list][i]].next = l2[list][i - 1]
    <3>1. CASE list = k /\ i = m
      <4>1. l2[k][m - 1] = l[k][n[k]] /\ head[k] = l[k][n[k]]
        BY <1>2, <1>3, <1>7, <1>8, <1>11 DEF ListsInv, HeadOf
      <4> QED
        BY <1>3, <1>4, <1>6, <1>11, <3>1, <4>1
    <3>2. CASE ~(list = k /\ i = m)
      <4>1. i \in 1 .. n[list] /\ l2[list][i] = l[list][i]
        BY <1>17, <3>2
      <4>2. l2[list][i - 1] = l[list][i - 1]
        BY <1>8, <1>11, <3>2, <4>1
      <4> QED
        BY <1>2, <1>4, <4>1, <4>2 DEF ListsInv
    <3> QED
      BY <3>1, <3>2
  <2> QED
    BY <1>10, <1>11, <2>1, <2>2 DEF ListsInv
<1>19. NodesInv'
  <2>1. task'[t].step \notin HasBlock /\ task'[t].step \notin HasNode /\ task'[t].step # "publish"
    BY <1>5 DEF e, HasBlock, HasNode
  <2>2. \A u \in Tasks : u # t => task[u].step # "publish"
    BY <1>4 DEF QuietInv, CallsInv, Locking
  <2> QED
    BY <1>2, <1>4, <1>5, <2>1, <2>2, OpenerIsTask DEF NodesInv, At
<1>20. /\ f \in 1 .. Files + 1 /\ file \in [Nat -> 1 .. Files + 1]
       /\ file2 \in [Nat -> 1 .. Files + 1]
       /\ k = "cleanups" => file2[m] = f
       /\ \A i \in Nat : k # "cleanups" \/ i # m => file2[i] = file[i]
  <2>1. f \in 1 .. Files + 1 /\ file \in [Nat -> 1 .. Files + 1]
    BY <1>1, <1>2 DEF QuietInv, ArenaTypeInv, FilesInv
  <2> QED
    BY <1>8, <2>1 DEF file2
<1>21. \A i \in 1 .. n2["cleanups"] :
         \/ k = "cleanups" /\ i = m
         \/ i \in 1 .. n["cleanups"] /\ l2["cleanups"][i] = l["cleanups"][i] /\ file2[i] = file[i]
  BY <1>8, <1>17, <1>20 DEF Lists
<1>22. \A i \in 1 .. n["cleanups"] :
         /\ i \in 1 .. n2["cleanups"] /\ l2["cleanups"][i] = l["cleanups"][i]
         /\ file2[i] = file[i] /\ (k = "cleanups" => i # m)
  BY <1>8, <1>10, <1>11, <1>20 DEF Lists
<1>23. k = "cleanups" => m \in 1 .. n2["cleanups"] /\ Underway = {f} /\ Underway' = {}
  <2>1. k = "cleanups" => m \in 1 .. n2["cleanups"]
    BY <1>8, <1>10
  <2>2. k = "cleanups" => Underway = {f} /\ Underway' = {}
    BY <1>1, <1>4, <1>5, <1>9, OpenerIsTask DEF Underway, Calling, HasBlock, HasNode, e
  <2> QED
    BY <2>1, <2>2
<1>24. k # "cleanups" => Underway' = Underway
  <2>1. CASE t = Opener
    BY <1>1, <1>5, <2>1 DEF Underway, e
  <2>2. CASE t # Opener
    BY <1>4, <1>5, <2>2, OpenerIsTask DEF Underway
  <2> QED
    BY <2>1, <2>2
<1>25. FilesInv(n2, l2, file2)'
  <2>1. \A i \in 1 .. n["cleanups"] : file[i] \notin Underway
    BY <1>2, LoadedNotUnderway
  <2>2. mapped' = {file2[i] : i \in 1 .. n2["cleanups"]} \cup Underway'
    <3>1. mapped = {file[i] : i \in 1 .. n["cleanups"]} \cup Underway /\ mapped' = mapped
      BY <1>2, <1>4 DEF FilesInv
    <3>2. ASSUME NEW x \in mapped PROVE x \in {file2[i] : i \in 1 .. n2["cleanups"]} \cup Underway'
      BY <1>20, <1>22, <1>23, <1>24, <3>1
    <3>3. ASSUME NEW x \in {file2[i] : i \in 1 .. n2["cleanups"]} \cup Underway' PROVE x \in mapped
      BY <1>20, <1>21, <1>23, <1>24, <3>1
    <3> QED
      BY <3>1, <3>2, <3>3
  <2>3. \A i, j \in 1 .. n2["cleanups"] : i # j => file2[i] # file2[j]
    <3>1. \A i \in 1 .. n["cleanups"] : k = "cleanups" => file[i] # f
      BY <1>23, <2>1
    <3> QED
      BY <1>2, <1>20, <1>21, <3>1 DEF FilesInv
  <2>4. \A i \in 1 .. n2["cleanups"] : cell'[cell'[l2["cleanups"][i]].of].of = file2[i]
    BY <1>2, <1>4, <1>6, <1>9, <1>11, <1>20, <1>21 DEF FilesInv
  <2>5. life' = "load" => \A i \in 1 .. n2["cleanups"] :
                            file2[i] < loading' \/ (file2[i] = loading' /\ At(Opener, "ok")')
    <3>1. k = "cleanups" => At(Opener, "ok")'
      BY <1>5, <1>9 DEF At, e
    <3>2. At(Opener, "ok") => At(Opener, "ok")'
      BY <1>4, <1>5, OpenerIsTask DEF At
    <3> QED
      BY <1>1, <1>2, <1>4, <1>20, <1>21, <3>1, <3>2 DEF FilesInv
  <2> QED
    BY <1>20, <2>2, <2>3, <2>4, <2>5 DEF FilesInv
<1>26. HandedInv(n2, l2, file2)'
  <2>1. Result(t) = IF k = "cleanups" THEN -f ELSE a
    BY <1>1 DEF Result
  <2>2. \A i \in 1 .. n["ptrs"] : i \in 1 .. n2["ptrs"] /\ l2["ptrs"][i] = l["ptrs"][i]
    BY <1>8, <1>10, <1>11 DEF Lists
  <2>3. ASSUME NEW x \in handed
        PROVE  \/ \E i \in 1 .. n2["ptrs"] : x = cell'[l2["ptrs"][i]].of
               \/ \E i \in 1 .. n2["cleanups"] : -x = file2[i]
    BY <1>2, <1>4, <1>22, <2>2 DEF HandedInv
  <2>4. k = "ptrs" => m \in 1 .. n2["ptrs"] /\ a = cell'[l2["ptrs"][m]].of
    BY <1>4, <1>6, <1>8, <1>10, <1>11
  <2>5. k = "cleanups" => -(-f) = file2[m]
    BY <1>20, ArenaConstants
  <2>6. k = "ptrs" \/ k = "cleanups"
    BY <1>3 DEF Lists
  <2> QED
    BY <1>4, <1>23, <2>1, <2>3, <2>4, <2>5, <2>6 DEF HandedInv
<1> QED
  BY <1>16, <1>18, <1>19, <1>25, <1>26 DEF Followed, NextFollowed

\* Outside of calls, the reader or its arena is allocated or freed.
Uncalled(u) == task[u].step \in NoBlockStep

LEMMA KeeperFollowed ==
  ASSUME QuietInv, NEW own, NEW n, NEW l, NEW file, Followed(own, n, l, file),
         \A u \in Tasks : Uncalled(u) /\ Uncalled(u)', Underway = {}, Underway' = {},
         life' # "load", mapped' = mapped, handed' = handed,
         \A list \in Lists : HeadOf(list)' = HeadOf(list),
         NEW k \in {"owner", "arena"}, NEW S, NEW o, o = [own EXCEPT ![OwnerOf(k, 0)] = S],
         Partition(o, blocks'),
         {owner'} \ {Nil} = IF k = "owner" THEN S ELSE {owner} \ {Nil},
         {arena'} \ {Nil} = IF k = "arena" THEN S ELSE {arena} \ {Nil},
         \A b \in blocks : b \notin own[OwnerOf(k, 0)] => cell'[b] = cell[b]
  PROVE  Followed(o, n, l, file)'
<1> DEFINE p == OwnerOf(k, 0)
<1>1. OwnersInv(own, n, l) /\ ListsInv(n, l) /\ FilesInv(n, l, file) /\ HandedInv(n, l, file)
  BY DEF Followed
<1>2. p \in Owners /\ own \in [Owners -> SUBSET Block] /\ Partition(own, blocks)
  BY <1>1, OwnersKnown DEF OwnersInv, Partition
<1>3. o[p] = S /\ \A q \in Owners : q # p => o[q] = own[q]
  BY <1>2
<1>4. /\ \A t \in Tasks : OwnerOf("task", t) # p
      /\ \A list \in Lists, i \in Nat : OwnerOf(list, i) # p
  BY OwnersDiffer
<1>5. \A q \in {"owner", "arena"} : q # k => OwnerOf(q, 0) # p
  BY OwnersDiffer
<1> HIDE DEF p
<1>6. \A list \in Lists : \A i \in 1 .. n[list] :
        /\ cell'[l[list][i]] = cell[l[list][i]]
        /\ cell'[cell[l[list][i]].of] = cell[cell[l[list][i]].of]
  <2> SUFFICES ASSUME NEW list \in Lists, NEW i \in 1 .. n[list]
               PROVE  /\ cell'[l[list][i]] = cell[l[list][i]]
                      /\ cell'[cell[l[list][i]].of] = cell[cell[l[list][i]].of]
    OBVIOUS
  <2>1. i \in Nat
    BY <1>1 DEF ListsInv
  <2>2. OwnerOf(list, i) \in Owners /\ OwnerOf(list, i) # p
    BY <1>4, <2>1, OwnersKnown
  <2>3. own[OwnerOf(list, i)] \cap own[p] = {}
    BY <1>2, <2>2 DEF Partition
  <2>4. {l[list][i], cell[l[list][i]].of} = own[OwnerOf(list, i)] /\ l[list][i] \in blocks
          /\ cell[l[list][i]].of \in blocks
    BY <1>1, ListedOwned
  <2> QED
    BY <2>3, <2>4 DEF p
<1>7. OwnersInv(o, n, l)'
  <2>1. o[OwnerOf("owner", 0)] = {owner'} \ {Nil}
    BY <1>1, <1>3, <1>5, OwnersKnown DEF OwnersInv, p
  <2>2. o[OwnerOf("arena", 0)] = {arena'} \ {Nil}
    BY <1>1, <1>3, <1>5, OwnersKnown DEF OwnersInv, p
  <2>3. \A u \in Tasks : o[OwnerOf("task", u)] = TaskBlocks(u)'
    <3>1. \A u \in Tasks : TaskBlocks(u) = {} /\ TaskBlocks(u)' = {}
      BY DEF Uncalled, NoBlockStep, TaskBlocks, HasNode
    <3> QED
      BY <1>1, <1>3, <1>4, <3>1, OwnersKnown DEF OwnersInv
  <2>4. \A list \in Lists : \A i \in Nat :
          o[OwnerOf(list, i)] = IF i \in 1 .. n[list]
                                THEN {l[list][i], cell'[l[list][i]].of} ELSE {}
    <3> SUFFICES ASSUME NEW list \in Lists, NEW i \in Nat
                 PROVE  o[OwnerOf(list, i)] = IF i \in 1 .. n[list]
                                              THEN {l[list][i], cell'[l[list][i]].of} ELSE {}
      OBVIOUS
    <3>1. o[OwnerOf(list, i)] = own[OwnerOf(list, i)]
      BY <1>3, <1>4, OwnersKnown
    <3>2. i \in 1 .. n[list] => cell'[l[list][i]] = cell[l[list][i]]
      BY <1>6
    <3>3. own[OwnerOf(list, i)] = IF i \in 1 .. n[list]
                                  THEN {l[list][i], cell[l[list][i]].of} ELSE {}
      BY <1>1 DEF OwnersInv
    <3> QED
      BY <3>1, <3>2, <3>3
  <2>5. Partition(o, blocks)'
    OBVIOUS
  <2> QED
    BY <2>1, <2>2, <2>3, <2>4, <2>5 DEF OwnersInv
<1>8. ListsInv(n, l)'
  BY <1>1, <1>6 DEF ListsInv
<1>9. NodesInv'
  BY OpenerIsTask DEF NodesInv, Uncalled, NoBlockStep, HasBlock, HasNode, At
<1>10. FilesInv(n, l, file)' /\ HandedInv(n, l, file)'
  BY <1>1, <1>6, FilesStay
<1> QED
  BY <1>7, <1>8, <1>9, <1>10 DEF Followed

LEMMA EveryoneIdle ==
  ASSUME QuietInv, life \in {"closed", "arena", "close", "destroy", "unlock"}
  PROVE  \A u \in Tasks : task[u].step = "idle"
BY DEF QuietInv, CallsInv, Tasks

LEMMA OpenCalledFollowed ==
  ASSUME QuietInv, NEW own, NEW n, NEW l, NEW file, Followed(own, n, l, file), OpenCalled
  PROVE  NextFollowed
<1>1. PICK o, S : o = [own EXCEPT ![OwnerOf("owner", 0)] = @ \cup {Fresh}] /\ S = {Fresh}
  OBVIOUS
<1>2. /\ life = "closed" /\ Fresh \in Block \ blocks /\ owner' = Fresh
      /\ blocks' = blocks \cup {Fresh} /\ life' = "arena" /\ owner = Nil
      /\ UNCHANGED <<cell, head, arena, mapped, task, handed>>
  BY QuietOpenCalled DEF OpenCalled, listsKept, Enters, QuietInv, LifeInv
<1>3. own[OwnerOf("owner", 0)] = {} /\ Partition(own, blocks) /\ OwnerOf("owner", 0) \in Owners
  BY <1>2, OwnersKnown DEF Followed, OwnersInv
<1>4. Partition(o, blocks') /\ o = [own EXCEPT ![OwnerOf("owner", 0)] = S]
  BY <1>1, <1>2, <1>3, OwnerGets
<1>5. \A u \in Tasks : Uncalled(u) /\ Uncalled(u)'
  BY <1>2, EveryoneIdle DEF Uncalled, NoBlockStep
<1>6. Underway = {} /\ Underway' = {}
  BY <1>2, EveryoneIdle, OpenerIsTask DEF Underway, Calling, HasBlock, HasNode
<1>7. \A list \in Lists : HeadOf(list)' = HeadOf(list)
  BY <1>2 DEF HeadOf
<1>8. {owner'} \ {Nil} = S
  <2>1. Fresh # Nil
    BY <1>2, ArenaConstants
  <2> QED
    BY <1>1, <1>2, <2>1
<1>9. Followed(o, n, l, file)'
  BY <1>2, <1>4, <1>5, <1>6, <1>7, <1>8, KeeperFollowed
<1> QED
  BY <1>9 DEF NextFollowed

LEMMA MakeArenaFollowed ==
  ASSUME QuietInv, NEW own, NEW n, NEW l, NEW file, Followed(own, n, l, file), MakeArena
  PROVE  NextFollowed
<1>1. PICK o, S : o = [own EXCEPT ![OwnerOf("arena", 0)] = @ \cup {Fresh}] /\ S = {Fresh}
  OBVIOUS
<1>2. /\ life = "arena" /\ Fresh \in Block \ blocks /\ arena' = Fresh
      /\ blocks' = blocks \cup {Fresh} /\ life' = "cache_dir" /\ arena = Nil
      /\ UNCHANGED <<cell, head, owner, mapped, handed>>
      /\ FrameIs(Opener, "block", "ptrs", Nil, Nil)
  BY QuietMakeArena DEF MakeArena, listsKept, Enters, QuietInv, LifeInv
<1>3. own[OwnerOf("arena", 0)] = {} /\ Partition(own, blocks) /\ OwnerOf("arena", 0) \in Owners
  BY <1>2, OwnersKnown DEF Followed, OwnersInv
<1>4. Partition(o, blocks') /\ o = [own EXCEPT ![OwnerOf("arena", 0)] = S]
  BY <1>1, <1>2, <1>3, OwnerGets
<1>5. \A u \in Tasks : Uncalled(u) /\ Uncalled(u)'
  BY <1>2, EveryoneIdle DEF Uncalled, NoBlockStep, FrameIs
<1>6. Underway = {} /\ Underway' = {}
  BY <1>2, EveryoneIdle, OpenerIsTask DEF Underway, Calling, HasBlock, HasNode, FrameIs
<1>7. \A list \in Lists : HeadOf(list)' = HeadOf(list)
  BY <1>2 DEF HeadOf
<1>8. {arena'} \ {Nil} = S
  <2>1. Fresh # Nil
    BY <1>2, ArenaConstants
  <2> QED
    BY <1>1, <1>2, <2>1
<1>9. Followed(o, n, l, file)'
  BY <1>2, <1>4, <1>5, <1>6, <1>7, <1>8, KeeperFollowed
<1> QED
  BY <1>9 DEF NextFollowed

\* The reader goes: its opening fails without an arena, or it is closed.
LEMMA ReaderGoesFollowed ==
  ASSUME QuietInv, NEW own, NEW n, NEW l, NEW file, Followed(own, n, l, file),
         MakeArenaFails \/ FreeReader
  PROVE  NextFollowed
<1>1. PICK o : o = [own EXCEPT ![OwnerOf("owner", 0)] = {}]
  OBVIOUS
<1>2. /\ life \in {"arena", "unlock"} /\ life' = "closed" /\ owner' = Nil
      /\ FreeBlocks({owner}) /\ UNCHANGED <<head, arena, mapped, task, handed>>
  BY DEF MakeArenaFails, FreeReader, listsKept, Enters
<1>3. /\ own[OwnerOf("owner", 0)] = {owner} \ {Nil} /\ Partition(own, blocks)
      /\ OwnerOf("owner", 0) \in Owners
  BY OwnersKnown DEF Followed, OwnersInv
<1>4. blocks' = blocks \ own[OwnerOf("owner", 0)]
  <2>1. Nil \notin blocks
    BY ArenaConstants DEF QuietInv, ArenaTypeInv
  <2> QED
    BY <1>2, <1>3, <2>1 DEF FreeBlocks
<1>5. Partition(o, blocks')
  BY <1>1, <1>3, <1>4, OwnerFrees
<1>6. \A b \in blocks : b \notin own[OwnerOf("owner", 0)] => cell'[b] = cell[b]
  <2>1. blocks \subseteq Block /\ Nil \notin Block
    BY ArenaConstants DEF QuietInv, ArenaTypeInv
  <2>2. \A b \in Block : b \notin {owner} => cell'[b] = cell[b]
    BY <1>2, CellsFreed DEF QuietInv
  <2> QED
    BY <1>3, <2>1, <2>2
<1>7. \A u \in Tasks : Uncalled(u) /\ Uncalled(u)'
  BY <1>2, EveryoneIdle DEF Uncalled, NoBlockStep
<1>8. Underway = {} /\ Underway' = {}
  BY <1>2, EveryoneIdle, OpenerIsTask DEF Underway, Calling, HasBlock, HasNode
<1>9. \A list \in Lists : HeadOf(list)' = HeadOf(list)
  BY <1>2 DEF HeadOf
<1>10. Followed(o, n, l, file)'
  BY <1>1, <1>2, <1>5, <1>6, <1>7, <1>8, <1>9, KeeperFollowed
<1> QED
  BY <1>10 DEF NextFollowed

LEMMA FreeArenaFollowed ==
  ASSUME QuietInv, NEW own, NEW n, NEW l, NEW file, Followed(own, n, l, file), FreeArena
  PROVE  NextFollowed
<1>1. PICK o : o = [own EXCEPT ![OwnerOf("arena", 0)] = {}]
  OBVIOUS
<1>2. /\ life = "destroy" /\ life' = "unlock" /\ arena' = Nil
      /\ task[Opener].of = Nil /\ task[Opener].node = Nil
      /\ FreeBlocks({arena}) /\ UNCHANGED <<head, owner, mapped, task, handed>>
  BY DEF FreeArena, listsKept, Enters
<1>3. /\ own[OwnerOf("arena", 0)] = {arena} \ {Nil} /\ Partition(own, blocks)
      /\ OwnerOf("arena", 0) \in Owners
  BY OwnersKnown DEF Followed, OwnersInv
<1>4. blocks' = blocks \ own[OwnerOf("arena", 0)]
  <2>1. Nil \notin blocks
    BY ArenaConstants DEF QuietInv, ArenaTypeInv
  <2> QED
    BY <1>2, <1>3, <2>1 DEF FreeBlocks
<1>5. Partition(o, blocks')
  BY <1>1, <1>3, <1>4, OwnerFrees
<1>6. \A b \in blocks : b \notin own[OwnerOf("arena", 0)] => cell'[b] = cell[b]
  <2>1. blocks \subseteq Block /\ Nil \notin Block
    BY ArenaConstants DEF QuietInv, ArenaTypeInv
  <2>2. \A b \in Block : b \notin {arena} => cell'[b] = cell[b]
    BY <1>2, CellsFreed DEF QuietInv
  <2> QED
    BY <1>3, <2>1, <2>2
<1>7. \A u \in Tasks : Uncalled(u) /\ Uncalled(u)'
  BY <1>2, EveryoneIdle DEF Uncalled, NoBlockStep
<1>8. Underway = {} /\ Underway' = {}
  BY <1>2, EveryoneIdle, OpenerIsTask DEF Underway, Calling, HasBlock, HasNode
<1>9. \A list \in Lists : HeadOf(list)' = HeadOf(list)
  BY <1>2 DEF HeadOf, Lists, QuietInv, LifeInv
<1>10. Followed(o, n, l, file)'
  BY <1>1, <1>2, <1>5, <1>6, <1>7, <1>8, <1>9, KeeperFollowed
<1> QED
  BY <1>10 DEF NextFollowed

\* The opener takes the lists out of the arena.
LEMMA DetachFollowed ==
  ASSUME QuietInv, NEW own, NEW n, NEW l, NEW file, Followed(own, n, l, file), Detach
  PROVE  NextFollowed
<1>1. /\ FrameIs(Opener, "idle", task[Opener].list, head.cleanups, head.ptrs)
      /\ task[Opener].step = "idle"
  BY QuietDetach
<1>2. /\ life = "close" /\ life' = "destroy" /\ handed' = {}
      /\ UNCHANGED <<blocks, cell, owner, arena, mapped>>
  BY DEF Detach, ownerKept, Enters
<1>3. OwnersInv(own, n, l) /\ ListsInv(n, l) /\ FilesInv(n, l, file) /\ HandedInv(n, l, file)
  BY DEF Followed
<1>4. \A u \in Tasks : task[u].step = "idle" /\ task'[u].step = "idle"
  BY <1>1, <1>2, EveryoneIdle DEF FrameIs
<1>5. \A u \in Tasks : TaskBlocks(u)' = TaskBlocks(u)
  BY <1>4 DEF TaskBlocks, HasNode
<1>6. OwnersInv(own, n, l)'
  BY <1>2, <1>3, <1>5, OwnersSame
<1>7. \A list \in Lists : HeadOf(list)' = HeadOf(list)
  BY <1>1, <1>2 DEF HeadOf, FrameIs, Lists
<1>8. ListsInv(n, l)'
  BY <1>2, <1>3, <1>7 DEF ListsInv
<1>9. NodesInv'
  BY <1>4, OpenerIsTask DEF NodesInv, HasBlock, HasNode, At
<1>10. Underway = {} /\ Underway' = {}
  BY <1>4, OpenerIsTask DEF Underway, Calling, HasBlock, HasNode
<1>11. FilesInv(n, l, file)' /\ HandedInv(n, l, file)'
  BY <1>2, <1>3, <1>10, FilesStay
<1>12. Followed(own, n, l, file)'
  BY <1>6, <1>8, <1>9, <1>11 DEF Followed
<1> QED
  BY <1>12 DEF NextFollowed

\* The opener frees the first node of a list it has taken, and what it is about.
LEMMA PopFollowed ==
  ASSUME QuietInv, NEW own, NEW n, NEW l, NEW file, Followed(own, n, l, file),
         life = "destroy", life' = "destroy", NEW k \in Lists, NEW c \in Block,
         c = HeadOf(k), FreeBlocks({c, cell[c].of}), HeadOf(k)' = cell[c].next,
         \A list \in Lists : list # k => HeadOf(list)' = HeadOf(list),
         \A u \in Tasks : task[u].step = "idle" /\ task'[u].step = "idle",
         owner' = owner, arena' = arena, handed' = handed,
         mapped' = IF k = "cleanups" THEN mapped \ {cell[cell[c].of].of} ELSE mapped
  PROVE  NextFollowed
<1>1. PICK m, o, n2 : m = n[k] /\ o = [own EXCEPT ![OwnerOf(k, m)] = {}]
                      /\ n2 = [n EXCEPT ![k] = m - 1]
  OBVIOUS
<1>2. OwnersInv(own, n, l) /\ ListsInv(n, l) /\ FilesInv(n, l, file) /\ HandedInv(n, l, file)
  BY DEF Followed
<1>3. m \in Nat /\ m # 0 /\ l[k][m] = c
  <2>1. m \in Nat /\ l[k][m] = c /\ l[k][0] = Nil
    BY <1>1, <1>2 DEF ListsInv
  <2>2. c # Nil
    BY ArenaConstants
  <2> QED
    BY <2>1, <2>2
<1>4. m \in 1 .. n[k]
  BY <1>1, <1>3
<1>5. OwnerOf(k, m) \in Owners /\ own[OwnerOf(k, m)] = {c, cell[c].of}
        /\ Partition(own, blocks) /\ own \in [Owners -> SUBSET Block]
  BY <1>2, <1>3, <1>4, OwnersKnown DEF OwnersInv, Partition
<1>6. /\ blocks' = blocks \ own[OwnerOf(k, m)]
      /\ \A b \in blocks : b \notin own[OwnerOf(k, m)] => cell'[b] = cell[b]
  <2>1. blocks \subseteq Block /\ ArenaTypeInv
    BY DEF QuietInv, ArenaTypeInv
  <2>2. /\ blocks' = blocks \ {c, cell[c].of}
        /\ \A b \in Block : b \notin {c, cell[c].of} => cell'[b] = cell[b]
    BY <2>1, CellsFreed
  <2> QED
    BY <1>5, <2>1, <2>2
<1>7. Partition(o, blocks')
  BY <1>1, <1>5, <1>6, OwnerFrees
<1>8. o[OwnerOf(k, m)] = {} /\ \A q \in Owners : q # OwnerOf(k, m) => o[q] = own[q]
  BY <1>1, <1>5
<1>9. n2 \in [Lists -> Nat] /\ n2[k] = m - 1 /\ \A list \in Lists : list # k => n2[list] = n[list]
  <2>1. n \in [Lists -> Nat] /\ m - 1 \in Nat
    BY <1>2, <1>3 DEF ListsInv
  <2> QED
    BY <1>1, <2>1
<1>10. \A list \in Lists : \A i \in Nat :
         i \in 1 .. n2[list] <=> i \in 1 .. n[list] /\ ~(list = k /\ i = m)
  BY <1>1, <1>3, <1>9
<1>11. \A list \in Lists : \A i \in 1 .. n2[list] :
         /\ i \in Nat /\ i \in 1 .. n[list]
         /\ cell'[l[list][i]] = cell[l[list][i]]
         /\ cell'[cell[l[list][i]].of] = cell[cell[l[list][i]].of]
  <2> SUFFICES ASSUME NEW list \in Lists, NEW i \in 1 .. n2[list]
               PROVE  /\ i \in Nat /\ i \in 1 .. n[list]
                      /\ cell'[l[list][i]] = cell[l[list][i]]
                      /\ cell'[cell[l[list][i]].of] = cell[cell[l[list][i]].of]
    OBVIOUS
  <2>1. i \in Nat /\ i \in 1 .. n[list] /\ ~(list = k /\ i = m)
    BY <1>9, <1>10
  <2>2. OwnerOf(list, i) \in Owners /\ OwnerOf(list, i) # OwnerOf(k, m)
    BY <1>3, <2>1, OwnersKnown, OwnersDiffer
  <2>3. own[OwnerOf(list, i)] \cap own[OwnerOf(k, m)] = {}
    BY <1>5, <2>2 DEF Partition
  <2>4. {l[list][i], cell[l[list][i]].of} = own[OwnerOf(list, i)] /\ l[list][i] \in blocks
          /\ cell[l[list][i]].of \in blocks
    BY <1>2, <2>1, ListedOwned
  <2> QED
    BY <1>6, <2>1, <2>3, <2>4
<1>12. OwnersInv(o, n2, l)'
  <2>1. o[OwnerOf("owner", 0)] = {owner'} \ {Nil} /\ o[OwnerOf("arena", 0)] = {arena'} \ {Nil}
    BY <1>2, <1>3, <1>8, OwnersKnown, OwnersDiffer DEF OwnersInv
  <2>2. ASSUME NEW u \in Tasks PROVE o[OwnerOf("task", u)] = TaskBlocks(u)'
    <3>1. TaskBlocks(u) = {} /\ TaskBlocks(u)' = {}
      BY DEF TaskBlocks, HasNode
    <3> QED
      BY <1>2, <1>3, <1>8, <3>1, OwnersKnown, OwnersDiffer DEF OwnersInv
  <2>3. ASSUME NEW list \in Lists, NEW i \in Nat
        PROVE  o[OwnerOf(list, i)] = IF i \in 1 .. n2[list]
                                     THEN {l[list][i], cell'[l[list][i]].of} ELSE {}
    <3>1. CASE list = k /\ i = m
      BY <1>8, <1>10, <3>1
    <3>2. CASE ~(list = k /\ i = m)
      <4>1. o[OwnerOf(list, i)] = own[OwnerOf(list, i)]
        BY <1>3, <1>8, <3>2, OwnersKnown, OwnersDiffer
      <4>2. i \in 1 .. n2[list] <=> i \in 1 .. n[list]
        BY <1>10, <3>2
      <4>3. i \in 1 .. n2[list] => cell'[l[list][i]] = cell[l[list][i]]
        BY <1>11
      <4> QED
        BY <1>2, <4>1, <4>2, <4>3 DEF OwnersInv
    <3> QED
      BY <3>1, <3>2
  <2>4. Partition(o, blocks)'
    BY <1>7
  <2> QED
    BY <2>1, <2>2, <2>3, <2>4 DEF OwnersInv
<1>13. ListsInv(n2, l)'
  <2>1. HeadOf(k)' = l[k][m - 1]
    BY <1>2, <1>3, <1>4 DEF ListsInv
  <2>2. \A list \in Lists : l[list][0] = Nil /\ HeadOf(list)' = l[list][n2[list]]
    BY <1>2, <1>9, <2>1 DEF ListsInv
  <2>3. ASSUME NEW list \in Lists, NEW i \in 1 .. n2[list]
        PROVE  /\ l[list][i] \in Block /\ cell'[l[list][i]].of \in Block
               /\ cell'[l[list][i]].next = l[list][i - 1]
    BY <1>2, <1>11 DEF ListsInv
  <2>4. l \in [Lists -> [Nat -> Block \cup {Nil}]]
    BY <1>2 DEF ListsInv
  <2> QED
    BY <1>9, <2>2, <2>3, <2>4 DEF ListsInv
<1>14. NodesInv'
  BY OpenerIsTask DEF NodesInv, HasBlock, HasNode, At
<1>15. Underway = {} /\ Underway' = {}
  BY OpenerIsTask DEF Underway, Calling, HasBlock, HasNode
<1>16. \A i \in 1 .. n2["cleanups"] : i \in 1 .. n["cleanups"] /\ (k = "cleanups" => i # m)
  BY <1>10, <1>11 DEF Lists
<1>17. \A i \in 1 .. n["cleanups"] : ~(k = "cleanups" /\ i = m) => i \in 1 .. n2["cleanups"]
  BY <1>10 DEF Lists
<1>18. FilesInv(n2, l, file)'
  <2>1. mapped = {file[i] : i \in 1 .. n["cleanups"]}
    BY <1>2, <1>15 DEF FilesInv
  <2>2. k = "cleanups" => mapped' = mapped \ {file[m]} /\ m \in 1 .. n["cleanups"]
    BY <1>2, <1>3, <1>4 DEF FilesInv
  <2>3. mapped' = {file[i] : i \in 1 .. n2["cleanups"]}
    <3>1. CASE k = "cleanups"
      <4>1. \A i \in 1 .. n["cleanups"] : i # m => file[i] # file[m]
        BY <1>2, <2>2, <3>1 DEF FilesInv
      <4>2. ASSUME NEW i \in 1 .. n2["cleanups"] PROVE file[i] \in mapped'
        BY <1>16, <2>1, <2>2, <3>1, <4>1
      <4>3. ASSUME NEW x \in mapped' PROVE x \in {file[i] : i \in 1 .. n2["cleanups"]}
        BY <1>17, <2>1, <2>2, <3>1
      <4> QED
        BY <4>2, <4>3
    <3>2. CASE k # "cleanups"
      BY <1>16, <1>17, <2>1, <3>2
    <3> QED
      BY <3>1, <3>2
  <2>4. \A i \in 1 .. n2["cleanups"] : cell'[cell'[l["cleanups"][i]].of].of = file[i]
    BY <1>2, <1>11, <1>16 DEF FilesInv, Lists
  <2> QED
    BY <1>2, <1>15, <1>16, <2>3, <2>4 DEF FilesInv
<1>19. HandedInv(n2, l, file)'
  BY DEF HandedInv, QuietInv, LifeInv
<1>20. Followed(o, n2, l, file)'
  BY <1>12, <1>13, <1>14, <1>18, <1>19 DEF Followed
<1> QED
  BY <1>20 DEF NextFollowed

LEMMA TakenFollowed ==
  ASSUME QuietInv, NEW own, NEW n, NEW l, NEW file, Followed(own, n, l, file),
         RunCleanup \/ FreePtr
  PROVE  NextFollowed /\ QuietInv'
<1> DEFINE of == task[Opener].of
           node == task[Opener].node
<1>1. /\ life = "destroy" /\ life' = life
      /\ UNCHANGED <<head, arenaLock, owner, arena, cacheHeld, loading, handed, gets>>
  BY DEF RunCleanup, FreePtr, listsKept, ownerKept
<1>2. /\ task \in [Tasks -> Frames] /\ of \in Block \cup {Nil} /\ node \in Block \cup {Nil}
      /\ HeadOf("cleanups") = of /\ HeadOf("ptrs") = node
  BY <1>1, FrameFields, OpenerIsTask DEF QuietInv, ArenaTypeInv, HeadOf
<1>3. ASSUME NEW list \in Lists, HeadOf(list) # Nil
      PROVE  cell[HeadOf(list)].next \in Block \cup {Nil}
  <2>1. ListsInv(n, l)
    BY DEF Followed
  <2>2. n[list] \in Nat /\ l[list][0] = Nil /\ HeadOf(list) = l[list][n[list]]
    BY <2>1 DEF ListsInv
  <2>3. n[list] \in 1 .. n[list] /\ n[list] - 1 \in Nat
    BY <1>3, <2>2
  <2>4. cell[HeadOf(list)].next = l[list][n[list] - 1]
    BY <2>1, <2>2, <2>3 DEF ListsInv
  <2> QED
    BY <2>1, <2>3, <2>4 DEF ListsInv
<1>4. \A u \in Tasks : task[u].step = "idle"
  BY <1>1, EveryoneIdle
<1> HIDE DEF of, node
<1>5. CASE RunCleanup
  <2>1. /\ of # Nil /\ mapped' = mapped \ {cell[cell[of].of].of}
        /\ FreeBlocks({of, cell[of].of}) /\ task' = [task EXCEPT ![Opener].of = cell[of].next]
    BY <1>5 DEF RunCleanup, of
  <2>2. FrameIs(Opener, task[Opener].step, task[Opener].list, cell[of].next, node)
    <3>1. cell[of].next \in Block \cup {Nil}
      BY <1>2, <1>3, <2>1 DEF Lists
    <3> QED
      BY <1>2, <2>1, <3>1, FramePoints, OpenerIsTask DEF node
  <2>3. QuietInv'
    BY <1>1, <2>1, <2>2, QuietPops
  <2>4. /\ HeadOf("cleanups")' = cell[of].next
        /\ \A list \in Lists : list # "cleanups" => HeadOf(list)' = HeadOf(list)
        /\ \A u \in Tasks : task'[u].step = "idle"
    BY <1>1, <1>2, <1>4, <2>2, OpenerIsTask DEF FrameIs, HeadOf, Lists, node
  <2>5. NextFollowed
    <3>1. of \in Block /\ "cleanups" \in Lists
      BY <1>2, <2>1 DEF Lists
    <3>2. PICK c : c = of
      OBVIOUS
    <3> QED
      BY <1>1, <1>2, <1>4, <2>1, <2>4, <3>1, <3>2, PopFollowed
  <2> QED
    BY <2>3, <2>5
<1>6. CASE FreePtr
  <2>1. /\ node # Nil /\ mapped' = mapped
        /\ FreeBlocks({node, cell[node].of}) /\ task' = [task EXCEPT ![Opener].node = cell[node].next]
    BY <1>6 DEF FreePtr, node
  <2>2. FrameIs(Opener, task[Opener].step, task[Opener].list, of, cell[node].next)
    <3>1. cell[node].next \in Block \cup {Nil}
      BY <1>2, <1>3, <2>1 DEF Lists
    <3> QED
      BY <1>2, <2>1, <3>1, FramePoints, OpenerIsTask DEF of
  <2>3. QuietInv'
    BY <1>1, <2>1, <2>2, QuietPops
  <2>4. /\ HeadOf("ptrs")' = cell[node].next
        /\ \A list \in Lists : list # "ptrs" => HeadOf(list)' = HeadOf(list)
        /\ \A u \in Tasks : task'[u].step = "idle"
    BY <1>1, <1>2, <1>4, <2>2, OpenerIsTask DEF FrameIs, HeadOf, Lists, of
  <2>5. NextFollowed
    <3>1. node \in Block /\ "ptrs" \in Lists
      BY <1>2, <2>1 DEF Lists
    <3>2. PICK c : c = node
      OBVIOUS
    <3> QED
      BY <1>1, <1>2, <1>4, <2>1, <2>4, <3>1, <3>2, PopFollowed
  <2> QED
    BY <2>3, <2>5
<1> QED
  BY <1>5, <1>6

-----------------------------------------------------------------------------
(* The invariant holds. *)

LEMMA ArenaBegins ==
  ASSUME ArenaInit
  PROVE  ArenaInv
<1>1. QuietInv
  <2>1. Garbage \in Cells /\ Idle \in Frames
    BY DEF Garbage, Cells, Idle, Frames, Lists, Nil
  <2>2. cell \in [Block -> Cells] /\ \A b \in Block : cell[b] = Garbage
    BY <2>1 DEF ArenaInit
  <2>3. task \in [Tasks -> Frames] /\ \A t \in Tasks : task[t] = Idle
    BY <2>1 DEF ArenaInit
  <2>4. head \in [Lists -> Block \cup {Nil}] /\ head.ptrs = Nil /\ head.cleanups = Nil
    BY DEF ArenaInit, Lists
  <2>5. /\ blocks = {} /\ arenaLock = NoTask /\ owner = Nil /\ arena = Nil /\ mapped = {}
        /\ cacheHeld = FALSE /\ life = "closed" /\ loading = 1 /\ handed = {} /\ gets = 0
    BY DEF ArenaInit
  <2>6. 1 \in 1 .. Files + 1 /\ 0 \in 0 .. MaxGets
    BY ArenaConstants
  <2>7. ArenaTypeInv
    BY <2>2, <2>3, <2>4, <2>5, <2>6 DEF ArenaTypeInv
  <2>8. CallsInv
    <3>1. NoTask \notin Tasks
      BY ArenaConstants DEF NoTask, Tasks, Opener
    <3>2. \A t \in Tasks : task[t].step = "idle"
      BY <2>3 DEF Idle
    <3> QED
      BY <2>5, <3>1, <3>2, OpenerIsTask DEF CallsInv, Locking, At
  <2>9. LifeInv
    BY <2>4, <2>5 DEF LifeInv
  <2> QED
    BY <2>7, <2>8, <2>9 DEF QuietInv
<1>2. PICK own, n, l, file :
        /\ own = [p \in Owners |-> {}] /\ n = [list \in Lists |-> 0]
        /\ l = [list \in Lists |-> [i \in Nat |-> Nil]] /\ file = [i \in Nat |-> 1]
  OBVIOUS
<1>3. /\ own \in [Owners -> SUBSET Block] /\ \A p \in Owners : own[p] = {}
      /\ n \in [Lists -> Nat] /\ \A list \in Lists : n[list] = 0 /\ 1 .. n[list] = {}
      /\ l \in [Lists -> [Nat -> Block \cup {Nil}]] /\ \A list \in Lists : \A i \in Nat : l[list][i] = Nil
  BY <1>2
<1>4. file \in [Nat -> 1 .. Files + 1]
  BY <1>2, ArenaConstants
<1>5. /\ blocks = {} /\ owner = Nil /\ arena = Nil /\ mapped = {} /\ life = "closed"
      /\ handed = {} /\ head.ptrs = Nil /\ head.cleanups = Nil
      /\ \A t \in Tasks : task[t].step = "idle"
  BY DEF ArenaInit, Idle
<1>6. OwnersInv(own, n, l)
  <2>1. Partition(own, blocks)
    BY <1>3, <1>5 DEF Partition
  <2>2. \A t \in Tasks : TaskBlocks(t) = {}
    BY <1>5 DEF TaskBlocks, HasNode
  <2> QED
    BY <1>3, <1>5, <2>1, <2>2, OwnersKnown DEF OwnersInv
<1>7. ListsInv(n, l)
  BY <1>3, <1>5 DEF ListsInv, HeadOf, Lists
<1>8. NodesInv
  BY <1>5, OpenerIsTask DEF NodesInv, HasBlock, HasNode, At
<1>9. FilesInv(n, l, file)
  BY <1>3, <1>4, <1>5, OpenerIsTask DEF FilesInv, Underway, Calling, HasBlock, HasNode, Lists
<1>10. HandedInv(n, l, file)
  BY <1>5 DEF HandedInv
<1>11. Followed(own, n, l, file)
  BY <1>6, <1>7, <1>8, <1>9, <1>10 DEF Followed
<1> QED
  BY <1>1, <1>11 DEF ArenaInv

LEMMA NothingMapped ==
  ASSUME QuietInv, NEW own, NEW n, NEW l, NEW file, Followed(own, n, l, file),
         life \in {"closed", "unlock"}
  PROVE  mapped = {}
<1>1. HeadOf("cleanups") = Nil /\ \A t \in Tasks : task[t].step = "idle"
  BY EveryoneIdle DEF HeadOf, QuietInv, LifeInv
<1>2. n["cleanups"] = 0
  BY <1>1, NothingListed DEF Followed, Lists
<1> QED
  BY <1>1, <1>2, OpenerIsTask DEF Followed, FilesInv, Underway, Calling, HasBlock, HasNode

LEMMA ArenaSteps ==
  ASSUME ArenaInv, [ArenaNext]_arenaVars
  PROVE  ArenaInv'
<1>1. QuietInv
  BY DEF ArenaInv
<1>2. PICK own, n, l, file : Followed(own, n, l, file)
  BY DEF ArenaInv
<1>3. CASE MapFile
  BY <1>1, <1>2, <1>3, QuietMap, MapFollowed DEF ArenaInv, NextFollowed
<1>4. ASSUME NEW t \in Tasks, AllocateBlock(t) PROVE ArenaInv'
  BY <1>1, <1>2, <1>4, QuietBlock, BlockFollowed DEF ArenaInv, NextFollowed
<1>5. ASSUME NEW t \in Tasks, AllocateNode(t) PROVE ArenaInv'
  BY <1>1, <1>2, <1>5, QuietNode, NodeFollowed DEF ArenaInv, NextFollowed, Followed
<1>6. ASSUME NEW t \in Tasks, TakeArena(t) \/ LinkNode(t) PROVE ArenaInv'
  BY <1>1, <1>2, <1>6, LinkFollowed DEF ArenaInv, NextFollowed
<1>7. ASSUME NEW t \in Tasks, PublishNode(t) PROVE ArenaInv'
  BY <1>1, <1>2, <1>7, QuietPublish, PublishFollowed DEF ArenaInv, NextFollowed, Followed
<1>8. ASSUME NEW t \in Tasks, CallFails(t) PROVE ArenaInv'
  BY <1>1, <1>2, <1>8, QuietFails, FailsFollowed DEF ArenaInv, NextFollowed
<1>9. CASE OpenCalled
  BY <1>1, <1>2, <1>9, QuietOpenCalled, OpenCalledFollowed DEF ArenaInv, NextFollowed
<1>10. CASE MakeArena
  BY <1>1, <1>2, <1>10, QuietMakeArena, MakeArenaFollowed DEF ArenaInv, NextFollowed
<1>11. CASE MakeArenaFails
  BY <1>1, <1>2, <1>11, QuietMakeArenaFails, ReaderGoesFollowed DEF ArenaInv, NextFollowed
<1>12. CASE OpenerGoesOn
  BY <1>1, <1>2, <1>12, QuietGoesOn, GoesOnFollowed DEF ArenaInv
<1>13. ASSUME NEW t \in Worker, GetDecoded(t) PROVE ArenaInv'
  BY <1>1, <1>2, <1>13, QuietGet, GetFollowed DEF ArenaInv, NextFollowed
<1>14. CASE Detach
  BY <1>1, <1>2, <1>14, QuietDetach, DetachFollowed DEF ArenaInv, NextFollowed
<1>15. CASE RunCleanup \/ FreePtr
  BY <1>1, <1>2, <1>15, TakenFollowed DEF ArenaInv, NextFollowed
<1>16. CASE FreeArena
  BY <1>1, <1>2, <1>16, QuietEnds, FreeArenaFollowed DEF ArenaInv, NextFollowed
<1>17. CASE FreeReader
  <2>1. mapped = {}
    BY <1>1, <1>2, <1>17, NothingMapped DEF FreeReader
  <2> QED
    BY <1>1, <1>2, <1>17, <2>1, QuietEnds, ReaderGoesFollowed DEF ArenaInv, NextFollowed
<1>18. CASE UNCHANGED arenaVars
  <2>1. /\ blocks' = blocks /\ cell' = cell /\ head' = head /\ arenaLock' = arenaLock
        /\ owner' = owner /\ arena' = arena /\ mapped' = mapped /\ cacheHeld' = cacheHeld
        /\ life' = life /\ loading' = loading /\ task' = task /\ handed' = handed /\ gets' = gets
    BY <1>18 DEF arenaVars
  <2>2. QuietInv'
    BY <1>1, <2>1 DEF QuietInv, ArenaTypeInv, CallsInv, LifeInv, At
  <2>3. Followed(own, n, l, file)'
    <3>1. OwnersInv(own, n, l)'
      <4>1. \A t \in Tasks : TaskBlocks(t)' = TaskBlocks(t)
        BY <2>1 DEF TaskBlocks
      <4>2. OwnersInv(own, n, l) /\ ListsInv(n, l)
        BY <1>2 DEF Followed
      <4> QED
        BY <2>1, <4>1, <4>2, OwnersSame
    <3>3. ListsInv(n, l)' /\ NodesInv'
      BY <1>2, <2>1 DEF Followed, ListsInv, HeadOf, NodesInv, At
    <3>2. FilesInv(n, l, file)' /\ HandedInv(n, l, file)'
      BY <1>2, <2>1 DEF Followed, FilesInv, Underway, HandedInv, At
    <3> QED
      BY <3>1, <3>2, <3>3 DEF Followed
  <2> QED
    BY <2>2, <2>3 DEF ArenaInv
<1> QED
  BY <1>3, <1>4, <1>5, <1>6, <1>7, <1>8, <1>9, <1>10, <1>11, <1>12, <1>13, <1>14,
     <1>15, <1>16, <1>17, <1>18 DEF ArenaNext, OpenerGoesOn

-----------------------------------------------------------------------------
(* What it implies. *)

LEMMA ArenaInvariant == ArenaSpec => []ArenaInv
<1>1. ArenaInit => ArenaInv
  BY ArenaBegins
<1>2. ArenaInv /\ [ArenaNext]_arenaVars => ArenaInv'
  BY ArenaSteps
<1> QED
  BY <1>1, <1>2, PTL DEF ArenaSpec

LEMMA NothingOwned ==
  ASSUME QuietInv, NEW own, NEW n, NEW l, NEW file, Followed(own, n, l, file), life = "closed"
  PROVE  blocks = {}
<1>1. OwnersInv(own, n, l) /\ ListsInv(n, l)
  BY DEF Followed
<1>2. owner = Nil /\ arena = Nil /\ \A t \in Tasks : task[t].step = "idle"
  BY EveryoneIdle DEF QuietInv, LifeInv
<1>3. \A list \in Lists : n[list] = 0
  BY <1>1, NothingListed DEF HeadOf, Lists, QuietInv, LifeInv
<1>4. ASSUME NEW p \in Owners PROVE own[p] = {}
  <2>1. CASE p \in {"owner", "arena"} \X {0}
    BY <1>1, <1>2, <2>1 DEF OwnersInv, OwnerOf
  <2>2. CASE p \in {"task"} \X Tasks
    <3>1. PICK t \in Tasks : p = OwnerOf("task", t)
      BY <2>2 DEF OwnerOf
    <3>2. TaskBlocks(t) = {}
      BY <1>2 DEF TaskBlocks, HasNode
    <3> QED
      BY <1>1, <3>1, <3>2 DEF OwnersInv
  <2>3. CASE p \in Lists \X Nat
    <3>1. PICK list \in Lists, i \in Nat : p = OwnerOf(list, i)
      BY <2>3 DEF OwnerOf
    <3>2. i \notin 1 .. n[list]
      BY <1>3
    <3> QED
      BY <1>1, <3>1, <3>2 DEF OwnersInv
  <2> QED
    BY <2>1, <2>2, <2>3 DEF Owners
<1> QED
  BY <1>1, <1>4 DEF OwnersInv, Partition

\* The values of the arena's variables.
THEOREM ArenaTypes == ArenaSpec => []ArenaTypeOK
<1>1. ASSUME ArenaInv PROVE ArenaTypeOK
  <2>1. PICK own, n, l, file : Followed(own, n, l, file)
    BY <1>1 DEF ArenaInv
  <2>2. QuietInv /\ OwnersInv(own, n, l)
    BY <1>1, <2>1 DEF ArenaInv, Followed
  <2>3. {owner, arena} \subseteq blocks \cup {Nil}
    BY <2>2, OwnersKnown DEF OwnersInv, Partition
  <2> QED
    BY <2>2, <2>3 DEF ArenaTypeOK, QuietInv, ArenaTypeInv
<1> QED
  BY <1>1, ArenaInvariant, PTL

\* A file is mapped only under the reader's lock on the cache, what callers were
\* given by fce_arena_alloc or as a mapped file stays until the reader is closed,
\* and fce_arena_destroy frees only what is allocated.
THEOREM ArenaIsSafe == ArenaSpec => []ArenaSafe
<1>1. ASSUME ArenaInv, ArenaTypeOK PROVE ArenaSafe
  <2>1. PICK own, n, l, file : Followed(own, n, l, file)
    BY <1>1 DEF ArenaInv
  <2>2. /\ QuietInv /\ OwnersInv(own, n, l) /\ ListsInv(n, l)
        /\ FilesInv(n, l, file) /\ HandedInv(n, l, file)
    BY <1>1, <2>1 DEF ArenaInv, Followed
  <2>3. mapped # {} => cacheHeld
    BY <2>2 DEF QuietInv, LifeInv
  <2>4. \A x \in handed : x \in blocks \/ -x \in mapped
    <3>1. ASSUME NEW i \in 1 .. n["ptrs"] PROVE cell[l["ptrs"][i]].of \in blocks
      BY <2>2, ListedOwned DEF Lists
    <3>2. ASSUME NEW i \in 1 .. n["cleanups"] PROVE file[i] \in mapped
      BY <2>2 DEF FilesInv
    <3> QED
      BY <2>2, <3>1, <3>2 DEF HandedInv
  <2>5. ASSUME life = "destroy", NEW list \in Lists, HeadOf(list) # Nil
        PROVE  {HeadOf(list), cell[HeadOf(list)].of} \subseteq blocks
    <3>1. n[list] \in Nat /\ l[list][0] = Nil /\ HeadOf(list) = l[list][n[list]]
      BY <2>2 DEF ListsInv
    <3>2. n[list] \in 1 .. n[list]
      BY <2>5, <3>1
    <3> QED
      BY <2>2, <3>1, <3>2, ListedOwned
  <2>6. life = "destroy" => \A m \in {task[Opener].of, task[Opener].node} \ {Nil} :
                              {m, cell[m].of} \subseteq blocks
    BY <2>5 DEF HeadOf, Lists
  <2> QED
    BY <1>1, <2>3, <2>4, <2>6 DEF ArenaSafe
<1>2. ArenaInv /\ ArenaTypeOK => ArenaSafe
  BY <1>1
<1> QED
  BY <1>2, ArenaInvariant, ArenaTypes, PTL

\* However opening, getting and closing went, a closed reader leaves nothing
\* allocated, mapped or locked.
THEOREM ReadersLeaveNothing == ArenaSpec => []NothingLeft
<1>1. ASSUME ArenaInv PROVE NothingLeft
  <2> SUFFICES ASSUME life = "closed"
               PROVE  blocks = {} /\ mapped = {} /\ ~cacheHeld /\ arenaLock = NoTask
    BY DEF NothingLeft
  <2>1. PICK own, n, l, file : Followed(own, n, l, file)
    BY <1>1 DEF ArenaInv
  <2>2. QuietInv
    BY <1>1 DEF ArenaInv
  <2>3. blocks = {} /\ mapped = {}
    BY <2>1, <2>2, NothingOwned, NothingMapped
  <2>4. arenaLock = NoTask
    <3>1. \A t \in Tasks : task[t].step \notin Locking
      BY <2>2, EveryoneIdle DEF Locking
    <3> QED
      BY <2>2, <3>1 DEF QuietInv, ArenaTypeInv, CallsInv
  <2> QED
    BY <2>2, <2>3, <2>4 DEF QuietInv, LifeInv
<1> QED
  BY <1>1, ArenaInvariant, PTL

===============================================================================
