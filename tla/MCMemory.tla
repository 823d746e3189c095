------------------------------ MODULE MCMemory ------------------------------
(***************************************************************************)
(* Memory that threads share, in one run: a behaviour is one of the        *)
(* allocator or one of a reader's arena, while the other is at rest.       *)
(* Threads, and addresses of the allocator, are interchangeable.           *)
(***************************************************************************)
EXTENDS Memory, Arena, TLC

VARIABLE part

hostVars == <<part, memVars, arenaVars>>

HostInit == part \in {"allocator", "arena"} /\ MemInit /\ ArenaInit

HostNext ==
  \/ part = "allocator" /\ MemNext /\ UNCHANGED <<part, arenaVars>>
  \/ part = "arena" /\ ArenaNext /\ UNCHANGED <<part, memVars>>

HostSpec == HostInit /\ [][HostNext]_hostVars

Symmetry == Permutations(Thread) \cup Permutations(Addr)
=============================================================================
