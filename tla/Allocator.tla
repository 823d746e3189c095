------------------------------ MODULE Allocator -------------------------------
(***************************************************************************)
(* What fce_memory.c promises to its callers, whatever other threads do:   *)
(* a block that is handed out was nobody's, has the size asked for, and    *)
(* stays its caller's alone until it is given back; a call that fails      *)
(* leaves its caller with what it had.                                     *)
(***************************************************************************)
EXTENDS Naturals

CONSTANTS Thread, Addr, Size, NoAddr

VARIABLES
  held,    \* the blocks that callers have, and their sizes
  call     \* of each thread: what it asks for, and the block it has passed on

allocatorVars == <<held, call>>

NoCall == [what |-> "none", block |-> NoAddr, size |-> 0, wanted |-> 0]

Init ==
  /\ held = [a \in {} |-> 0]
  /\ call = [t \in Thread |-> NoCall]

\* Blocks that a caller has, or has passed on to a call under way.
Owned == DOMAIN held \cup {call[t].block : t \in Thread}

Gets(a, n) == held' = [b \in DOMAIN held \cup {a} |-> IF b = a THEN n ELSE held[b]]
PassesOn(a) == held' = [b \in DOMAIN held \ {a} |-> held[b]]

Begins(t, what, a, old, n) ==
  /\ call[t] = NoCall
  /\ call' = [call EXCEPT ![t] = [what |-> what, block |-> a, size |-> old, wanted |-> n]]

Ends(t) == call' = [call EXCEPT ![t] = NoCall]

\* malloc and what it comes to.  No block has size 0.
Malloc(t, n) ==
  /\ Begins(t, "malloc", NoAddr, 0, IF n = 0 THEN 1 ELSE n)
  /\ UNCHANGED held

MallocReturns(t, a) ==
  /\ call[t].what = "malloc" /\ a \in Addr \ Owned
  /\ Gets(a, call[t].wanted) /\ Ends(t)

MallocFails(t) == call[t].what = "malloc" /\ Ends(t) /\ UNCHANGED held

Free(t, a) == a \in DOMAIN held /\ Begins(t, "free", a, held[a], 0) /\ PassesOn(a)

FreeReturns(t) == call[t].what = "free" /\ Ends(t) /\ UNCHANGED held

Realloc(t, a, n) ==
  /\ a \in DOMAIN held /\ n > 0
  /\ Begins(t, "realloc", a, held[a], n) /\ PassesOn(a)

\* The block in its place, or another one.
ReallocReturns(t, a) ==
  /\ call[t].what = "realloc" /\ a \in (Addr \ Owned) \cup {call[t].block}
  /\ Gets(a, call[t].wanted) /\ Ends(t)

\* The old block with its old size.
ReallocFails(t) ==
  /\ call[t].what = "realloc"
  /\ Gets(call[t].block, call[t].size) /\ Ends(t)

Next ==
  \E t \in Thread :
    \/ \E n \in Size : Malloc(t, n)
    \/ \E a \in Addr : MallocReturns(t, a) \/ Free(t, a) \/ ReallocReturns(t, a)
    \/ \E a \in Addr, n \in Size : Realloc(t, a, n)
    \/ MallocFails(t) \/ FreeReturns(t) \/ ReallocFails(t)

Spec == Init /\ [][Next]_allocatorVars

=============================================================================
