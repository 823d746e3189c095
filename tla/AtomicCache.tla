----------------------------- MODULE AtomicCache -----------------------------
(***************************************************************************)
(* What a cache directory promises its users (docs/API.md): it is a map    *)
(* from keys to values that freezes and appends change one at a time, and  *)
(* an open reader is a snapshot of it.  A mutation that fails or dies may  *)
(* leave the directory unreadable, or holding the old or the new map; it   *)
(* never leaves a mixture for a reader to see.                             *)
(***************************************************************************)
EXTENDS Naturals

CONSTANTS
  Client,   \* the users of the directory
  Key, Value,
  Puts,     \* the sequences of <<key, value>> a builder may have collected
  Absent    \* what looking up a key that is not there gives

VARIABLES
  maps,     \* the maps that opening the cache may show
  sound,    \* must opening it succeed?
  pending,  \* the maps that the mutation under way is to leave
  view      \* the map each open reader shows

avars == <<maps, sound, pending, view>>

NoMap == <<>>   \* the view of a client that has no reader open

\* The last put of a key wins.
Latest(puts) ==
  [k \in Key |->
     LET puttings == {i \in DOMAIN puts : puts[i][1] = k}
     IN  IF puttings = {} THEN Absent
         ELSE puts[CHOOSE i \in puttings : \A j \in puttings : j <= i][2]]

AInit ==
  /\ maps = {}
  /\ sound = FALSE
  /\ pending = {}
  /\ view = [c \in Client |-> NoMap]

NoReader == \A c \in Client : view[c] = NoMap

\* A freeze or an append begins to write: from here on it may fail half-way
\* (at once, if its process dies in its first write).
Attempt(new) ==
  /\ pending = {} /\ new # {}
  /\ NoReader
  /\ pending' \in {new, {}}
  /\ maps' = maps \cup new
  /\ sound' = FALSE
  /\ UNCHANGED view

BuilderFreeze(puts) == Attempt({Latest(puts)})

LogAppend(k, v) == Attempt({[map EXCEPT ![k] = v] : map \in maps})

\* The mutation succeeds: the cache is the new map.
Commit ==
  /\ pending # {}
  /\ NoReader
  /\ maps' = pending
  /\ sound' = TRUE
  /\ pending' = {}
  /\ UNCHANGED view

\* The mutation fails, or its process dies.
Abandon ==
  /\ pending' = {}
  /\ UNCHANGED <<maps, sound, view>>

Open(c) ==
  /\ view[c] = NoMap
  /\ pending = {}
  /\ \E map \in maps : view' = [view EXCEPT ![c] = map]
  /\ UNCHANGED <<maps, sound, pending>>

Close(c) ==
  /\ view' = [view EXCEPT ![c] = NoMap]
  /\ UNCHANGED <<maps, sound, pending>>

ANext ==
  \/ \E puts \in Puts : BuilderFreeze(puts)
  \/ \E k \in Key, v \in Value : LogAppend(k, v)
  \/ Commit
  \/ Abandon
  \/ \E c \in Client : Open(c) \/ Close(c)

ASpec == AInit /\ [][ANext]_avars
=============================================================================
