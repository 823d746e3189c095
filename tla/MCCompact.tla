------------------------------ MODULE MCCompact ------------------------------
(***************************************************************************)
(* Caches to begin with: a log that holds a key twice, although duplicate  *)
(* puts are forbidden (appends do not mind), and a table.                   *)
(***************************************************************************)
EXTENDS Compact

CONSTANTS x, y

K(k) == Encode(Plain(k))

Caches ==
  {[backend |-> "log", allowDuplicates |-> FALSE, records |-> <<<<K(0), x>>, <<K(0), y>>>>],
   [backend |-> "table", allowDuplicates |-> TRUE, records |-> <<<<K(0), y>>, <<K(1), x>>>>]}
=============================================================================
