----------------------------- MODULE MCCacheStore -----------------------------
(***************************************************************************)
(* Instances of CacheStore for TLC.  Keys are 0 and 1; x and y are values.  *)
(***************************************************************************)
EXTENDS CacheStore

CONSTANTS x, y

\* Nothing, one key, both keys (not in key order), and one key put twice with
\* different values, which is refused or leaves the second value.
TablePuts ==
  {<<>>, <<<<0, x>>>>, <<<<1, x>>, <<0, x>>>>, <<<<0, x>>, <<0, y>>>>}

LogPuts == {<<>>, <<<<0, x>>>>, <<<<0, x>>, <<0, y>>>>}

\* The cache of a log that is filled by appends alone.
EmptyLog == {<<>>}

\* The clients run the same code.
Clients == Permutations(Client)
=============================================================================
