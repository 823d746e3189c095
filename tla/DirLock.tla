------------------------------- MODULE DirLock -------------------------------
(***************************************************************************)
(* What the documentation promises of the cache lock (docs/API.md, "Thread *)
(* And Process Safety"): each cache directory has a lock which is held     *)
(* shared by any number of readers or exclusively by one writer, whatever  *)
(* the processes and threads the holders live in.  A holder keeps the lock *)
(* until it gives it up; the death of a process gives up all of its locks  *)
(* in one step.                                                            *)
(***************************************************************************)

CONSTANTS
  Handle,   \* the lock handles (FceFileLock objects)
  Dir,      \* the cache directories
  DirOf     \* the directory a handle is for

VARIABLE mode   \* what a handle holds: "none", "shared" or "exclusive"

Init == mode = [h \in Handle |-> "none"]

Compatible(h, m) ==
  \A g \in Handle \ {h} :
     DirOf[g] = DirOf[h] =>
        \/ mode[g] = "none"
        \/ m = "shared" /\ mode[g] = "shared"

Acquire(h, m) ==
  /\ mode[h] = "none"
  /\ Compatible(h, m)
  /\ mode' = [mode EXCEPT ![h] = m]

Release(S) == mode' = [h \in Handle |-> IF h \in S THEN "none" ELSE mode[h]]

Next ==
  \/ \E h \in Handle, m \in {"shared", "exclusive"} : Acquire(h, m)
  \/ \E S \in SUBSET Handle : Release(S)

Spec == Init /\ [][Next]_mode

=============================================================================
