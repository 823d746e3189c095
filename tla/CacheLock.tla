------------------------------ MODULE CacheLock ------------------------------
(***************************************************************************)
(* The cache lock of src/core/fce_file.c as it is built on POSIX.  A lock  *)
(* handle (FceFileLock) is taken in two stages:                            *)
(*                                                                         *)
(*   1. g_cache_lock_mutex, one read-write lock for the WHOLE process,     *)
(*      whatever the directory (process_lock_enter);                       *)
(*   2. an fcntl record lock on <dir>/cache.lock.  The kernel keeps ONE    *)
(*      such lock per (process, file): it conflicts only with the locks of *)
(*      other processes, and unlocking through any descriptor of the file, *)
(*      or closing any, drops the lock of the whole process.               *)
(*                                                                         *)
(* A handle is used by one thread.  A reader keeps its shared handle       *)
(* between calls (fce_reader_open ... fce_reader_close); a writer          *)
(* (freeze, append) takes and releases its exclusive handle in one call.   *)
(***************************************************************************)
EXTENDS Naturals

CONSTANTS
  Proc,         \* operating-system processes
  Thread,       \* their threads
  Handle,       \* lock handles
  Dir,          \* cache directories
  ProcOf,       \* the process of a thread
  ThreadOf,     \* the thread that uses a handle
  DirOf,        \* the directory a handle is for
  WritersFirst  \* does a waiting writer keep new readers out of the rwlock?
                \* (POSIX leaves this to the implementation)

ASSUME LockConstants ==
  /\ ProcOf \in [Thread -> Proc]
  /\ ThreadOf \in [Handle -> Thread]
  /\ DirOf \in [Handle -> Dir]
  /\ WritersFirst \in BOOLEAN

VARIABLES
  pc,      \* where each handle is in cache_lock_acquire_impl / release
  shared,  \* out_lock->shared
  rwlock,  \* g_cache_lock_mutex of each process: the handles inside it
  flock    \* the kernel's record lock of each process on each cache.lock

lockVars == <<pc, shared, rwlock, flock>>

Where == {"idle", "enter", "open", "wait", "held", "leave"}
Inside == {"open", "wait", "held", "leave"}   \* past process_lock_enter

P(h) == ProcOf[ThreadOf[h]]

LockTypeOK ==
  /\ pc \in [Handle -> Where]
  /\ shared \in [Handle -> BOOLEAN]
  /\ rwlock \in [Proc -> SUBSET Handle]
  /\ flock \in [Dir -> [Proc -> {"none", "read", "write"}]]

LockInit ==
  /\ pc = [h \in Handle |-> "idle"]
  /\ shared = [h \in Handle |-> FALSE]
  /\ rwlock = [p \in Proc |-> {}]
  /\ flock = [d \in Dir |-> [p \in Proc |-> "none"]]

Holds(h) == pc[h] = "held"
HoldsExclusive(h) == Holds(h) /\ ~shared[h]

InCall(h) == pc[h] \notin {"idle", "held"} \/ HoldsExclusive(h)

\* A thread runs one call at a time.
Free(t) == \A h \in Handle : ThreadOf[h] = t => ~InCall(h)

Goto(h, w) == pc' = [pc EXCEPT ![h] = w]

EnterMutex(h) == rwlock' = [rwlock EXCEPT ![P(h)] = @ \cup {h}]
LeaveMutex(h) == rwlock' = [rwlock EXCEPT ![P(h)] = @ \ {h}]

DropFileLocks(h) ==   \* mutant: the locks on the other directories go too
  flock' = [d \in Dir |-> [flock[d] EXCEPT ![P(h)] = "none"]]

\* fcntl(F_SETLK, F_UNLCK) and close(fd): the process's lock on the file goes.
DropFileLock(h) == flock' = [flock EXCEPT ![DirOf[h]][P(h)] = "none"]

-----------------------------------------------------------------------------
(* Acquiring. *)

CacheLockAcquire(h, sh) ==
  /\ pc[h] = "idle"
  /\ Free(ThreadOf[h])
  /\ shared' = [shared EXCEPT ![h] = sh]
  /\ Goto(h, "enter")
  /\ UNCHANGED <<rwlock, flock>>

MutexFreeAsReader(h) ==   \* mutant: every caller takes the mutex shared
  \A g \in rwlock[P(h)] : shared[g]

\* pthread_rwlock_rdlock / pthread_rwlock_wrlock
MutexFree(h) ==
  IF shared[h]
    THEN /\ \A g \in rwlock[P(h)] : shared[g]
         /\ WritersFirst =>
              ~ \E g \in Handle : P(g) = P(h) /\ pc[g] = "enter" /\ ~shared[g]
    ELSE rwlock[P(h)] = {}

ProcessLockEnter(h) ==
  /\ pc[h] = "enter"
  /\ MutexFree(h)
  /\ EnterMutex(h)
  /\ Goto(h, "open")
  /\ UNCHANGED <<shared, flock>>

\* The rwlock call returns an error (EAGAIN, EDEADLK): FCE_ERR_IO.
ProcessLockRefused(h) ==
  /\ pc[h] = "enter"
  /\ Goto(h, "idle")
  /\ UNCHANGED <<shared, rwlock, flock>>

OpenLockFile(h) ==
  /\ pc[h] = "open"
  /\ Goto(h, "wait")
  /\ UNCHANGED <<shared, rwlock, flock>>

LockFileUnavailableStay(h) ==   \* mutant: the error path keeps the mutex
  /\ pc[h] = "open"
  /\ Goto(h, "idle")
  /\ UNCHANGED <<shared, rwlock, flock>>

\* No path (out of memory) or open() fails: the mutex is left again.
LockFileUnavailable(h) ==
  /\ pc[h] = "open"
  /\ LeaveMutex(h)
  /\ Goto(h, "idle")
  /\ UNCHANGED <<shared, flock>>

NoConflictAsReader(h) ==   \* mutant: a writer ignores other processes' readers
  \A q \in Proc \ {P(h)} : flock[DirOf[h]][q] # "write"

NoConflict(h) ==
  \A q \in Proc \ {P(h)} :
     flock[DirOf[h]][q] \in IF shared[h] THEN {"none", "read"} ELSE {"none"}

FileLockTypeName(h) ==   \* mutant: not one of the kernel's lock types
  IF shared[h] THEN "shared" ELSE "write"
FileLockTypeRead(h) == "read"     \* mutant: the flag is ignored

FileLockType(h) == IF shared[h] THEN "read" ELSE "write"

\* fcntl(F_SETLKW) succeeds once no other process holds a conflicting lock.
SetLockWait(h) ==
  /\ pc[h] = "wait"
  /\ NoConflict(h)
  /\ flock' = [flock EXCEPT ![DirOf[h]][P(h)] = FileLockType(h)]
  /\ Goto(h, "held")
  /\ UNCHANGED <<shared, rwlock>>

\* fcntl fails for good (EDEADLK, ENOLCK): the descriptor is closed.
SetLockFails(h) ==
  /\ pc[h] = "wait"
  /\ DropFileLock(h)
  /\ LeaveMutex(h)
  /\ Goto(h, "idle")
  /\ UNCHANGED shared

-----------------------------------------------------------------------------
(* Releasing: fce_cache_lock_release, in the two steps others can see. *)

CacheLockRelease(h) ==
  /\ pc[h] = "held"
  /\ shared[h] => Free(ThreadOf[h])
  /\ DropFileLock(h)
  /\ Goto(h, "leave")
  /\ UNCHANGED <<shared, rwlock>>

ProcessLockLeave(h) ==
  /\ pc[h] = "leave"
  /\ LeaveMutex(h)
  /\ Goto(h, "idle")
  /\ UNCHANGED <<shared, flock>>

\* The process dies: its memory and, by the kernel, its record locks are gone.
LockCrash(p) ==
  /\ pc' = [h \in Handle |-> IF P(h) = p THEN "idle" ELSE pc[h]]
  /\ shared' = [h \in Handle |-> IF P(h) = p THEN FALSE ELSE shared[h]]
  /\ rwlock' = [rwlock EXCEPT ![p] = {}]
  /\ flock' = [d \in Dir |-> [flock[d] EXCEPT ![p] = "none"]]

-----------------------------------------------------------------------------
LockStep(h) ==
  \/ ProcessLockEnter(h)
  \/ OpenLockFile(h)
  \/ SetLockWait(h)
  \/ ProcessLockLeave(h)

LockFailure(h) ==
  \/ ProcessLockRefused(h)
  \/ LockFileUnavailable(h)
  \/ SetLockFails(h)

LockNext ==
  \/ \E h \in Handle :
        \/ \E sh \in BOOLEAN : CacheLockAcquire(h, sh)
        \/ LockStep(h)
        \/ LockFailure(h)
        \/ CacheLockRelease(h)
  \/ \E p \in Proc : LockCrash(p)

LockSpec == LockInit /\ [][LockNext]_lockVars

(***************************************************************************)
(* A thread that can run is run, the kernel and the rwlock wake a waiter   *)
(* that can proceed, and the application closes every reader it opened.    *)
(* Nobody is obliged to fail, to crash or to start a call; and a waiter    *)
(* is promised nothing while others keep overtaking it (weak fairness).    *)
(***************************************************************************)
LockFairness ==
  \A h \in Handle :
     /\ WF_lockVars(LockStep(h))
     /\ WF_lockVars(CacheLockRelease(h))

FairLockSpec == LockSpec /\ LockFairness

-----------------------------------------------------------------------------
(* What the lock guarantees. *)

\* Two different handles for one directory.
Rivals(h, g) == h # g /\ DirOf[h] = DirOf[g]

\* Two writers (freeze, append) never hold the lock of one directory together,
\* in whatever threads and processes they run (docs/API.md:430).
WriterExclusion ==
  \A h, g \in Handle :
     Rivals(h, g) => ~(HoldsExclusive(h) /\ HoldsExclusive(g))

\* A writer never holds the lock of a directory while a reader of it is open
\* (docs/API.md:19-21: the shared lock "prevents writers from replacing files
\* that an mmap-backed reader is still using").
ReaderWriterExclusion ==
  \A h, g \in Handle : Rivals(h, g) => ~(HoldsExclusive(h) /\ Holds(g))

\* The mutex of a process holds exactly the handles that are past
\* process_lock_enter: no return path of the code keeps it or leaves it twice.
MutexHolders ==
  \A p \in Proc : rwlock[p] = {h \in Handle : P(h) = p /\ pc[h] \in Inside}

\* g_cache_lock_mutex as a read-write lock: a writer is in it alone.
ProcessExclusion ==
  \A h, g \in Handle :
     h # g /\ P(h) = P(g) /\ pc[h] \in Inside /\ pc[g] \in Inside
        => shared[h] /\ shared[g]

\* The kernel's record locks: a write lock excludes every other process.
KernelExclusion ==
  \A d \in Dir : \A p, q \in Proc :
     p # q /\ flock[d][p] = "write" => flock[d][q] = "none"

\* A writer holding its handle still has the record lock under it: no other
\* handle of its process can have dropped it (it is alone in the mutex).
WriterCovered ==
  \A h \in Handle : HoldsExclusive(h) => flock[DirOf[h]][P(h)] = "write"

\* A process has at most one handle per directory.
SoleHandle == \A h, g \in Handle : Rivals(h, g) => P(h) # P(g)

\* With one handle per process and directory, a reader too still has the
\* record lock it took, until its own release drops it.
ReaderCovered ==
  SoleHandle => \A h \in Handle :
                   Holds(h) /\ shared[h] => flock[DirOf[h]][P(h)] = "read"

\* A call can hang only on a lock that others hold: once no more locks are
\* asked for, every acquire and every release in progress returns.  (Readers
\* are closed, by LockFairness; threads hold one handle each in the run.)
NewAcquire == \E h \in Handle, sh \in BOOLEAN : CacheLockAcquire(h, sh)

CallsComplete ==
  <>[][~NewAcquire]_lockVars => \A h \in Handle : InCall(h) ~> ~InCall(h)

\* The abstract lock of module DirLock, as the handles stand.
lockMode ==
  [h \in Handle |->
     IF Holds(h) THEN IF shared[h] THEN "shared" ELSE "exclusive" ELSE "none"]

DL == INSTANCE DirLock WITH mode <- lockMode

\* The two-stage lock implements the documented per-directory lock.
ImplementsDirLock == DL!Spec

=============================================================================
