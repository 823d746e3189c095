--------------------------- MODULE CacheLockProofs ---------------------------
(***************************************************************************)
(* Proofs about the cache lock, for any number of processes, threads,      *)
(* handles and directories.                                                *)
(***************************************************************************)
EXTENDS CacheLock, TLAPS

\* The mutex alone keeps the handles of one process apart, the kernel alone
\* keeps processes apart; WriterCovered ties a writer to its record lock.
LockInv ==
  /\ LockTypeOK
  /\ MutexHolders
  /\ ProcessExclusion
  /\ KernelExclusion
  /\ WriterCovered
  /\ ReaderCovered

LEMMA ProcessOfHandle == \A h \in Handle : P(h) \in Proc /\ DirOf[h] \in Dir
  BY LockConstants DEF P

LEMMA LockInitInv == LockInit => LockInv
  <1> SUFFICES ASSUME LockInit PROVE LockInv
    OBVIOUS
  <1> USE ProcessOfHandle DEF LockInit
  <1>1. LockTypeOK
    BY DEF LockTypeOK, Where
  <1>2. MutexHolders /\ ProcessExclusion
    BY DEF MutexHolders, ProcessExclusion, Inside
  <1>3. KernelExclusion /\ WriterCovered /\ ReaderCovered
    BY DEF KernelExclusion, WriterCovered, ReaderCovered, HoldsExclusive, Holds
  <1> QED
    BY <1>1, <1>2, <1>3 DEF LockInv

LEMMA LockTypeStep == LockTypeOK /\ [LockNext]_lockVars => LockTypeOK'
  <1> SUFFICES ASSUME LockTypeOK, [LockNext]_lockVars PROVE LockTypeOK'
    OBVIOUS
  <1> USE ProcessOfHandle DEF LockTypeOK, Where
  <1>1. ASSUME NEW h \in Handle, NEW sh \in BOOLEAN, CacheLockAcquire(h, sh)
        PROVE  LockTypeOK'
    BY <1>1 DEF CacheLockAcquire, Goto
  <1>2. ASSUME NEW h \in Handle, ProcessLockEnter(h) PROVE LockTypeOK'
    BY <1>2 DEF ProcessLockEnter, EnterMutex, Goto
  <1>3. ASSUME NEW h \in Handle, ProcessLockRefused(h) \/ OpenLockFile(h)
        PROVE  LockTypeOK'
    BY <1>3 DEF ProcessLockRefused, OpenLockFile, Goto
  <1>4. ASSUME NEW h \in Handle, LockFileUnavailable(h) \/ ProcessLockLeave(h)
        PROVE  LockTypeOK'
    <2>1. /\ pc' = [pc EXCEPT ![h] = "idle"] /\ UNCHANGED <<shared, flock>>
          /\ rwlock' = [rwlock EXCEPT ![P(h)] = @ \ {h}]
      BY <1>4 DEF LockFileUnavailable, ProcessLockLeave, LeaveMutex, Goto
    <2>2. pc' \in [Handle -> Where]
      BY <2>1
    <2>3. rwlock' \in [Proc -> SUBSET Handle]
      BY <2>1
    <2> QED
      BY <2>1, <2>2, <2>3
  <1>5. ASSUME NEW h \in Handle, SetLockWait(h) PROVE LockTypeOK'
    BY <1>5 DEF SetLockWait, FileLockType, Goto
  <1>6. ASSUME NEW h \in Handle, SetLockFails(h) PROVE LockTypeOK'
    <2>1. /\ pc' = [pc EXCEPT ![h] = "idle"] /\ UNCHANGED shared
          /\ rwlock' = [rwlock EXCEPT ![P(h)] = @ \ {h}]
          /\ flock' = [flock EXCEPT ![DirOf[h]][P(h)] = "none"]
      BY <1>6 DEF SetLockFails, DropFileLock, LeaveMutex, Goto
    <2>2. pc' \in [Handle -> Where] /\ rwlock' \in [Proc -> SUBSET Handle]
      BY <2>1
    <2>3. flock' \in [Dir -> [Proc -> {"none", "read", "write"}]]
      BY <2>1
    <2> QED
      BY <2>1, <2>2, <2>3
  <1>7. ASSUME NEW h \in Handle, CacheLockRelease(h) PROVE LockTypeOK'
    BY <1>7 DEF CacheLockRelease, DropFileLock, Goto
  <1>8. ASSUME NEW p \in Proc, LockCrash(p) PROVE LockTypeOK'
    BY <1>8 DEF LockCrash
  <1>9. CASE UNCHANGED lockVars
    BY <1>9 DEF lockVars
  <1> QED
    BY <1>1, <1>2, <1>3, <1>4, <1>5, <1>6, <1>7, <1>8, <1>9
       DEF LockNext, LockStep, LockFailure

\* The documented lock is typed from the start on: LockTypeOK is an invariant.
THEOREM LockTypeInvariant == LockSpec => []LockTypeOK
  <1>1. LockInit => LockTypeOK
    BY LockInitInv DEF LockInv
  <1> QED
    BY <1>1, LockTypeStep, PTL DEF LockSpec

-----------------------------------------------------------------------------
(* The mutex of a process. *)

LEMMA MutexHoldersStep ==
  LockTypeOK /\ MutexHolders /\ [LockNext]_lockVars => MutexHolders'
  <1> SUFFICES ASSUME LockTypeOK, MutexHolders, [LockNext]_lockVars
               PROVE  MutexHolders'
    OBVIOUS
  <1> USE ProcessOfHandle DEF LockTypeOK, MutexHolders, Where, Inside, P
  <1>1. ASSUME NEW h \in Handle, NEW sh \in BOOLEAN, CacheLockAcquire(h, sh)
        PROVE  MutexHolders'
    BY <1>1 DEF CacheLockAcquire, Goto
  <1>2. ASSUME NEW h \in Handle, ProcessLockEnter(h) PROVE MutexHolders'
    BY <1>2 DEF ProcessLockEnter, EnterMutex, Goto
  <1>3. ASSUME NEW h \in Handle, ProcessLockRefused(h) \/ OpenLockFile(h)
        PROVE  MutexHolders'
    BY <1>3 DEF ProcessLockRefused, OpenLockFile, Goto
  <1>4. ASSUME NEW h \in Handle,
               LockFileUnavailable(h) \/ ProcessLockLeave(h) \/ SetLockFails(h)
        PROVE  MutexHolders'
    BY <1>4 DEF LockFileUnavailable, ProcessLockLeave, SetLockFails, LeaveMutex,
                Goto
  <1>5. ASSUME NEW h \in Handle, SetLockWait(h) \/ CacheLockRelease(h)
        PROVE  MutexHolders'
    BY <1>5 DEF SetLockWait, CacheLockRelease, Goto
  <1>6. ASSUME NEW p \in Proc, LockCrash(p) PROVE MutexHolders'
    BY <1>6 DEF LockCrash
  <1>7. CASE UNCHANGED lockVars
    BY <1>7 DEF lockVars
  <1> QED
    BY <1>1, <1>2, <1>3, <1>4, <1>5, <1>6, <1>7
       DEF LockNext, LockStep, LockFailure

LEMMA ProcessExclusionStep ==
  LockTypeOK /\ MutexHolders /\ ProcessExclusion /\ [LockNext]_lockVars
     => ProcessExclusion'
  <1> SUFFICES ASSUME LockTypeOK, MutexHolders, ProcessExclusion,
                      [LockNext]_lockVars
               PROVE  ProcessExclusion'
    OBVIOUS
  <1> USE ProcessOfHandle DEF LockTypeOK, ProcessExclusion, Where, Inside, P
  <1>1. ASSUME NEW h \in Handle, NEW sh \in BOOLEAN, CacheLockAcquire(h, sh)
        PROVE  ProcessExclusion'
    BY <1>1 DEF CacheLockAcquire, Goto
  <1>2. ASSUME NEW h \in Handle, ProcessLockEnter(h) PROVE ProcessExclusion'
    <2>1. \A g \in Handle : P(g) = P(h) /\ pc[g] \in Inside => g \in rwlock[P(h)]
      BY DEF MutexHolders
    <2>2. \A g \in Handle : P(g) = P(h) /\ pc[g] \in Inside => shared[g] /\ shared[h]
      BY <1>2, <2>1 DEF ProcessLockEnter, MutexFree
    <2> QED
      BY <1>2, <2>2 DEF ProcessLockEnter, Goto
  <1>3. ASSUME NEW h \in Handle,
               \/ ProcessLockRefused(h) \/ OpenLockFile(h) \/ SetLockWait(h)
               \/ CacheLockRelease(h)
        PROVE  ProcessExclusion'
    BY <1>3 DEF ProcessLockRefused, OpenLockFile, SetLockWait, CacheLockRelease, Goto
  <1>4. ASSUME NEW h \in Handle,
               LockFileUnavailable(h) \/ ProcessLockLeave(h) \/ SetLockFails(h)
        PROVE  ProcessExclusion'
    BY <1>4 DEF LockFileUnavailable, ProcessLockLeave, SetLockFails, Goto
  <1>5. ASSUME NEW p \in Proc, LockCrash(p) PROVE ProcessExclusion'
    BY <1>5 DEF LockCrash
  <1>6. CASE UNCHANGED lockVars
    BY <1>6 DEF lockVars
  <1> QED
    BY <1>1, <1>2, <1>3, <1>4, <1>5, <1>6 DEF LockNext, LockStep, LockFailure

-----------------------------------------------------------------------------
(* The record locks. *)

LEMMA KernelExclusionStep ==
  LockTypeOK /\ KernelExclusion /\ [LockNext]_lockVars => KernelExclusion'
  <1> SUFFICES ASSUME LockTypeOK, KernelExclusion, [LockNext]_lockVars
               PROVE  KernelExclusion'
    OBVIOUS
  <1> USE ProcessOfHandle DEF LockTypeOK, KernelExclusion
  <1>1. ASSUME NEW h \in Handle, SetLockWait(h) PROVE KernelExclusion'
    <2>1. \A q \in Proc \ {P(h)} :
            /\ flock[DirOf[h]][q] # "write"
            /\ ~shared[h] => flock[DirOf[h]][q] = "none"
      BY <1>1 DEF SetLockWait, NoConflict
    <2> QED
      BY <1>1, <2>1 DEF SetLockWait, FileLockType
  <1>2. ASSUME NEW h \in Handle, SetLockFails(h) \/ CacheLockRelease(h)
        PROVE  KernelExclusion'
    BY <1>2 DEF SetLockFails, CacheLockRelease, DropFileLock
  <1>3. ASSUME NEW p \in Proc, LockCrash(p) PROVE KernelExclusion'
    BY <1>3 DEF LockCrash
  <1>4. CASE UNCHANGED flock
    BY <1>4
  <1> QED
    BY <1>1, <1>2, <1>3, <1>4
       DEF LockNext, LockStep, LockFailure, lockVars, CacheLockAcquire,
           ProcessLockEnter, OpenLockFile, ProcessLockLeave, ProcessLockRefused,
           LockFileUnavailable

\* Only a handle past process_lock_enter touches the record lock of its
\* process, and an exclusive handle is alone there.
LEMMA WriterCoveredStep ==
  LockTypeOK /\ ProcessExclusion /\ WriterCovered /\ [LockNext]_lockVars
     => WriterCovered'
  <1> SUFFICES ASSUME LockTypeOK, ProcessExclusion, WriterCovered,
                      [LockNext]_lockVars
               PROVE  WriterCovered'
    OBVIOUS
  <1> USE ProcessOfHandle
      DEF LockTypeOK, WriterCovered, HoldsExclusive, Holds, Where
  <1>1. ASSUME NEW h \in Handle, NEW sh \in BOOLEAN, CacheLockAcquire(h, sh)
        PROVE  WriterCovered'
    BY <1>1 DEF CacheLockAcquire, Goto
  <1>2. ASSUME NEW h \in Handle,
               \/ ProcessLockEnter(h) \/ ProcessLockRefused(h) \/ OpenLockFile(h)
               \/ LockFileUnavailable(h) \/ ProcessLockLeave(h)
        PROVE  WriterCovered'
    BY <1>2 DEF ProcessLockEnter, ProcessLockRefused, OpenLockFile,
                LockFileUnavailable, ProcessLockLeave, Goto
  <1>3. ASSUME NEW h \in Handle,
               SetLockWait(h) \/ SetLockFails(h) \/ CacheLockRelease(h)
        PROVE  WriterCovered'
    <2>1. \A g \in Handle : g # h /\ P(g) = P(h) => ~HoldsExclusive(g)
      BY <1>3 DEF ProcessExclusion, Inside, SetLockWait, SetLockFails,
                  CacheLockRelease
    <2>2. CASE SetLockWait(h)
      BY <2>1, <2>2 DEF SetLockWait, FileLockType, Goto
    <2>3. CASE SetLockFails(h) \/ CacheLockRelease(h)
      <3>1. /\ shared' = shared
            /\ pc' \in {[pc EXCEPT ![h] = "idle"], [pc EXCEPT ![h] = "leave"]}
        BY <2>3 DEF SetLockFails, CacheLockRelease, Goto
      <3>2. flock' = [flock EXCEPT ![DirOf[h]][P(h)] = "none"]
        BY <2>3 DEF SetLockFails, CacheLockRelease, DropFileLock
      <3>3. \A g \in Handle : HoldsExclusive(g)' =>
                 g # h /\ HoldsExclusive(g) /\ P(g) # P(h)
        BY <2>1, <3>1
      <3>4. \A g \in Handle : P(g) # P(h) =>
                 flock'[DirOf[g]][P(g)] = flock[DirOf[g]][P(g)]
        BY <3>2
      <3> QED
        BY <3>3, <3>4 DEF P
    <2> QED
      BY <1>3, <2>2, <2>3
  <1>4. ASSUME NEW p \in Proc, LockCrash(p) PROVE WriterCovered'
    BY <1>4 DEF LockCrash
  <1>5. CASE UNCHANGED lockVars
    BY <1>5 DEF lockVars
  <1> QED
    BY <1>1, <1>2, <1>3, <1>4, <1>5 DEF LockNext, LockStep, LockFailure

\* A sole handle of its process and directory cannot lose its record lock to
\* another close.
LEMMA ReaderCoveredStep ==
  LockTypeOK /\ ReaderCovered /\ [LockNext]_lockVars => ReaderCovered'
  <1> SUFFICES ASSUME LockTypeOK, ReaderCovered, [LockNext]_lockVars, SoleHandle
               PROVE  \A h \in Handle :
                        (Holds(h) /\ shared[h] => flock[DirOf[h]][P(h)] = "read")'
    BY DEF ReaderCovered, SoleHandle, Rivals, P
  <1> USE ProcessOfHandle DEF LockTypeOK, ReaderCovered, Holds, Where
  <1> DEFINE Covered == \A h \in Handle :
                          Holds(h) /\ shared[h] => flock[DirOf[h]][P(h)] = "read"
  <1>1. ASSUME NEW h \in Handle, NEW sh \in BOOLEAN, CacheLockAcquire(h, sh)
        PROVE  Covered'
    BY <1>1 DEF CacheLockAcquire, Goto
  <1>2. ASSUME NEW h \in Handle,
               \/ ProcessLockEnter(h) \/ ProcessLockRefused(h) \/ OpenLockFile(h)
               \/ LockFileUnavailable(h) \/ ProcessLockLeave(h)
        PROVE  Covered'
    BY <1>2 DEF ProcessLockEnter, ProcessLockRefused, OpenLockFile,
                LockFileUnavailable, ProcessLockLeave, Goto
  <1>3. ASSUME NEW h \in Handle, SetLockWait(h) PROVE Covered'
    BY <1>3 DEF SetLockWait, FileLockType, Goto, SoleHandle, Rivals
  <1>4. ASSUME NEW h \in Handle, SetLockFails(h) \/ CacheLockRelease(h)
        PROVE  Covered'
    BY <1>4 DEF SetLockFails, CacheLockRelease, DropFileLock, Goto, SoleHandle,
                Rivals
  <1>5. ASSUME NEW p \in Proc, LockCrash(p) PROVE Covered'
    BY <1>5 DEF LockCrash
  <1>6. CASE UNCHANGED lockVars
    BY <1>6 DEF lockVars
  <1> QED
    BY <1>1, <1>2, <1>3, <1>4, <1>5, <1>6 DEF LockNext, LockStep, LockFailure

-----------------------------------------------------------------------------
LEMMA LockInvInvariant == LockSpec => []LockInv
  <1>1. LockInv /\ [LockNext]_lockVars => LockInv'
    BY LockTypeStep, MutexHoldersStep, ProcessExclusionStep, KernelExclusionStep,
       WriterCoveredStep, ReaderCoveredStep DEF LockInv
  <1> QED
    BY LockInitInv, <1>1, PTL DEF LockSpec

\* Every return path of process_lock_enter, fce_cache_lock_acquire and
\* fce_cache_lock_release leaves the mutex of its process with the handles that
\* are past process_lock_enter, and with no other.
THEOREM MutexHoldersInvariant == LockSpec => []MutexHolders
  <1>1. LockInv => MutexHolders
    BY DEF LockInv
  <1> QED
    BY <1>1, LockInvInvariant, PTL

\* A writer keeps the record lock it got from fcntl: no close() of its own
\* process can drop it, because no other handle of the process is in the mutex.
THEOREM WritersKeepRecordLock == LockSpec => []WriterCovered
  <1>1. LockInv => WriterCovered
    BY DEF LockInv
  <1> QED
    BY <1>1, LockInvInvariant, PTL

\* With one handle per process and directory, a reader keeps its record lock too.
THEOREM SoleReadersKeepRecordLock == LockSpec => []ReaderCovered
  <1>1. LockInv => ReaderCovered
    BY DEF LockInv
  <1> QED
    BY <1>1, LockInvInvariant, PTL

\* No two writers of one directory: fce_builder_freeze and fce_log_append never
\* hold the same cache.lock exclusively together, in whatever threads and
\* processes they run and whatever dies.
THEOREM WritersExclude == LockSpec => []WriterExclusion
  <1>1. LockInv => WriterExclusion
    <2> SUFFICES ASSUME LockInv, NEW h \in Handle, NEW g \in Handle,
                        Rivals(h, g), HoldsExclusive(h), HoldsExclusive(g)
                 PROVE  FALSE
      BY DEF WriterExclusion
    <2>1. CASE P(h) = P(g)
      BY <2>1 DEF LockInv, ProcessExclusion, Rivals, HoldsExclusive, Holds, Inside
    <2>2. CASE P(h) # P(g)
      BY <2>2, ProcessOfHandle
         DEF LockInv, KernelExclusion, WriterCovered, Rivals
    <2> QED
      BY <2>1, <2>2
  <1> QED
    BY <1>1, LockInvInvariant, PTL

\* A writer and a reader of one directory never hold its lock together, provided
\* each process has at most one handle per directory.  Without that assumption
\* the property is false (close() drops the lock of the whole process).
THEOREM ReadersExcludeWriters ==
  SoleHandle => (LockSpec => []ReaderWriterExclusion)
  <1> SUFFICES ASSUME SoleHandle PROVE LockSpec => []ReaderWriterExclusion
    OBVIOUS
  <1>1. ASSUME LockInv PROVE ReaderWriterExclusion
    <2> SUFFICES ASSUME NEW h \in Handle, NEW g \in Handle,
                        Rivals(h, g), HoldsExclusive(h), Holds(g)
                 PROVE  FALSE
      BY DEF ReaderWriterExclusion
    <2>1. P(h) # P(g) /\ P(h) \in Proc /\ P(g) \in Proc /\ DirOf[h] \in Dir
      BY ProcessOfHandle DEF SoleHandle
    <2>2. flock[DirOf[h]][P(h)] = "write"
      BY <1>1 DEF LockInv, WriterCovered
    <2>3. flock[DirOf[h]][P(g)] = "none"
      BY <1>1, <2>1, <2>2 DEF LockInv, KernelExclusion
    <2>4. flock[DirOf[g]][P(g)] # "none"
      BY <1>1 DEF LockInv, WriterCovered, ReaderCovered, HoldsExclusive
    <2> QED
      BY <2>3, <2>4 DEF Rivals
  <1> QED
    BY <1>1, LockInvInvariant, PTL

-----------------------------------------------------------------------------
(* The per-directory lock. *)

LEMMA InitMapsToInit == LockInit => DL!Init
  BY DEF LockInit, DL!Init, lockMode, Holds

LEMMA WaitMapsToAcquire ==
  ASSUME SoleHandle, LockInv, NEW h \in Handle, SetLockWait(h)
  PROVE  DL!Next
  <1> DEFINE m == IF shared[h] THEN "shared" ELSE "exclusive"
  <1> USE ProcessOfHandle DEF LockInv, LockTypeOK, Where, Holds
  <1>1. lockMode[h] = "none"
    BY DEF SetLockWait, lockMode
  <1>2. DL!Compatible(h, m)
    <2> SUFFICES ASSUME NEW g \in Handle \ {h}, DirOf[g] = DirOf[h], Holds(g)
                 PROVE  shared[h] /\ shared[g]
      BY DEF DL!Compatible, lockMode
    <2>1. P(g) # P(h) /\ P(g) \in Proc
      BY DEF SoleHandle, Rivals
    <2>2. flock[DirOf[h]][P(g)] = IF shared[g] THEN "read" ELSE "write"
      BY DEF WriterCovered, ReaderCovered, HoldsExclusive
    <2> QED
      BY <2>1, <2>2 DEF SetLockWait, NoConflict
  <1>3. lockMode' = [lockMode EXCEPT ![h] = m]
    BY DEF SetLockWait, Goto, lockMode
  <1> QED
    BY <1>1, <1>2, <1>3 DEF DL!Next, DL!Acquire

\* Under the one-handle-per-process-and-directory assumption the two-stage lock
\* implements the shared/exclusive directory lock of docs/API.md, DirLock.
THEOREM CacheLockImplementsDirLock ==
  SoleHandle => (LockSpec => ImplementsDirLock)
  <1> SUFFICES ASSUME SoleHandle PROVE LockSpec => ImplementsDirLock
    OBVIOUS
  <1>1. ASSUME LockInv, [LockNext]_lockVars PROVE [DL!Next]_lockMode
    <2> USE <1>1 DEF LockInv, LockTypeOK, Where, Holds
    <2>1. ASSUME NEW h \in Handle, NEW sh \in BOOLEAN, CacheLockAcquire(h, sh)
          PROVE  UNCHANGED lockMode
      BY <2>1 DEF CacheLockAcquire, Goto, lockMode
    <2>2. ASSUME NEW h \in Handle,
                 \/ ProcessLockEnter(h) \/ OpenLockFile(h) \/ ProcessLockLeave(h)
          PROVE  UNCHANGED lockMode
      BY <2>2 DEF ProcessLockEnter, OpenLockFile, ProcessLockLeave, Goto, lockMode
    <2>3. ASSUME NEW h \in Handle, LockFailure(h)
          PROVE  UNCHANGED lockMode
      BY <2>3 DEF LockFailure, ProcessLockRefused, LockFileUnavailable,
                  SetLockFails, Goto, lockMode
    <2>4. ASSUME NEW h \in Handle, SetLockWait(h) PROVE DL!Next
      BY <2>4, WaitMapsToAcquire
    <2>5. ASSUME NEW h \in Handle, CacheLockRelease(h) PROVE DL!Next
      <3>1. lockMode' = [g \in Handle |-> IF g \in {h} THEN "none" ELSE lockMode[g]]
        BY <2>5 DEF CacheLockRelease, Goto, lockMode
      <3> QED
        BY <3>1 DEF DL!Next, DL!Release
    <2>6. ASSUME NEW p \in Proc, LockCrash(p) PROVE DL!Next
      <3> DEFINE S == {g \in Handle : P(g) = p}
      <3>1. lockMode' = [g \in Handle |-> IF g \in S THEN "none" ELSE lockMode[g]]
        BY <2>6 DEF LockCrash, lockMode
      <3> QED
        BY <3>1 DEF DL!Next, DL!Release
    <2>7. CASE UNCHANGED lockVars
      BY <2>7 DEF lockVars, lockMode
    <2> QED
      BY <2>1, <2>2, <2>3, <2>4, <2>5, <2>6, <2>7 DEF LockNext, LockStep
  <1> QED
    BY InitMapsToInit, LockInvInvariant, <1>1, PTL
       DEF LockSpec, ImplementsDirLock, DL!Spec

=============================================================================
