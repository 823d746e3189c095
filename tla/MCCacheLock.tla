----------------------------- MODULE MCCacheLock -----------------------------
(***************************************************************************)
(* Layouts of processes, threads and handles on which TLC checks CacheLock. *)
(* A handle is named after its directory: a1, a2, a3 are for A; b1, b2 for  *)
(* B.                                                                       *)
(***************************************************************************)
EXTENDS CacheLock, TLC

CONSTANTS A, B, p1, p2, t1, t2, t3, t4, a1, a2, a3, b1, b2

\* Process p1 has two threads, each with a handle on A; p2 has a third.  The
\* first thread of p1 also has a handle on B.
CrowdedProcOf == t1 :> p1 @@ t2 :> p1 @@ t3 :> p2
CrowdedThreadOf == a1 :> t1 @@ a2 :> t2 @@ a3 :> t3 @@ b1 :> t1
CrowdedDirOf == a1 :> A @@ a2 :> A @@ a3 :> A @@ b1 :> B

\* The same three handles on A alone.
OneDirProcOf == t1 :> p1 @@ t2 :> p1 @@ t3 :> p2
OneDirThreadOf == a1 :> t1 @@ a2 :> t2 @@ a3 :> t3
OneDirDirOf == a1 :> A @@ a2 :> A @@ a3 :> A

\* Two processes with two threads each, every thread with one handle: each
\* process has one handle on A and one on B.
SoleProcOf == t1 :> p1 @@ t2 :> p1 @@ t3 :> p2 @@ t4 :> p2
SoleThreadOf == a1 :> t1 @@ b1 :> t2 @@ a2 :> t3 @@ b2 :> t4
SoleDirOf == a1 :> A @@ b1 :> B @@ a2 :> A @@ b2 :> B

=============================================================================
