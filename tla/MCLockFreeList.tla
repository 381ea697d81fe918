---------------------------- MODULE MCLockFreeList ----------------------------
(* Small instances of LockFreeList for TLC.                                *)
EXTENDS LockFreeList, TLC

\* Threads are only compared for equality.
ThreadSymmetry == Permutations(Threads)
=============================================================================
