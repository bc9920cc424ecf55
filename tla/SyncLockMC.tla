----------------------------- MODULE SyncLockMC ----------------------------
(* Values for model checking SyncLock.                                      *)
EXTENDS SyncLock, TLC
=============================================================================
