---------------------------- MODULE MCWatcherInv ----------------------------
(* The instances of MCWatcher, with the invariants of the proofs.          *)
EXTENDS MCWatcher, Watcher_proofs
=============================================================================
