--------------------------- MODULE MCSyncedLedger ---------------------------
(***************************************************************************)
(* Instances of SyncedLedger for TLC: one synced and one manual account,   *)
(* two identities the constraint covers and one it does not, and batches   *)
(* that repeat a key, overlap, and name the same keys in opposite orders.  *)
(***************************************************************************)
EXTENDS SyncedLedger, TLC

CONSTANTS k1, k2, n

MCBatches == {<<k1, k2>>, <<k2, k1>>, <<n, n>>}

Symmetry == Permutations(Tasks) \cup Permutations(Approvals)
=============================================================================
