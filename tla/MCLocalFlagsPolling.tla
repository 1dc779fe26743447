------------------------ MODULE MCLocalFlagsPolling -------------------------
(***************************************************************************)
(* Small instances of LocalFlagsPolling.                                   *)
(***************************************************************************)
EXTENDS LocalFlagsPolling, TLC

Alike == Permutations(Callers) \cup Permutations(Coroutines)
           \cup Permutations(Pollers) \cup Permutations(Tasks)
=============================================================================
