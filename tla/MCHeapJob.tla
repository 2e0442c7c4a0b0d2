----------------------------- MODULE MCHeapJob -----------------------------
(***************************************************************************)
(* HeapJob for TLC.  Handlers run the same code, so they are symmetric.    *)
(***************************************************************************)
EXTENDS HeapJobFeed, TLC

Symmetry == Permutations(Requests)
=============================================================================
