--------------------------- MODULE MCEpubService ---------------------------
(* Instances of EpubService for TLC: interchangeable calls.                *)
EXTENDS EpubService, TLC

CallSymmetry == Permutations(Calls)
=============================================================================
