------------------------- MODULE MCRemoteQuestions -------------------------
(* Small instances of RemoteQuestions. *)
EXTENDS RemoteQuestions, TLC

ObserverSymmetry == Permutations(Observers)
=============================================================================
