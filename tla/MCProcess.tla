------------------------------ MODULE MCProcess -----------------------------
(* ServerProcess for TLC: descriptors and engineer threads are alike.      *)
EXTENDS ServerProcess, TLC

MCSymmetry == Permutations(Fd) \cup Permutations(Engineer)
=============================================================================
