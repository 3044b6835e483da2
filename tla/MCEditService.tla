---------------------------- MODULE MCEditService ----------------------------
(* Small instances of EditService for TLC. *)
EXTENDS EditService, TLC

CONSTANTS h1, h2, e1, e2

OneHandler == {h1}
TwoHandlers == {h1, h2}
OneOp == {e1}
TwoOps == {e1, e2}

NoFaults == {}
SpawnFaults == {"spawn"}
ThreadFaults == {"spawn", "panic"}
CrashFaults == {"save", "sync", "panic"}

\* Requests are alike, and so are the operation ids.
OpSymmetry == Permutations(Ops)
Symmetry == Permutations(Handlers) \cup Permutations(Ops)
=============================================================================
