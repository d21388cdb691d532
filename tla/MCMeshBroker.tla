---------------------------- MODULE MCMeshBroker ----------------------------
(* Small instances of MeshBroker for TLC. *)
EXTENDS MeshBroker, TLC

CONSTANTS c1, c2, c3

\* c1 sends up to two frames, c2 and c3 only connect, read and close.
OneTalks == [c \in Conn |-> IF c = c1 THEN 2 ELSE 0]

Symmetry == Permutations(Conn \ {c1}) \cup Permutations(Addr)
=============================================================================
