---------------------------- MODULE MCMeshEscrow ----------------------------
(* A small instance of MeshEscrow for TLC. *)
EXTENDS MeshEscrow

CONSTANTS alice, bob, eth, usdc

\* bob is a contract that takes no coin.
BobTakesNoCoin == {<<eth, bob>>}
=============================================================================
