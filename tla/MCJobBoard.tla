----------------------------- MODULE MCJobBoard -----------------------------
(* A small instance of JobBoard for TLC. *)
EXTENDS JobBoard

CONSTANTS alice, bob, carol, eth, usdc

\* bob is a contract that takes no coin.
BobTakesNoCoin == {<<eth, bob>>}
=============================================================================
