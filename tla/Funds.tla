-------------------------------- MODULE Funds --------------------------------
(***************************************************************************)
(* The money the contracts move: what every account and the contract own   *)
(* of every token.  The ERC-20 contracts and the chain's own coin are not  *)
(* part of the repository; they are modelled as safeTransferFrom, value    *)
(* and _payOut use them: a transfer moves its amount in full, or reverts.  *)
(***************************************************************************)
EXTENDS Naturals, FiniteSetsExt

CONSTANTS
  Account,    \* callers of the contracts
  Contract,   \* address(this)
  Token,      \* address(0), the chain's coin, and the ERC-20 contracts
  Refused     \* <<token, account>>: sending this token to the account reverts

ASSUME FundsAssumption ==
  /\ Contract \notin Account
  /\ Refused \subseteq Token \X Account

Holder == Account \cup {Contract}
Bank == [Token -> [Holder -> Nat]]

Covers(bank, t, h, n) == bank[t][h] >= n

\* n of token t goes from one holder to another.
Move(bank, t, from, to, n) ==
  [bank EXCEPT ![t][from] = @ - n, ![t][to] = @ + n]

\* msg.value, or safeTransferFrom(msg.sender, address(this), amount).
CanPayIn(bank, t, a, n) == Covers(bank, t, a, n)
PayIn(bank, t, a, n) == Move(bank, t, a, Contract, n)

\* _payOut: a payment of nothing returns at once, any other that cannot be
\* made reverts the call; so does, before it, an amount that would be negative,
\* amounts being unsigned and their arithmetic checked.
CanPayOut(bank, t, a, n) ==
  /\ n \in Nat
  /\ n = 0 \/ (Covers(bank, t, Contract, n) /\ <<t, a>> \notin Refused)
PayOut(bank, t, a, n) == Move(bank, t, Contract, a, n)
=============================================================================
