----------------------------- MODULE MeshEscrow -----------------------------
(***************************************************************************)
(* MeshEscrow.sol, and the receipts of jkr-mesh that it settles: a payer   *)
(* locks a deposit for a recipient under a session id and signs receipts   *)
(* for growing cumulative amounts off chain; the recipient settles them,   *)
(* one or a batch at a time; after the deadline the payer takes back what  *)
(* is left.  As in JobBoard, a call is atomic and a reverting one no step. *)
(***************************************************************************)
EXTENDS Funds, Sequences

CONSTANTS
  SessionId,
  NoChannel,    \* the zero entry of the mapping
  Wealth,       \* what every account owns of every token at first
  MaxAmount,    \* bound: deposits; receipts go one above it
  MaxReceipts,  \* bound: receipts issued
  MaxBatch,     \* bound: receipts settled by one claimBatch
  MaxTime       \* bound: the clock, and the deadlines

ASSUME MeshEscrowAssumption ==
  /\ IsFiniteSet(SessionId)   \* bytes32
  /\ {Wealth, MaxAmount, MaxReceipts, MaxBatch, MaxTime} \subseteq Nat

VARIABLES
  channels,   \* the mapping
  receipts,   \* the receipts that exist: who signed, for what
  bank,       \* what everyone owns
  now         \* block.timestamp

vars == <<channels, receipts, bank, now>>

Channel == [payer : Account, recipient : Account, token : Token,
            deposit : Nat, paid : Nat, expiresAt : Nat]
ASSUME NoChannelAssumption == NoChannel \notin Channel

Receipt == [signer : Account, sessionId : SessionId, cumulative : Nat]
Entry == [sessionId : SessionId, cumulative : 1..(MaxAmount + 1)]

TypeOK == /\ channels \in [SessionId -> Channel \cup {NoChannel}]
          /\ receipts \subseteq Receipt
          /\ bank \in Bank
          /\ now \in Nat

Init == /\ channels = [s \in SessionId |-> NoChannel]
        /\ receipts = {}
        /\ bank = [t \in Token |->
                     [h \in Holder |-> IF h = Contract THEN 0 ELSE Wealth]]
        /\ now = 0

-----------------------------------------------------------------------------
Open(s, p, r, t, n, e) ==
  /\ n # 0 /\ e > now
  /\ channels[s] = NoChannel
  /\ CanPayIn(bank, t, p, n)
  /\ bank' = PayIn(bank, t, p, n)
  /\ channels' = [channels EXCEPT ![s] =
       [payer |-> p, recipient |-> r, token |-> t, deposit |-> n,
        paid |-> 0, expiresAt |-> e]]
  /\ UNCHANGED <<receipts, now>>

\* Receipt::issue: nothing ties a receipt to a channel that exists, or to
\* one whose deposit it fits.
Issue(p, s, c) ==
  /\ Cardinality(receipts) < MaxReceipts
  /\ receipts' = receipts \cup {[signer |-> p, sessionId |-> s, cumulative |-> c]}
  /\ UNCHANGED <<channels, bank, now>>

\* Variant: the recovered signer is not compared with the payer.
Settles_AnySigner(a, s, c) ==
  /\ channels[s] # NoChannel
  /\ a = channels[s].recipient
  /\ c > channels[s].paid
  /\ c <= channels[s].deposit
  /\ \E r \in receipts : r.sessionId = s /\ r.cumulative = c

\* What the contract checks of a receipt before it settles it for caller a:
\* the channel's recipient is the caller, the deposit covers it, the payer
\* signed it.
Settles(a, s, c) ==
  /\ channels[s] # NoChannel
  /\ a = channels[s].recipient
  /\ c > channels[s].paid
  /\ c <= channels[s].deposit
  /\ [signer |-> channels[s].payer, sessionId |-> s, cumulative |-> c] \in receipts

\* Variant: the payment is made twice.
Claim_Twice(s, a, c) ==
  /\ Settles(a, s, c)
  /\ channels' = [channels EXCEPT ![s].paid = c]
  /\ CanPayOut(bank, channels[s].token, a, c - channels[s].paid)
  /\ bank' = PayOut(PayOut(bank, channels[s].token, a, c - channels[s].paid),
                    channels[s].token, a, c - channels[s].paid)
  /\ UNCHANGED <<receipts, now>>

Claim(s, a, c) ==
  /\ Settles(a, s, c)
  /\ channels' = [channels EXCEPT ![s].paid = c]
  /\ CanPayOut(bank, channels[s].token, a, c - channels[s].paid)
  /\ bank' = PayOut(bank, channels[s].token, a, c - channels[s].paid)
  /\ UNCHANGED <<receipts, now>>

\* A batch, as the loop leaves it: every entry settles, later entries of a
\* session are for more than the earlier ones, and the caller is paid once
\* for every session, up to its last entry.
Sessions(es) == {es[k].sessionId : k \in DOMAIN es}
Increasing(es) ==
  \A j, k \in DOMAIN es :
    j < k /\ es[j].sessionId = es[k].sessionId => es[j].cumulative < es[k].cumulative

\* last gives the place of each session's last entry.
IsLast(es, last) ==
  \A s \in Sessions(es) :
    /\ es[last[s]].sessionId = s
    /\ \A k \in DOMAIN es : es[k].sessionId = s => k <= last[s]

\* Variant: every entry pays from what was paid before the batch.
Total_PerEntry(es, last, t) ==
  LET Entries == {k \in DOMAIN es : channels[es[k].sessionId].token = t}
  IN SumFunction([k \in Entries |-> es[k].cumulative - channels[es[k].sessionId].paid])

Named(es, t) == {s \in Sessions(es) : channels[s].token = t}
Total(es, last, t) ==
  SumFunction([s \in Named(es, t) |-> es[last[s]].cumulative - channels[s].paid])

\* What a batch leaves behind.
Settled(es, last, a) ==
  /\ channels' = [s \in SessionId |->
       IF s \in Sessions(es) THEN [channels[s] EXCEPT !.paid = es[last[s]].cumulative]
       ELSE channels[s]]
  /\ \A t \in Token : CanPayOut(bank, t, a, Total(es, last, t))
  /\ bank' = [t \in Token |-> PayOut(bank, t, a, Total(es, last, t))[t]]

ClaimBatch(es, a) ==
  /\ \A k \in DOMAIN es : Settles(a, es[k].sessionId, es[k].cumulative)
  /\ Increasing(es)
  /\ \E last \in [Sessions(es) -> DOMAIN es] : IsLast(es, last) /\ Settled(es, last, a)
  /\ UNCHANGED <<receipts, now>>

Left(s) == channels[s].deposit - channels[s].paid

\* Variant: the whole deposit is returned.
Close_Full(s, a) ==
  /\ channels[s] # NoChannel
  /\ a = channels[s].payer
  /\ now >= channels[s].expiresAt
  /\ channels' = [channels EXCEPT ![s] = NoChannel]
  /\ CanPayOut(bank, channels[s].token, a, channels[s].deposit)
  /\ bank' = PayOut(bank, channels[s].token, a, channels[s].deposit)
  /\ UNCHANGED <<receipts, now>>

\* Variant: the deadline is not looked at.
Close_Early(s, a) ==
  /\ channels[s] # NoChannel
  /\ a = channels[s].payer
  /\ channels' = [channels EXCEPT ![s] = NoChannel]
  /\ CanPayOut(bank, channels[s].token, a, Left(s))
  /\ bank' = PayOut(bank, channels[s].token, a, Left(s))
  /\ UNCHANGED <<receipts, now>>

\* Variant: a channel that has paid something is not closed.
Close_Unpaid(s, a) ==
  /\ channels[s] # NoChannel
  /\ a = channels[s].payer
  /\ now >= channels[s].expiresAt
  /\ channels[s].paid = 0
  /\ channels' = [channels EXCEPT ![s] = NoChannel]
  /\ CanPayOut(bank, channels[s].token, a, Left(s))
  /\ bank' = PayOut(bank, channels[s].token, a, Left(s))
  /\ UNCHANGED <<receipts, now>>

Close(s, a) ==
  /\ channels[s] # NoChannel
  /\ a = channels[s].payer
  /\ now >= channels[s].expiresAt
  /\ channels' = [channels EXCEPT ![s] = NoChannel]
  /\ CanPayOut(bank, channels[s].token, a, Left(s))
  /\ bank' = PayOut(bank, channels[s].token, a, Left(s))
  /\ UNCHANGED <<receipts, now>>

\* A block with a later timestamp.
Tick == /\ now < MaxTime
        /\ now' = now + 1
        /\ UNCHANGED <<channels, receipts, bank>>

Batch == UNION {[1..n -> Entry] : n \in 1..MaxBatch}

Next ==
  \/ \E s \in SessionId, p, r \in Account, t \in Token, n \in 0..MaxAmount, e \in 0..MaxTime :
       Open(s, p, r, t, n, e)
  \/ \E p \in Account, s \in SessionId, c \in 1..(MaxAmount + 1) : Issue(p, s, c)
  \/ \E s \in SessionId, a \in Account :
       \/ \E c \in 1..(MaxAmount + 1) : Claim(s, a, c)
       \/ Close(s, a)
  \/ \E es \in Batch, a \in Account : ClaimBatch(es, a)
  \/ Tick

Spec == Init /\ [][Next]_vars

\* Time passes, and a payer takes back what is left once it may.
FairSpec ==
  /\ Spec
  /\ WF_vars(Tick)
  /\ \A s \in SessionId, a \in Account : WF_vars(Close(s, a))

-----------------------------------------------------------------------------
(* Properties.                                                             *)

\* What the contract still holds of token t for session s.
Owed(chs, s, t) ==
  IF chs[s] # NoChannel /\ chs[s].token = t THEN chs[s].deposit - chs[s].paid ELSE 0

\* The contract holds, of every token, exactly what its channels have not
\* paid: the only check of the balance is the transfer's own, in _payOut.
Solvent ==
  \A t \in Token :
    bank[t][Contract] = SumFunction([s \in SessionId |-> Owed(channels, s, t)])

\* A channel never pays more than its deposit, and what it has paid its payer
\* has signed for: "Recipient claims funds against a payer-signed receipt".
Signed(s) ==
  channels[s].paid > 0 =>
    [signer |-> channels[s].payer, sessionId |-> s, cumulative |-> channels[s].paid]
      \in receipts
PaidIsSigned ==
  \A s \in SessionId :
    channels[s] # NoChannel => channels[s].paid <= channels[s].deposit /\ Signed(s)

\* A call that neither opens nor closes a channel pays every account exactly
\* the growth of paid over the channels it is the recipient of: a claim, and
\* a batch that names a session more than once, pay no more and no less.
Of(a, t) == {s \in SessionId : /\ channels[s] # NoChannel
                               /\ channels[s].recipient = a /\ channels[s].token = t}
Growth(a, t) ==
  SumFunction([s \in Of(a, t) |-> channels'[s].paid - channels[s].paid])
SameChannels == \A s \in SessionId : channels[s] = NoChannel <=> channels'[s] = NoChannel
PaysGrowth ==
  SameChannels =>
    \A a \in Account, t \in Token : bank'[t][a] = bank[t][a] + Growth(a, t)
ClaimsPayGrowth == [][PaysGrowth]_vars

\* A receipt the recipient could settle it can still settle, or has settled
\* it or a later one, at least until the channel's deadline.
Receivable(s, c) ==
  /\ channels[s] # NoChannel
  /\ Settles(channels[s].recipient, s, c)
Stands(s, c) ==
  /\ channels'[s] # NoChannel
  /\ channels'[s] = [channels[s] EXCEPT !.paid = channels'[s].paid]
  /\ Receivable(s, c)' \/ channels'[s].paid >= c
ReceiptsStep ==
  \A s \in SessionId, c \in 0..(MaxAmount + 1) :
    Receivable(s, c) /\ now < channels[s].expiresAt => Stands(s, c)
ReceiptsStand == [][ReceiptsStep]_vars

\* "After expiresAt, payer can call close(sessionId) to reclaim any unsettled
\* funds": no deposit stays locked, unless the payer cannot be sent the token.
DepositsReturn ==
  \A s \in SessionId :
    (channels[s] # NoChannel /\ <<channels[s].token, channels[s].payer>> \notin Refused)
    ~> channels[s] = NoChannel
=============================================================================
