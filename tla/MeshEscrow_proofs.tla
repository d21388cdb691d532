-------------------------- MODULE MeshEscrow_proofs --------------------------
(***************************************************************************)
(* What holds of MeshEscrow for every set of accounts, tokens and session  *)
(* ids, and every bound.  TypeOK /\ PaidIsSigned is inductive, and with   *)
(* it Solvent: what the contract holds is the sum of what it has not paid. *)
(***************************************************************************)
EXTENDS MeshEscrow, Funds_proofs

Inv == TypeOK /\ PaidIsSigned

\* An open channel is a channel record.
LEMMA OpenChannel ==
  ASSUME TypeOK, NEW s \in SessionId, channels[s] # NoChannel
  PROVE  channels[s] \in Channel
  BY DEF TypeOK

\* What settling a receipt leaves of its channel is a channel whose payment
\* its payer has signed for.
LEMMA SettlesGrows ==
  ASSUME TypeOK, NEW s \in SessionId, NEW a, NEW c \in Nat, Settles(a, s, c)
  PROVE  LET ch == [channels[s] EXCEPT !.paid = c]
         IN /\ channels[s] \in Channel /\ ch \in Channel /\ ch # NoChannel
            /\ ch.paid = c /\ c > channels[s].paid /\ c <= ch.deposit
            /\ [signer |-> ch.payer, sessionId |-> s, cumulative |-> c] \in receipts
<1>1. channels[s] \in Channel  BY OpenChannel DEF Settles
<1>2. QED  BY <1>1, NoChannelAssumption DEF Settles, Channel

\* What an entry of a batch is.
LEMMA BatchEntry ==
  ASSUME NEW es \in Batch, NEW k \in DOMAIN es
  PROVE  es[k].sessionId \in SessionId /\ es[k].cumulative \in Nat
<1>1. PICK n \in 1..MaxBatch : es \in [1..n -> Entry]  BY DEF Batch
<1>2. es[k] \in Entry  BY <1>1
<1>3. QED  BY <1>2 DEF Entry

\* A batch leaves every session it names as its last entry does, and every
\* other session alone.
LEMMA BatchEffect ==
  ASSUME TypeOK, NEW es \in Batch, NEW a \in Account, ClaimBatch(es, a)
  PROVE  /\ channels' \in [SessionId -> Channel \cup {NoChannel}]
         /\ bank' \in Bank
         /\ \A s \in SessionId :
              \/ channels'[s] = channels[s]
              \/ \E c \in Nat : /\ Settles(a, s, c)
                                /\ channels'[s] = [channels[s] EXCEPT !.paid = c]
<1>1. PICK last \in [Sessions(es) -> DOMAIN es] :
        IsLast(es, last) /\ Settled(es, last, a)
  BY DEF ClaimBatch
<1>2. ASSUME NEW s \in Sessions(es)
      PROVE  /\ s \in SessionId
             /\ es[last[s]].cumulative \in Nat
             /\ Settles(a, s, es[last[s]].cumulative)
  <2>1. last[s] \in DOMAIN es /\ es[last[s]].sessionId = s  BY <1>1 DEF IsLast
  <2>2. QED  BY <2>1, BatchEntry DEF ClaimBatch
<1>3. channels' = [s \in SessionId |->
        IF s \in Sessions(es) THEN [channels[s] EXCEPT !.paid = es[last[s]].cumulative]
        ELSE channels[s]]
  BY <1>1 DEF Settled
<1>4. ASSUME NEW s \in SessionId
      PROVE  \/ channels'[s] = channels[s]
             \/ \E c \in Nat : /\ Settles(a, s, c)
                               /\ channels'[s] = [channels[s] EXCEPT !.paid = c]
  BY <1>2, <1>3
<1>5. ASSUME NEW s \in SessionId PROVE channels'[s] \in Channel \cup {NoChannel}
  <2>1. CASE channels'[s] = channels[s]  BY <2>1 DEF TypeOK
  <2>2. CASE \E c \in Nat : /\ Settles(a, s, c)
                            /\ channels'[s] = [channels[s] EXCEPT !.paid = c]
    <3>1. PICK c \in Nat : /\ Settles(a, s, c)
                           /\ channels'[s] = [channels[s] EXCEPT !.paid = c]
      BY <2>2
    <3>2. [channels[s] EXCEPT !.paid = c] \in Channel  BY <3>1, SettlesGrows
    <3>3. QED  BY <3>1, <3>2
  <2>3. QED  BY <1>4, <2>1, <2>2
<1>6. channels' \in [SessionId -> Channel \cup {NoChannel}]
  <2>1. channels' = [s \in SessionId |-> channels'[s]]  BY <1>3
  <2>2. QED  BY <1>5, <2>1
<1>7. ASSUME NEW t \in Token
      PROVE  PayOut(bank, t, a, Total(es, last, t))[t] \in [Holder -> Nat]
  <2> DEFINE n == Total(es, last, t)
  <2>1. CanPayOut(bank, t, a, n)  BY <1>1 DEF Settled
  <2> HIDE DEF n
  <2>2. n \in Nat /\ bank \in Bank  BY <2>1 DEF CanPayOut, TypeOK
  <2>3. PayOut(bank, t, a, n) \in Bank  BY <2>1, <2>2, PayOutEffect
  <2>4. QED  BY <2>3 DEF Bank, n
<1>8. bank' \in Bank  BY <1>1, <1>7 DEF Settled, Bank
<1>9. QED  BY <1>4, <1>6, <1>8

-----------------------------------------------------------------------------
(* The invariant.                                                          *)

LEMMA InitInv == Init => Inv
<1> SUFFICES ASSUME Init PROVE Inv  OBVIOUS
<1>1. TypeOK  BY MeshEscrowAssumption DEF Init, TypeOK, Bank
<1>2. PaidIsSigned  BY DEF Init, PaidIsSigned
<1>3. QED  BY <1>1, <1>2 DEF Inv

\* PaidIsSigned for one session.
Good(s) == channels[s] # NoChannel => channels[s].paid <= channels[s].deposit /\ Signed(s)

\* A step that leaves a session's channel and every receipt leaves it good.
LEMMA SameGood ==
  ASSUME NEW s, Good(s), channels'[s] = channels[s], receipts \subseteq receipts'
  PROVE  Good(s)'
  BY DEF Good, Signed

\* A step that settles a receipt of a session, or leaves the session, leaves
\* it good.
LEMMA SettledGood ==
  ASSUME Inv, NEW s \in SessionId, NEW a, NEW c \in Nat, Settles(a, s, c),
         channels'[s] = [channels[s] EXCEPT !.paid = c], receipts' = receipts
  PROVE  Good(s)'
<1> DEFINE ch == [channels[s] EXCEPT !.paid = c]
<1>1. /\ ch.paid = c /\ c <= ch.deposit
      /\ [signer |-> ch.payer, sessionId |-> s, cumulative |-> c] \in receipts
  BY SettlesGrows DEF Inv
<1>2. channels'[s] = ch  OBVIOUS
<1> HIDE DEF ch
<1>3. QED  BY <1>1, <1>2 DEF Good, Signed

LEMMA NextInv == Inv /\ [Next]_vars => Inv'
<1> SUFFICES ASSUME Inv, [Next]_vars PROVE Inv'  OBVIOUS
<1>0. TypeOK /\ bank \in Bank /\ \A s \in SessionId : Good(s)
  BY DEF Inv, TypeOK, PaidIsSigned, Good
<1> USE DEF PaidIsSigned
<1>1. ASSUME NEW s \in SessionId, NEW p \in Account, NEW r \in Account, NEW t \in Token,
             NEW n \in 0..MaxAmount, NEW e \in 0..MaxTime, Open(s, p, r, t, n, e)
      PROVE  Inv'
  <2> DEFINE ch == [payer |-> p, recipient |-> r, token |-> t, deposit |-> n,
                    paid |-> 0, expiresAt |-> e]
  <2>1. n \in Nat /\ e \in Nat  BY MeshEscrowAssumption
  <2>2. ch \in Channel /\ ch.paid = 0 /\ 0 <= ch.deposit  BY <2>1 DEF Channel
  <2>3. channels' = [channels EXCEPT ![s] = ch] /\ receipts' = receipts /\ now' = now
    BY <1>1 DEF Open
  <2> HIDE DEF ch
  <2>4. CanPayIn(bank, t, p, n) /\ bank' = PayIn(bank, t, p, n)  BY <1>1 DEF Open
  <2>5. bank' \in Bank  BY <1>0, <2>1, <2>4, PayInEffect
  <2>6. TypeOK'  BY <1>0, <2>2, <2>3, <2>5 DEF TypeOK
  <2>7. ASSUME NEW u \in SessionId PROVE Good(u)'
    <3>1. CASE u = s  BY <1>0, <2>2, <2>3, <3>1 DEF Good, Signed, TypeOK
    <3>2. CASE u # s
      <4>1. channels'[u] = channels[u]  BY <1>0, <2>3, <3>2 DEF TypeOK
      <4>2. QED  BY <1>0, <2>3, <4>1, SameGood
    <3>3. QED  BY <3>1, <3>2
  <2>8. QED  BY <2>6, <2>7 DEF Inv, Good
<1>2. ASSUME NEW p \in Account, NEW s \in SessionId, NEW c \in 1..(MaxAmount + 1),
             Issue(p, s, c)
      PROVE  Inv'
  <2>1. c \in Nat  BY MeshEscrowAssumption
  <2>2. TypeOK'  BY <1>0, <1>2, <2>1 DEF Issue, TypeOK, Receipt
  <2>3. ASSUME NEW u \in SessionId PROVE Good(u)'
    BY <1>0, <1>2, SameGood DEF Issue
  <2>4. QED  BY <2>2, <2>3 DEF Inv, Good
<1>3. ASSUME NEW s \in SessionId, NEW a \in Account, NEW c \in 1..(MaxAmount + 1),
             Claim(s, a, c)
      PROVE  Inv'
  <2> DEFINE ch == [channels[s] EXCEPT !.paid = c]
             t == channels[s].token
             n == c - channels[s].paid
  <2>1. c \in Nat  BY MeshEscrowAssumption
  <2>2. Settles(a, s, c) /\ receipts' = receipts /\ now' = now
    BY <1>3 DEF Claim
  <2>3. ch \in Channel /\ t \in Token
    BY <1>0, <2>1, <2>2, SettlesGrows DEF Channel
  <2>4. channels' = [channels EXCEPT ![s] = ch]  BY <1>3 DEF Claim
  <2>5. CanPayOut(bank, t, a, n) /\ bank' = PayOut(bank, t, a, n)  BY <1>3 DEF Claim
  <2> HIDE DEF ch, n, t
  <2>6. n \in Nat  BY <2>5 DEF CanPayOut
  <2>7. bank' \in Bank  BY <1>0, <2>3, <2>5, <2>6, PayOutEffect
  <2>8. TypeOK'  BY <1>0, <2>2, <2>3, <2>4, <2>7 DEF TypeOK
  <2>9. ASSUME NEW u \in SessionId PROVE Good(u)'
    <3>1. CASE u = s
      <4>1. channels'[s] = [channels[s] EXCEPT !.paid = c]
        BY <1>0, <2>4 DEF TypeOK, ch
      <4>2. QED  BY <2>1, <2>2, <3>1, <4>1, SettledGood
    <3>2. CASE u # s
      <4>1. channels'[u] = channels[u]  BY <1>0, <2>4, <3>2 DEF TypeOK
      <4>2. QED  BY <1>0, <2>2, <4>1, SameGood
    <3>3. QED  BY <3>1, <3>2
  <2>10. QED  BY <2>8, <2>9 DEF Inv, Good
<1>4. ASSUME NEW es \in Batch, NEW a \in Account, ClaimBatch(es, a)
      PROVE  Inv'
  <2>1. /\ channels' \in [SessionId -> Channel \cup {NoChannel}]
        /\ bank' \in Bank
        /\ \A s \in SessionId :
             \/ channels'[s] = channels[s]
             \/ \E c \in Nat : /\ Settles(a, s, c)
                               /\ channels'[s] = [channels[s] EXCEPT !.paid = c]
    BY <1>0, <1>4, BatchEffect
  <2>2. receipts' = receipts /\ now' = now  BY <1>4 DEF ClaimBatch
  <2>3. TypeOK'  BY <1>0, <2>1, <2>2 DEF TypeOK
  <2>4. ASSUME NEW u \in SessionId PROVE Good(u)'
    <3>1. CASE channels'[u] = channels[u]  BY <1>0, <2>2, <3>1, SameGood
    <3>2. CASE channels'[u] # channels[u]
      <4>1. PICK c \in Nat : /\ Settles(a, u, c)
                             /\ channels'[u] = [channels[u] EXCEPT !.paid = c]
        BY <2>1, <3>2
      <4>2. QED  BY <2>2, <4>1, SettledGood
    <3>3. QED  BY <3>1, <3>2
  <2>5. QED  BY <2>3, <2>4 DEF Inv, Good
<1>5. ASSUME NEW s \in SessionId, NEW a \in Account, Close(s, a)
      PROVE  Inv'
  <2> DEFINE t == channels[s].token
             n == Left(s)
  <2>1. channels[s] \in Channel  BY <1>0, <1>5, OpenChannel DEF Close
  <2>2. t \in Token  BY <2>1 DEF Channel
  <2>3. CanPayOut(bank, t, a, n) /\ bank' = PayOut(bank, t, a, n)  BY <1>5 DEF Close
  <2> HIDE DEF n, t
  <2>4. n \in Nat  BY <2>3 DEF CanPayOut
  <2>5. bank' \in Bank  BY <1>0, <2>2, <2>3, <2>4, PayOutEffect
  <2>6. channels' = [channels EXCEPT ![s] = NoChannel] /\ receipts' = receipts /\ now' = now
    BY <1>5 DEF Close
  <2>7. TypeOK'  BY <1>0, <2>5, <2>6 DEF TypeOK
  <2>8. ASSUME NEW u \in SessionId PROVE Good(u)'
    <3>1. CASE u = s  BY <1>0, <2>6, <3>1 DEF Good, TypeOK
    <3>2. CASE u # s
      <4>1. channels'[u] = channels[u]  BY <1>0, <2>6, <3>2 DEF TypeOK
      <4>2. QED  BY <1>0, <2>6, <4>1, SameGood
    <3>3. QED  BY <3>1, <3>2
  <2>9. QED  BY <2>7, <2>8 DEF Inv, Good
<1>6. CASE Tick \/ UNCHANGED vars
  <2>1. channels' = channels /\ receipts' = receipts /\ bank' = bank /\ now' \in Nat
    BY <1>0, <1>6 DEF Tick, vars, TypeOK
  <2>2. TypeOK'  BY <1>0, <2>1 DEF TypeOK
  <2>3. ASSUME NEW u \in SessionId PROVE Good(u)'  BY <1>0, <2>1, SameGood
  <2>4. QED  BY <2>2, <2>3 DEF Inv, Good
<1>7. QED  BY <1>1, <1>2, <1>3, <1>4, <1>5, <1>6 DEF Next

LEMMA InvAlways == Spec => []Inv
<1>1. QED  BY InitInv, NextInv, PTL DEF Spec

\* open to close: in every reachable state the channels, the receipts, the
\* funds and the clock are well typed; no balance is taken below nothing.
THEOREM TypeCorrect == Spec => []TypeOK
<1>1. Inv => TypeOK  BY DEF Inv
<1>2. QED  BY <1>1, InvAlways, PTL

\* claim and claimBatch: whatever a channel has paid is within its deposit
\* and signed for by its payer.
THEOREM PaidCorrect == Spec => []PaidIsSigned
<1>1. Inv => PaidIsSigned  BY DEF Inv
<1>2. QED  BY <1>1, InvAlways, PTL

-----------------------------------------------------------------------------
(* Receipts stand until the deadline.                                      *)

\* A receipt stands when its channel and the receipts are left alone.
LEMMA SameStands ==
  ASSUME TypeOK, NEW s \in SessionId, NEW c, Receivable(s, c),
         channels'[s] = channels[s], receipts \subseteq receipts'
  PROVE  Stands(s, c)
<1>1. channels[s] \in Channel  BY OpenChannel DEF Receivable
<1>2. channels[s] = [channels[s] EXCEPT !.paid = channels[s].paid]  BY <1>1 DEF Channel
<1>3. Receivable(s, c)'  BY DEF Receivable, Settles
<1>4. QED  BY <1>2, <1>3 DEF Stands, Receivable

\* It stands, or is superseded, when another receipt of its channel is settled.
LEMMA SettledStands ==
  ASSUME TypeOK, NEW s \in SessionId, NEW c \in Nat, Receivable(s, c), NEW a,
         NEW d \in Nat, Settles(a, s, d),
         channels'[s] = [channels[s] EXCEPT !.paid = d], receipts' = receipts
  PROVE  Stands(s, c)
<1> DEFINE ch == [channels[s] EXCEPT !.paid = d]
<1>1. channels[s] \in Channel /\ ch \in Channel /\ ch # NoChannel /\ ch.paid = d
  BY SettlesGrows
<1>2. channels'[s] = [channels[s] EXCEPT !.paid = channels'[s].paid]
  BY <1>1
<1>3. CASE d >= c  BY <1>1, <1>2, <1>3 DEF Stands
<1>4. CASE c > d
  <2>1. /\ ch.recipient = channels[s].recipient /\ ch.deposit = channels[s].deposit
        /\ ch.payer = channels[s].payer
    BY <1>1 DEF Channel
  <2>2. channels'[s] = ch  OBVIOUS
  <2> HIDE DEF ch
  <2>3. Receivable(s, c)'  BY <1>1, <1>4, <2>1, <2>2 DEF Receivable, Settles
  <2>4. QED  BY <1>1, <1>2, <2>2, <2>3 DEF Stands
<1>5. QED  BY <1>3, <1>4

LEMMA NextStands == Inv /\ [Next]_vars => [ReceiptsStep]_vars
<1> SUFFICES ASSUME Inv, Next, NEW s \in SessionId, NEW c \in 0..(MaxAmount + 1),
                    Receivable(s, c), now < channels[s].expiresAt
             PROVE  Stands(s, c)
  BY DEF ReceiptsStep
<1>0. TypeOK /\ channels \in [SessionId -> Channel \cup {NoChannel}]
      /\ channels[s] # NoChannel /\ channels[s] \in Channel /\ c \in Nat /\ now \in Nat
  BY OpenChannel, MeshEscrowAssumption DEF Inv, TypeOK, Receivable
<1>1. ASSUME NEW u \in SessionId, NEW p \in Account, NEW r \in Account, NEW t \in Token,
             NEW n \in 0..MaxAmount, NEW e \in 0..MaxTime, Open(u, p, r, t, n, e)
      PROVE  Stands(s, c)
  <2>1. u # s /\ receipts' = receipts  BY <1>0, <1>1 DEF Open
  <2>2. channels'[s] = channels[s]  BY <1>0, <1>1, <2>1 DEF Open
  <2>3. QED  BY <1>0, <2>1, <2>2, SameStands
<1>2. ASSUME NEW p \in Account, NEW u \in SessionId, NEW d \in 1..(MaxAmount + 1),
             Issue(p, u, d)
      PROVE  Stands(s, c)
  BY <1>0, <1>2, SameStands DEF Issue
<1>3. ASSUME NEW u \in SessionId, NEW a \in Account, NEW d \in 1..(MaxAmount + 1),
             Claim(u, a, d)
      PROVE  Stands(s, c)
  <2>1. d \in Nat /\ Settles(a, u, d) /\ receipts' = receipts
    BY <1>3, MeshEscrowAssumption DEF Claim
  <2>2. CASE u = s
    <3>1. channels'[s] = [channels[s] EXCEPT !.paid = d]
      BY <1>0, <1>3, <2>2 DEF Claim
    <3>2. QED  BY <1>0, <2>1, <2>2, <3>1, SettledStands
  <2>3. CASE u # s
    <3>1. channels'[s] = channels[s]  BY <1>0, <1>3, <2>3 DEF Claim
    <3>2. QED  BY <1>0, <2>1, <3>1, SameStands
  <2>4. QED  BY <2>2, <2>3
<1>4. ASSUME NEW es \in Batch, NEW a \in Account, ClaimBatch(es, a)
      PROVE  Stands(s, c)
  <2>1. receipts' = receipts  BY <1>4 DEF ClaimBatch
  <2>2. CASE channels'[s] = channels[s]  BY <1>0, <2>1, <2>2, SameStands
  <2>3. CASE channels'[s] # channels[s]
    <3>1. PICK d \in Nat : /\ Settles(a, s, d)
                           /\ channels'[s] = [channels[s] EXCEPT !.paid = d]
      BY <1>0, <1>4, <2>3, BatchEffect
    <3>2. QED  BY <1>0, <2>1, <3>1, SettledStands
  <2>4. QED  BY <2>2, <2>3
<1>5. ASSUME NEW u \in SessionId, NEW a \in Account, Close(u, a)
      PROVE  Stands(s, c)
  <2>1. u # s  BY <1>0, <1>5 DEF Close, Channel
  <2>2. channels'[s] = channels[s] /\ receipts' = receipts  BY <1>0, <1>5, <2>1 DEF Close
  <2>3. QED  BY <1>0, <2>2, SameStands
<1>6. CASE Tick  BY <1>0, <1>6, SameStands DEF Tick
<1>7. QED  BY <1>1, <1>2, <1>3, <1>4, <1>5, <1>6 DEF Next

\* Until its channel's deadline a receipt the recipient could settle can be
\* settled, or is superseded by a settled one for as much: no step of the
\* payer, of another session, or of a batch takes it away.
THEOREM ReceiptsCorrect == Spec => ReceiptsStand
<1>1. QED  BY InvAlways, NextStands, PTL DEF Spec, ReceiptsStand

-----------------------------------------------------------------------------
(* The contract is solvent, and a claim pays what its channels have grown. *)

\* What a batch by a has settled and paid, with the last entry of every session.
BatchDone(es, last, a) ==
  /\ \A s \in Sessions(es) :
       /\ s \in SessionId /\ channels[s] \in Channel /\ channels[s].recipient = a
       /\ es[last[s]].cumulative \in Nat
       /\ channels'[s] = [channels[s] EXCEPT !.paid = es[last[s]].cumulative]
       /\ channels'[s] # NoChannel
  /\ \A s \in SessionId \ Sessions(es) : channels'[s] = channels[s]
  /\ \A t \in Token :
       /\ Total(es, last, t) \in Nat
       /\ bank'[t][Contract] + Total(es, last, t) = bank[t][Contract]
       /\ bank'[t][a] = bank[t][a] + Total(es, last, t)
       /\ \A b \in Account \ {a} : bank'[t][b] = bank[t][b]

LEMMA BatchPays ==
  ASSUME TypeOK, NEW es \in Batch, NEW a \in Account, ClaimBatch(es, a)
  PROVE  \E last : BatchDone(es, last, a)
<1>0. PICK last \in [Sessions(es) -> DOMAIN es] :
        IsLast(es, last) /\ Settled(es, last, a)
  BY DEF ClaimBatch
<1>1. ASSUME NEW s \in Sessions(es)
      PROVE  /\ s \in SessionId
             /\ es[last[s]].cumulative \in Nat
             /\ Settles(a, s, es[last[s]].cumulative)
  <2>1. last[s] \in DOMAIN es /\ es[last[s]].sessionId = s  BY <1>0 DEF IsLast
  <2>2. QED  BY <2>1, BatchEntry DEF ClaimBatch
<1>2. channels' = [s \in SessionId |->
        IF s \in Sessions(es) THEN [channels[s] EXCEPT !.paid = es[last[s]].cumulative]
        ELSE channels[s]]
  BY <1>0 DEF Settled
<1>3. ASSUME NEW s \in Sessions(es)
      PROVE  /\ s \in SessionId /\ channels[s] \in Channel /\ channels[s].recipient = a
             /\ es[last[s]].cumulative \in Nat
             /\ channels'[s] = [channels[s] EXCEPT !.paid = es[last[s]].cumulative]
             /\ channels'[s] # NoChannel
  <2>1. channels[s].recipient = a  BY <1>1 DEF Settles
  <2>2. QED  BY <1>1, <1>2, <2>1, SettlesGrows
<1>4. \A s \in SessionId \ Sessions(es) : channels'[s] = channels[s]  BY <1>2
<1>5. ASSUME NEW t \in Token
      PROVE  /\ Total(es, last, t) \in Nat
             /\ bank'[t][Contract] + Total(es, last, t) = bank[t][Contract]
             /\ bank'[t][a] = bank[t][a] + Total(es, last, t)
             /\ \A b \in Account \ {a} : bank'[t][b] = bank[t][b]
  <2> DEFINE n == Total(es, last, t)
  <2>1. CanPayOut(bank, t, a, n) /\ bank'[t] = PayOut(bank, t, a, n)[t]
    BY <1>0 DEF Settled
  <2> HIDE DEF n
  <2>2. n \in Nat /\ bank \in Bank  BY <2>1 DEF CanPayOut, TypeOK
  <2>3. /\ PayOut(bank, t, a, n)[t][Contract] + n = bank[t][Contract]
        /\ PayOut(bank, t, a, n)[t][a] = bank[t][a] + n
        /\ \A b \in Account : b # a => PayOut(bank, t, a, n)[t][b] = bank[t][b]
    BY <2>1, <2>2, PayOutEffect
  <2>4. /\ bank'[t][Contract] + n = bank[t][Contract]
        /\ bank'[t][a] = bank[t][a] + n
        /\ \A b \in Account \ {a} : bank'[t][b] = bank[t][b]
    BY <2>1, <2>3
  <2>5. QED  BY <2>2, <2>4 DEF n
<1>6. QED  BY <1>3, <1>4, <1>5 DEF BatchDone

\* What the contract owes of a token, session by session, and in all.
Owing(chs, t) == [s \in SessionId |-> Owed(chs, s, t)]
Balanced(t) == bank[t][Contract] = SumFunctionOnSet(Owing(channels, t), SessionId)

LEMMA SolventBalanced ==
  /\ Solvent <=> \A t \in Token : Balanced(t)
  /\ Solvent' <=> \A t \in Token : Balanced(t)'
  BY DEF Solvent, Balanced, Owing, SumFunction

\* What a session is owed is an integer.
LEMMA OwedType ==
  ASSUME NEW chs \in [SessionId -> Channel \cup {NoChannel}], NEW s \in SessionId, NEW t
  PROVE  Owed(chs, s, t) \in Int
<1>1. chs[s] # NoChannel => chs[s].deposit \in Nat /\ chs[s].paid \in Nat  BY DEF Channel
<1>2. QED  BY <1>1 DEF Owed

\* Two amounts that are equal stay equal when they change by as much.
LEMMA EqualChange ==
  ASSUME NEW b, NEW c, NEW f, NEW h \in Int, NEW x \in Int, NEW y \in Int,
         b = h, c \in Int, f \in Int, f + x = h + y, c + x = b + y
  PROVE  c = f
OBVIOUS

\* A step that changes one channel, and moves the change in what it is owed.
LEMMA OneBalanced ==
  ASSUME TypeOK, TypeOK', NEW t \in Token, Balanced(t), NEW s \in SessionId,
         \A u \in SessionId \ {s} : channels'[u] = channels[u],
         bank'[t][Contract] + Owed(channels, s, t) = bank[t][Contract] + Owed(channels', s, t)
  PROVE  Balanced(t)'
<1> DEFINE f == Owing(channels', t)
           h == Owing(channels, t)
<1>1. /\ \A u \in SessionId : f[u] = Owed(channels', u, t) /\ h[u] = Owed(channels, u, t)
      /\ \A u \in SessionId : f[u] \in Int /\ h[u] \in Int
  BY OwedType DEF Owing, TypeOK
<1>2. \A u \in SessionId \ {s} : f[u] = h[u]  BY <1>1 DEF Owed
<1> HIDE DEF f, h
<1>3. /\ SumFunctionOnSet(f, SessionId) + h[s] = SumFunctionOnSet(h, SessionId) + f[s]
      /\ SumFunctionOnSet(f, SessionId) \in Int /\ SumFunctionOnSet(h, SessionId) \in Int
  BY <1>1, <1>2, SumDiffers, MeshEscrowAssumption
<1>4. bank[t][Contract] = SumFunctionOnSet(h, SessionId)  BY DEF Balanced, h
<1>5. bank'[t][Contract] \in Int  BY DEF TypeOK, Bank, Holder
<1>6. bank'[t][Contract] + h[s] = bank[t][Contract] + f[s]  BY <1>1
<1>7. h[s] \in Int /\ f[s] \in Int  BY <1>1
<1>8. bank'[t][Contract] = SumFunctionOnSet(f, SessionId)
  BY <1>3, <1>4, <1>5, <1>6, <1>7, EqualChange
<1>9. QED  BY <1>8 DEF Balanced, f

\* A batch.
LEMMA BatchBalanced ==
  ASSUME TypeOK, TypeOK', NEW t \in Token, Balanced(t),
         NEW es \in Batch, NEW a \in Account, ClaimBatch(es, a)
  PROVE  Balanced(t)'
<1>1. PICK last : BatchDone(es, last, a)  BY BatchPays
<1>2. /\ \A s \in Sessions(es) :
           /\ s \in SessionId /\ channels[s] \in Channel
           /\ es[last[s]].cumulative \in Nat
           /\ channels'[s] = [channels[s] EXCEPT !.paid = es[last[s]].cumulative]
           /\ channels'[s] # NoChannel
      /\ \A s \in SessionId \ Sessions(es) : channels'[s] = channels[s]
      /\ bank'[t][Contract] + Total(es, last, t) = bank[t][Contract]
  BY <1>1 DEF BatchDone
<1> DEFINE N == Named(es, t)
           f == Owing(channels', t)
           h == Owing(channels, t)
           d == [s \in N |-> es[last[s]].cumulative - channels[s].paid]
<1>3. /\ \A u \in SessionId : f[u] = Owed(channels', u, t) /\ h[u] = Owed(channels, u, t)
      /\ \A u \in SessionId : f[u] \in Int /\ h[u] \in Int
  BY OwedType DEF Owing, TypeOK
<1>4. N \subseteq Sessions(es) /\ N \subseteq SessionId  BY <1>2 DEF Named
<1>5. ASSUME NEW s \in N PROVE d[s] \in Int /\ h[s] = f[s] + d[s]
  <2>1. /\ channels[s] \in Channel /\ channels[s].token = t
        /\ es[last[s]].cumulative \in Nat
        /\ channels'[s] = [channels[s] EXCEPT !.paid = es[last[s]].cumulative]
        /\ channels'[s] # NoChannel /\ channels[s] # NoChannel
    BY <1>2, <1>4, NoChannelAssumption DEF Named
  <2>2. d[s] = es[last[s]].cumulative - channels[s].paid  OBVIOUS
  <2>3. channels[s].deposit \in Nat /\ channels[s].paid \in Nat  BY <2>1 DEF Channel
  <2>4. h[s] = channels[s].deposit - channels[s].paid  BY <1>3, <1>4, <2>1 DEF Owed
  <2>5. /\ channels'[s].token = t /\ channels'[s].deposit = channels[s].deposit
        /\ channels'[s].paid = es[last[s]].cumulative
    BY <2>1 DEF Channel
  <2>6. f[s] = channels[s].deposit - es[last[s]].cumulative
    BY <1>3, <1>4, <2>1, <2>5 DEF Owed
  <2> HIDE DEF d, f, h
  <2>7. QED  BY <2>1, <2>2, <2>3, <2>4, <2>6
<1>6. ASSUME NEW s \in SessionId \ N PROVE h[s] = f[s]
  <2>1. CASE s \notin Sessions(es)
    <3>1. channels'[s] = channels[s]  BY <1>2, <2>1
    <3>2. QED  BY <1>3, <3>1 DEF Owed
  <2>2. CASE s \in Sessions(es)
    <3>1. channels[s] \in Channel /\ channels[s].token # t  BY <1>2, <1>6, <2>2 DEF Named
    <3>2. channels'[s].token # t  BY <1>2, <2>2, <3>1 DEF Channel
    <3>3. QED  BY <1>3, <3>1, <3>2 DEF Owed
  <2>3. QED  BY <2>1, <2>2
<1>7. SumFunctionOnSet(d, N) = Total(es, last, t)  BY DEF Total, SumFunction
<1> HIDE DEF f, h, d, N
<1>8. IsMore(h, f, d, SessionId, N)  BY <1>3, <1>4, <1>5, <1>6 DEF IsMore
<1>9. /\ SumFunctionOnSet(h, SessionId) =
           SumFunctionOnSet(f, SessionId) + SumFunctionOnSet(d, N)
      /\ SumFunctionOnSet(f, SessionId) \in Int /\ SumFunctionOnSet(d, N) \in Int
  BY <1>8, SumMore, MeshEscrowAssumption
<1>10. bank[t][Contract] = SumFunctionOnSet(h, SessionId)  BY DEF Balanced, h
<1>11. bank'[t][Contract] \in Nat  BY DEF TypeOK, Bank, Holder
<1>12. bank'[t][Contract] = SumFunctionOnSet(f, SessionId)
  BY <1>2, <1>7, <1>9, <1>10, <1>11
<1>13. QED  BY <1>12 DEF Balanced, f

LEMMA InitSolvent == Init => Solvent
<1> SUFFICES ASSUME Init, NEW t \in Token PROVE Balanced(t)  BY SolventBalanced
<1>1. bank[t][Contract] = 0  BY DEF Init, Holder
<1>2. \A s \in SessionId : Owing(channels, t)[s] = 0  BY DEF Init, Owing, Owed
<1>3. SumFunctionOnSet(Owing(channels, t), SessionId) = 0
  BY <1>2, SumZero, MeshEscrowAssumption
<1>4. QED  BY <1>1, <1>3 DEF Balanced

LEMMA NextSolvent == Inv /\ Solvent /\ [Next]_vars => Solvent'
<1> SUFFICES ASSUME Inv, Solvent, [Next]_vars, NEW t \in Token PROVE Balanced(t)'
  BY SolventBalanced
<1>0. TypeOK /\ TypeOK' /\ bank \in Bank /\ Balanced(t)
  BY NextInv, SolventBalanced DEF Inv, TypeOK
<1>a. channels \in [SessionId -> Channel \cup {NoChannel}] /\ bank[t][Contract] \in Nat
  BY <1>0 DEF TypeOK, Bank, Holder
<1>1. ASSUME NEW s \in SessionId, NEW p \in Account, NEW r \in Account, NEW u \in Token,
             NEW n \in 0..MaxAmount, NEW e \in 0..MaxTime, Open(s, p, r, u, n, e)
      PROVE  Balanced(t)'
  <2> DEFINE ch == [payer |-> p, recipient |-> r, token |-> u, deposit |-> n,
                    paid |-> 0, expiresAt |-> e]
  <2>1. n \in Nat /\ e \in Nat  BY MeshEscrowAssumption
  <2>2. ch \in Channel /\ ch # NoChannel  BY <2>1, NoChannelAssumption DEF Channel
  <2>3. channels' = [channels EXCEPT ![s] = ch] /\ channels[s] = NoChannel
    BY <1>1 DEF Open
  <2>4. ch.token = u /\ ch.deposit = n /\ ch.paid = 0  OBVIOUS
  <2> HIDE DEF ch
  <2>5. channels'[s] = ch /\ \A v \in SessionId \ {s} : channels'[v] = channels[v]
    BY <1>a, <2>3
  <2>6. CanPayIn(bank, u, p, n) /\ bank' = PayIn(bank, u, p, n)  BY <1>1 DEF Open
  <2>7. bank'[t][Contract] = bank[t][Contract] + (IF t = u THEN n ELSE 0)
    BY <1>0, <1>a, <2>1, <2>6, PayInEffect
  <2>8. Owed(channels, s, t) = 0  BY <2>3 DEF Owed
  <2>9. Owed(channels', s, t) = IF t = u THEN n ELSE 0
    BY <2>1, <2>2, <2>4, <2>5 DEF Owed
  <2>10. bank'[t][Contract] + Owed(channels, s, t) = bank[t][Contract] + Owed(channels', s, t)
    BY <1>a, <2>1, <2>7, <2>8, <2>9
  <2>11. QED  BY <1>0, <2>5, <2>10, OneBalanced
<1>2. ASSUME NEW s \in SessionId, NEW a \in Account, NEW c \in 1..(MaxAmount + 1),
             Claim(s, a, c)
      PROVE  Balanced(t)'
  <2> DEFINE ch == [channels[s] EXCEPT !.paid = c]
             u == channels[s].token
             n == c - channels[s].paid
  <2>1. c \in Nat  BY MeshEscrowAssumption
  <2>2. Settles(a, s, c)  BY <1>2 DEF Claim
  <2>3. channels[s] \in Channel /\ channels[s] # NoChannel /\ ch # NoChannel
    BY <1>0, <2>1, <2>2, SettlesGrows DEF Settles
  <2>4. /\ ch.token = u /\ ch.deposit = channels[s].deposit /\ ch.paid = c
        /\ u \in Token /\ channels[s].deposit \in Nat /\ channels[s].paid \in Nat
    BY <2>3 DEF Channel
  <2>5. channels' = [channels EXCEPT ![s] = ch]  BY <1>2 DEF Claim
  <2> HIDE DEF ch
  <2>6. channels'[s] = ch /\ \A v \in SessionId \ {s} : channels'[v] = channels[v]
    BY <1>a, <2>5
  <2>7. CanPayOut(bank, u, a, n) /\ bank' = PayOut(bank, u, a, n)  BY <1>2 DEF Claim
  <2> DEFINE o == Owed(channels, s, t)
             q == Owed(channels', s, t)
  <2>8. o = IF t = u THEN channels[s].deposit - channels[s].paid ELSE 0
    BY <2>3 DEF Owed
  <2>9. q = IF t = u THEN channels[s].deposit - c ELSE 0
    BY <2>3, <2>4, <2>6 DEF Owed
  <2>10. n \in Nat  BY <2>7 DEF CanPayOut
  <2>11. bank'[t][Contract] + (IF t = u THEN n ELSE 0) = bank[t][Contract]
    <3> HIDE DEF n
    <3>1. /\ bank'[u][Contract] + n = bank[u][Contract]
          /\ \A v \in Token \ {u} : bank'[v][Contract] = bank[v][Contract]
      BY <1>0, <2>4, <2>7, <2>10, PayOutEffect
    <3>2. QED  BY <1>a, <3>1
  <2>12. bank'[t][Contract] \in Nat  BY <1>0 DEF TypeOK, Bank, Holder
  <2> HIDE DEF o, q
  <2>13. bank'[t][Contract] + o = bank[t][Contract] + q
    BY <1>a, <2>1, <2>4, <2>8, <2>9, <2>11, <2>12
  <2>14. QED  BY <1>0, <2>6, <2>13, OneBalanced DEF o, q
<1>3. ASSUME NEW s \in SessionId, NEW a \in Account, Close(s, a)
      PROVE  Balanced(t)'
  <2> DEFINE u == channels[s].token
             n == Left(s)
  <2>1. channels[s] \in Channel /\ channels[s] # NoChannel  BY <1>0, <1>3, OpenChannel DEF Close
  <2>2. u \in Token  BY <2>1 DEF Channel
  <2>3. CanPayOut(bank, u, a, n) /\ bank' = PayOut(bank, u, a, n)  BY <1>3 DEF Close
  <2>4. channels'[s] = NoChannel /\ \A v \in SessionId \ {s} : channels'[v] = channels[v]
    BY <1>a, <1>3 DEF Close
  <2>5. Owed(channels, s, t) = IF t = u THEN n ELSE 0  BY <2>1 DEF Owed, Left
  <2>6. Owed(channels', s, t) = 0  BY <2>4 DEF Owed
  <2> HIDE DEF n, u
  <2>7. n \in Nat  BY <2>3 DEF CanPayOut
  <2>8. bank'[t][Contract] + (IF t = u THEN n ELSE 0) = bank[t][Contract] + 0
    BY <1>0, <1>a, <2>2, <2>3, <2>7, PayOutEffect
  <2>9. QED  BY <1>0, <2>4, <2>5, <2>6, <2>8, OneBalanced
<1>4. ASSUME NEW es \in Batch, NEW a \in Account, ClaimBatch(es, a)
      PROVE  Balanced(t)'
  BY <1>0, <1>4, BatchBalanced
<1>5. ASSUME channels' = channels, bank' = bank PROVE Balanced(t)'
  BY <1>0, <1>5 DEF Balanced, Owing, Owed
<1>6. QED
  BY <1>1, <1>2, <1>3, <1>4, <1>5 DEF Next, Issue, Tick, vars

\* open to close: in every reachable state the contract holds, of every
\* token, exactly what its open channels have not paid.
THEOREM SolventAlways == Spec => []Solvent
<1>1. QED  BY InitInv, NextInv, InitSolvent, NextSolvent, PTL DEF Spec

\* What one channel has grown by in a step.
Grown(a, t) == [s \in Of(a, t) |-> channels'[s].paid - channels[s].paid]

\* The channels of a recipient are finitely many.
LEMMA OfFinite ==
  ASSUME NEW a, NEW t
  PROVE  Of(a, t) \subseteq SessionId /\ IsFiniteSet(Of(a, t))
<1>1. Of(a, t) \subseteq SessionId  BY DEF Of
<1>2. QED  BY <1>1, FS_Subset, MeshEscrowAssumption

\* Nothing grows in a step that leaves the channels of a recipient alone.
LEMMA NoGrowth ==
  ASSUME TypeOK, NEW a, NEW t, \A s \in Of(a, t) : channels'[s] = channels[s]
  PROVE  Growth(a, t) = 0
<1>1. ASSUME NEW s \in Of(a, t) PROVE Grown(a, t)[s] = 0
  <2>1. channels[s] \in Channel  BY OpenChannel DEF Of
  <2>2. channels[s].paid \in Nat  BY <2>1 DEF Channel
  <2>3. QED  BY <2>2 DEF Grown
<1>2. SumFunctionOnSet(Grown(a, t), Of(a, t)) = 0  BY <1>1, OfFinite, SumZero
<1>3. QED  BY <1>2 DEF Growth, Grown, SumFunction

\* A claim.
LEMMA ClaimGrowth ==
  ASSUME TypeOK, NEW s \in SessionId, NEW a \in Account, NEW c \in Nat, Claim(s, a, c),
         NEW b \in Account, NEW t \in Token
  PROVE  bank'[t][b] = bank[t][b] + Growth(b, t)
<1> DEFINE u == channels[s].token
           n == c - channels[s].paid
<1>1. /\ Settles(a, s, c) /\ channels' = [channels EXCEPT ![s].paid = c]
      /\ CanPayOut(bank, u, a, n) /\ bank' = PayOut(bank, u, a, n)
  BY DEF Claim
<1>2. channels[s] \in Channel /\ channels[s] # NoChannel /\ channels[s].recipient = a
  BY <1>1, SettlesGrows DEF Settles
<1>3. u \in Token /\ channels[s].paid \in Nat /\ n \in Nat
  BY <1>1, <1>2 DEF Channel, CanPayOut
<1>4. /\ \A v \in SessionId \ {s} : channels'[v] = channels[v]
      /\ channels'[s].paid = c
  BY <1>1, <1>2 DEF TypeOK, Channel
<1>5. bank[t][b] \in Nat  BY DEF TypeOK, Bank, Holder
<1>6. CASE b = a /\ t = u
  <2> DEFINE g == Grown(a, u)
             d == [v \in {s} |-> n]
  <2>1. s \in Of(a, u)  BY <1>2 DEF Of
  <2>2. ASSUME NEW v \in Of(a, u) \ {s} PROVE g[v] = 0
    <3>1. channels[v] \in Channel /\ channels'[v] = channels[v]
      BY <1>4, OfFinite, OpenChannel DEF Of
    <3>2. channels[v].paid \in Nat  BY <3>1 DEF Channel
    <3>3. QED  BY <3>1, <3>2 DEF Grown
  <2>3. g[s] = n /\ d[s] = n  BY <1>4, <2>1 DEF Grown
  <2> HIDE DEF g, d, n
  <2>4. SumFunctionOnSet(g, Of(a, u)) = SumFunctionOnSet(d, {s})
    <3>1. IsFiniteSet(Of(a, u)) /\ {s} \subseteq Of(a, u)  BY <2>1, OfFinite
    <3>2. \A v \in {s} : d[v] \in Int /\ g[v] = d[v]  BY <1>3, <2>3
    <3>3. QED  BY <2>2, <3>1, <3>2, SumWithin
  <2>5. SumFunctionOnSet(d, {s}) = n  BY <1>3, <2>3, SumSingle
  <2>6. Growth(a, u) = n  BY <2>4, <2>5 DEF Growth, Grown, SumFunction, g
  <2>7. bank'[u][a] = bank[u][a] + n  BY <1>1, <1>3, PayOutEffect DEF TypeOK
  <2>8. QED  BY <1>6, <2>6, <2>7
<1>7. CASE b # a \/ t # u
  <2>1. \A v \in Of(b, t) : v # s  BY <1>2, <1>7 DEF Of
  <2>2. Growth(b, t) = 0  BY <1>4, <2>1, OfFinite, NoGrowth
  <2> HIDE DEF u, n
  <2>3. bank'[t][b] = bank[t][b]  BY <1>1, <1>3, <1>7, PayOutEffect DEF TypeOK
  <2>4. QED  BY <1>5, <2>2, <2>3
<1>8. QED  BY <1>6, <1>7

\* A batch.
LEMMA BatchGrowth ==
  ASSUME TypeOK, NEW es \in Batch, NEW a \in Account, ClaimBatch(es, a),
         NEW b \in Account, NEW t \in Token
  PROVE  bank'[t][b] = bank[t][b] + Growth(b, t)
<1>1. PICK last : BatchDone(es, last, a)  BY BatchPays
<1>2. \A s \in Sessions(es) :
        /\ s \in SessionId /\ channels[s] \in Channel /\ channels[s].recipient = a
        /\ es[last[s]].cumulative \in Nat
        /\ channels'[s] = [channels[s] EXCEPT !.paid = es[last[s]].cumulative]
  BY <1>1 DEF BatchDone
<1>3. \A s \in SessionId \ Sessions(es) : channels'[s] = channels[s]
  BY <1>1 DEF BatchDone
<1>4. /\ bank'[t][a] = bank[t][a] + Total(es, last, t)
      /\ \A c \in Account \ {a} : bank'[t][c] = bank[t][c]
  BY <1>1 DEF BatchDone
<1>5. bank[t][b] \in Nat  BY DEF TypeOK, Bank, Holder
<1>6. CASE b = a
  <2> DEFINE N == Named(es, t)
             g == Grown(a, t)
             d == [s \in N |-> es[last[s]].cumulative - channels[s].paid]
  <2>1. N \subseteq Of(a, t)
    BY <1>2, NoChannelAssumption DEF Named, Of
  <2>2. ASSUME NEW s \in N PROVE d[s] \in Int /\ g[s] = d[s]
    <3>1. /\ channels[s] \in Channel /\ es[last[s]].cumulative \in Nat
          /\ channels'[s] = [channels[s] EXCEPT !.paid = es[last[s]].cumulative]
      BY <1>2 DEF Named
    <3>2. channels[s].paid \in Nat /\ channels'[s].paid = es[last[s]].cumulative
      BY <3>1 DEF Channel
    <3>3. g[s] = channels'[s].paid - channels[s].paid  BY <2>1 DEF Grown
    <3>4. QED  BY <3>1, <3>2, <3>3
  <2>3. ASSUME NEW s \in Of(a, t) \ N PROVE g[s] = 0
    <3>1. s \in SessionId \ Sessions(es) /\ channels[s] \in Channel
      BY <2>3, OpenChannel DEF Named, Of
    <3>2. channels'[s] = channels[s] /\ channels[s].paid \in Nat
      BY <1>3, <3>1 DEF Channel
    <3>3. QED  BY <3>2 DEF Grown
  <2>4. SumFunctionOnSet(d, N) = Total(es, last, t)  BY DEF Total, SumFunction
  <2> HIDE DEF N, g, d
  <2>5. SumFunctionOnSet(g, Of(a, t)) = SumFunctionOnSet(d, N)
    BY <2>1, <2>2, <2>3, OfFinite, SumWithin
  <2>6. Growth(a, t) = Total(es, last, t)
    BY <2>4, <2>5 DEF Growth, Grown, SumFunction, g
  <2>7. QED  BY <1>4, <1>6, <2>6
<1>7. CASE b # a
  <2>1. \A s \in Of(b, t) : s \in SessionId \ Sessions(es)
    BY <1>2, <1>7 DEF Of
  <2>2. Growth(b, t) = 0  BY <1>3, <2>1, NoGrowth
  <2>3. bank'[t][b] = bank[t][b]  BY <1>4, <1>7
  <2>4. QED  BY <1>5, <2>2, <2>3
<1>8. QED  BY <1>6, <1>7

LEMMA NextGrowth == Inv /\ [Next]_vars => [PaysGrowth]_vars
<1> SUFFICES ASSUME Inv, Next, SameChannels, NEW b \in Account, NEW t \in Token
             PROVE  bank'[t][b] = bank[t][b] + Growth(b, t)
  BY DEF PaysGrowth
<1>0. TypeOK /\ channels \in [SessionId -> Channel \cup {NoChannel}]  BY DEF Inv, TypeOK
<1>1. ASSUME NEW s \in SessionId, NEW p \in Account, NEW r \in Account, NEW u \in Token,
             NEW n \in 0..MaxAmount, NEW e \in 0..MaxTime, Open(s, p, r, u, n, e)
      PROVE  FALSE
  <2> DEFINE ch == [payer |-> p, recipient |-> r, token |-> u, deposit |-> n,
                    paid |-> 0, expiresAt |-> e]
  <2>1. n \in Nat /\ e \in Nat  BY MeshEscrowAssumption
  <2>2. ch # NoChannel  BY <2>1, NoChannelAssumption DEF Channel
  <2>3. channels[s] = NoChannel /\ channels' = [channels EXCEPT ![s] = ch]
    BY <1>1 DEF Open
  <2> HIDE DEF ch
  <2>4. channels'[s] = ch  BY <1>0, <2>3
  <2>5. QED  BY <2>2, <2>3, <2>4 DEF SameChannels
<1>2. ASSUME NEW s \in SessionId, NEW a \in Account, NEW c \in 1..(MaxAmount + 1),
             Claim(s, a, c)
      PROVE  bank'[t][b] = bank[t][b] + Growth(b, t)
  <2>1. c \in Nat  BY MeshEscrowAssumption
  <2>2. QED  BY <1>0, <1>2, <2>1, ClaimGrowth
<1>3. ASSUME NEW s \in SessionId, NEW a \in Account, Close(s, a) PROVE FALSE
  <2>1. channels[s] # NoChannel /\ channels'[s] = NoChannel  BY <1>0, <1>3 DEF Close
  <2>2. QED  BY <2>1 DEF SameChannels
<1>4. ASSUME NEW es \in Batch, NEW a \in Account, ClaimBatch(es, a)
      PROVE  bank'[t][b] = bank[t][b] + Growth(b, t)
  BY <1>0, <1>4, BatchGrowth
<1>5. ASSUME channels' = channels, bank' = bank
      PROVE  bank'[t][b] = bank[t][b] + Growth(b, t)
  <2>1. bank[t][b] \in Nat  BY <1>0 DEF TypeOK, Bank, Holder
  <2>2. Growth(b, t) = 0  BY <1>0, <1>5, NoGrowth
  <2>3. QED  BY <1>5, <2>1, <2>2
<1>6. QED  BY <1>1, <1>2, <1>3, <1>4, <1>5 DEF Next, Issue, Tick

\* claim and claimBatch: whoever is the recipient of a channel gains exactly
\* what its channels' paid amounts grow by, however often a batch names one.
THEOREM GrowthCorrect == Spec => ClaimsPayGrowth
<1>1. QED  BY InvAlways, NextGrowth, PTL DEF Spec, ClaimsPayGrowth
=============================================================================
