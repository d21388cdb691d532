--------------------------- MODULE JobBoard_proofs ---------------------------
(***************************************************************************)
(* What holds of JobBoard for every set of accounts, tokens and hashes,    *)
(* and every bound.  The inductive invariant is TypeOK /\ RecordsAgree,     *)
(* and with it Solvent: what the contract holds is the sum of what it owes. *)
(***************************************************************************)
EXTENDS JobBoard, Funds_proofs

Inv == TypeOK /\ RecordsAgree

-----------------------------------------------------------------------------
(* The steps: one call changes one job, as its action says.                *)

\* The job i that a call other than postJob leaves as j.
Updated(i, j) ==
  /\ jobs' \in Seq(Job) /\ DOMAIN jobs' = DOMAIN jobs
  /\ j \in Job /\ jobs'[i] = j
  /\ \A k \in DOMAIN jobs \ {i} : jobs'[k] = jobs[k]

\* Writing a job at an index of the mapping changes that job only.
LEMMA UpdateOne ==
  ASSUME NEW s \in Seq(Job), NEW i \in DOMAIN s, NEW j \in Job
  PROVE  /\ [s EXCEPT ![i] = j] \in Seq(Job)
         /\ DOMAIN [s EXCEPT ![i] = j] = DOMAIN s
         /\ [s EXCEPT ![i] = j][i] = j
         /\ \A k \in DOMAIN s \ {i} : [s EXCEPT ![i] = j][k] = s[k]
  OBVIOUS

\* A take.
LEMMA TakeUpdates ==
  ASSUME TypeOK, NEW i \in DOMAIN jobs, NEW a \in Account, TakeJob(i, a)
  PROVE  Updated(i, [jobs[i] EXCEPT !.worker = a, !.status = "Taken"])
<1> DEFINE j == [jobs[i] EXCEPT !.worker = a, !.status = "Taken"]
<1>1. jobs \in Seq(Job) /\ jobs[i] \in Job  BY DEF TypeOK
<1>2. j \in Job  BY <1>1 DEF Job, Status
<1>3. jobs' = [jobs EXCEPT ![i] = j]  BY <1>1 DEF TakeJob
<1> HIDE DEF j
<1>4. Updated(i, j)  BY <1>1, <1>2, <1>3, UpdateOne DEF Updated
<1>5. QED  BY <1>4 DEF j

\* A completion.
LEMMA CompleteUpdates ==
  ASSUME TypeOK, NEW i \in DOMAIN jobs, NEW a \in Account,
         NEW h \in Hash \cup {NoHash}, CompleteJob(i, a, h)
  PROVE  Updated(i, [jobs[i] EXCEPT !.result = h, !.status = "Completed"])
<1> DEFINE j == [jobs[i] EXCEPT !.result = h, !.status = "Completed"]
<1>1. jobs \in Seq(Job) /\ jobs[i] \in Job  BY DEF TypeOK
<1>2. j \in Job  BY <1>1 DEF Job, Status
<1>3. jobs' = [jobs EXCEPT ![i] = j]  BY <1>1 DEF CompleteJob
<1> HIDE DEF j
<1>4. Updated(i, j)  BY <1>1, <1>2, <1>3, UpdateOne DEF Updated
<1>5. QED  BY <1>4 DEF j

\* The end of a job, whoever is paid.
LEMMA SettleUpdates ==
  ASSUME TypeOK, NEW i \in DOMAIN jobs, NEW st \in Status, NEW a, Settle(i, st, a)
  PROVE  Updated(i, [jobs[i] EXCEPT !.status = st])
<1> DEFINE j == [jobs[i] EXCEPT !.status = st]
<1>1. jobs \in Seq(Job) /\ jobs[i] \in Job  BY DEF TypeOK
<1>2. j \in Job  BY <1>1 DEF Job
<1>3. jobs' = [jobs EXCEPT ![i] = j]  BY <1>1 DEF Settle
<1> HIDE DEF j
<1>4. Updated(i, j)  BY <1>1, <1>2, <1>3, UpdateOne DEF Updated
<1>5. QED  BY <1>4 DEF j

\* A post.
LEMMA PostAppends ==
  ASSUME TypeOK, NEW a \in Account, NEW r \in 0..MaxReward, NEW t \in Token,
         NEW d \in 0..MaxTime, PostJob(a, r, t, d)
  PROVE  LET j == [poster |-> a, worker |-> NoAccount, reward |-> r,
                   token |-> t, result |-> NoHash, deadline |-> d,
                   status |-> "Open"]
         IN /\ j \in Job
            /\ jobs' = Append(jobs, j)
            /\ jobs' \in Seq(Job)
            /\ DOMAIN jobs' = DOMAIN jobs \cup {Len(jobs) + 1}
            /\ Len(jobs) + 1 \notin DOMAIN jobs
            /\ jobs'[Len(jobs) + 1] = j
            /\ \A k \in DOMAIN jobs : jobs'[k] = jobs[k]
<1> DEFINE j == [poster |-> a, worker |-> NoAccount, reward |-> r,
                 token |-> t, result |-> NoHash, deadline |-> d,
                 status |-> "Open"]
<1>1. j \in Job  BY JobBoardAssumption DEF Job, Status
<1>2. jobs' = Append(jobs, j) /\ jobs \in Seq(Job)  BY DEF PostJob, TypeOK
<1> HIDE DEF j
<1>3. /\ jobs' \in Seq(Job)
      /\ DOMAIN jobs' = DOMAIN jobs \cup {Len(jobs) + 1}
      /\ Len(jobs) + 1 \notin DOMAIN jobs
      /\ jobs'[Len(jobs) + 1] = j
      /\ \A k \in DOMAIN jobs : jobs'[k] = jobs[k]
  BY <1>1, <1>2
<1>4. QED  BY <1>1, <1>2, <1>3 DEF j

-----------------------------------------------------------------------------
(* The invariant.                                                          *)

LEMMA InitInv == Init => Inv
<1> SUFFICES ASSUME Init PROVE Inv  OBVIOUS
<1>1. TypeOK
  BY JobBoardAssumption DEF Init, TypeOK, Bank
<1>2. RecordsAgree  BY DEF Init, RecordsAgree
<1>3. QED  BY <1>1, <1>2 DEF Inv

\* If a call leaves job i as j, and time does not go back, the records agree
\* when j's do.
LEMMA UpdatedInv ==
  ASSUME Inv, NEW i \in DOMAIN jobs, NEW j, Updated(i, j), bank' \in Bank,
         now' = now, Agrees(j)
  PROVE  Inv'
<1>1. TypeOK'  BY DEF Inv, TypeOK, Updated
<1>2. ASSUME NEW k \in DOMAIN jobs' PROVE Agrees(jobs[k])'
  <2>1. k \in DOMAIN jobs  BY DEF Updated
  <2>2. CASE k = i  BY <2>2 DEF Updated, Agrees
  <2>3. CASE k # i
    <3>1. jobs'[k] = jobs[k]  BY <2>1, <2>3 DEF Updated
    <3>2. Agrees(jobs[k])  BY <2>1 DEF Inv, RecordsAgree
    <3>3. QED  BY <3>1, <3>2 DEF Agrees
  <2>4. QED  BY <2>2, <2>3
<1>3. QED  BY <1>1, <1>2 DEF Inv, RecordsAgree

\* The end of a job keeps the invariant when its record does.
LEMMA SettleInv ==
  ASSUME Inv, NEW i \in DOMAIN jobs, NEW st \in Status, NEW a \in Account,
         Settle(i, st, a), Agrees([jobs[i] EXCEPT !.status = st])
  PROVE  Inv'
<1>1. TypeOK  BY DEF Inv
<1>2. jobs[i] \in Job  BY <1>1 DEF TypeOK
<1>3. bank' \in Bank  BY <1>1, <1>2, PayOutEffect DEF Settle, TypeOK, Job
<1>4. Updated(i, [jobs[i] EXCEPT !.status = st])  BY <1>1, SettleUpdates
<1>5. QED  BY <1>3, <1>4, UpdatedInv DEF Settle

LEMMA NextInv == Inv /\ [Next]_vars => Inv'
<1> SUFFICES ASSUME Inv, [Next]_vars PROVE Inv'  OBVIOUS
<1>0. TypeOK /\ RecordsAgree  BY DEF Inv
<1>1. ASSUME NEW a \in Account, NEW r \in 0..MaxReward, NEW t \in Token,
             NEW d \in 0..MaxTime, PostJob(a, r, t, d)
      PROVE  Inv'
  <2> DEFINE j == [poster |-> a, worker |-> NoAccount, reward |-> r,
                   token |-> t, result |-> NoHash, deadline |-> d,
                   status |-> "Open"]
  <2>1. /\ jobs' \in Seq(Job)
        /\ DOMAIN jobs' = DOMAIN jobs \cup {Len(jobs) + 1}
        /\ jobs'[Len(jobs) + 1] = j
        /\ \A k \in DOMAIN jobs : jobs'[k] = jobs[k]
    BY <1>0, <1>1, PostAppends
  <2>2. bank' \in Bank  BY <1>0, <1>1, PayInEffect, JobBoardAssumption DEF PostJob, TypeOK
  <2>3. now' = now /\ now \in Nat  BY <1>0, <1>1 DEF PostJob, TypeOK
  <2>4. TypeOK'  BY <2>1, <2>2, <2>3 DEF TypeOK
  <2>5. Agrees(j)  BY JobBoardAssumption DEF Agrees, Worked, Delivered
  <2> HIDE DEF j
  <2>6. ASSUME NEW k \in DOMAIN jobs' PROVE Agrees(jobs[k])'
    <3>1. CASE k \in DOMAIN jobs  BY <1>0, <2>1, <2>3, <3>1 DEF RecordsAgree, Agrees
    <3>2. CASE k = Len(jobs) + 1  BY <2>1, <2>3, <2>5, <3>2 DEF Agrees
    <3>3. QED  BY <2>1, <3>1, <3>2
  <2>7. QED  BY <2>4, <2>6 DEF Inv, RecordsAgree
<1>2. ASSUME NEW i \in DOMAIN jobs, NEW a \in Account, TakeJob(i, a)
      PROVE  Inv'
  <2>1. jobs[i] \in Job /\ Agrees(jobs[i])  BY <1>0 DEF TypeOK, RecordsAgree
  <2>2. Agrees([jobs[i] EXCEPT !.worker = a, !.status = "Taken"])
    BY <1>2, <2>1, JobBoardAssumption DEF TakeJob, Agrees, Job, Worked, Delivered
  <2>3. bank' \in Bank /\ now' = now  BY <1>0, <1>2 DEF TakeJob, TypeOK
  <2>4. QED  BY <1>0, <1>2, <2>2, <2>3, TakeUpdates, UpdatedInv
<1>3. ASSUME NEW i \in DOMAIN jobs, NEW a \in Account,
             NEW h \in Hash \cup {NoHash}, CompleteJob(i, a, h)
      PROVE  Inv'
  <2>1. jobs[i] \in Job /\ Agrees(jobs[i])  BY <1>0 DEF TypeOK, RecordsAgree
  <2>2. Agrees([jobs[i] EXCEPT !.result = h, !.status = "Completed"])
    BY <1>3, <2>1 DEF CompleteJob, Agrees, Job, Worked, Delivered
  <2>3. bank' \in Bank /\ now' = now  BY <1>0, <1>3 DEF CompleteJob, TypeOK
  <2>4. QED  BY <1>0, <1>3, <2>2, <2>3, CompleteUpdates, UpdatedInv
<1>4. ASSUME NEW i \in DOMAIN jobs, NEW a \in Account,
             AcceptCompletion(i, a) \/ CancelJob(i, a) \/ TimeoutClaim(i, a)
      PROVE  Inv'
  <2>1. jobs[i] \in Job /\ Agrees(jobs[i])  BY <1>0 DEF TypeOK, RecordsAgree
  <2>2. CASE AcceptCompletion(i, a)
    <3>1. Agrees([jobs[i] EXCEPT !.status = "Accepted"])
      BY <2>1, <2>2 DEF AcceptCompletion, Agrees, Job, Worked, Delivered
    <3>2. jobs[i].worker \in Account
      BY <2>1, <2>2 DEF AcceptCompletion, Agrees, Job, Worked
    <3>3. QED  BY <2>2, <3>1, <3>2, SettleInv DEF AcceptCompletion, Status
  <2>3. CASE CancelJob(i, a)
    <3>1. Agrees([jobs[i] EXCEPT !.status = "Cancelled"])
      BY <2>1, <2>3 DEF CancelJob, Agrees, Job, Worked, Delivered
    <3>2. QED  BY <2>3, <3>1, SettleInv DEF CancelJob, Status
  <2>4. CASE TimeoutClaim(i, a)
    <3>1. Agrees([jobs[i] EXCEPT !.status = "TimedOut"])
      BY <2>1, <2>4 DEF TimeoutClaim, Agrees, Job, Worked, Delivered
    <3>2. QED  BY <2>4, <3>1, SettleInv DEF TimeoutClaim, Status
  <2>5. QED  BY <1>4, <2>2, <2>3, <2>4
<1>5. CASE Tick
  <2>1. TypeOK'  BY <1>0, <1>5 DEF Tick, TypeOK
  <2>2. ASSUME NEW k \in DOMAIN jobs PROVE Agrees(jobs[k])'
    <3>1. jobs[k] \in Job /\ Agrees(jobs[k])  BY <1>0 DEF TypeOK, RecordsAgree
    <3>2. now \in Nat /\ now' = now + 1 /\ jobs' = jobs  BY <1>0, <1>5 DEF Tick, TypeOK
    <3>3. QED  BY <3>1, <3>2 DEF Agrees, Job
  <2>3. QED  BY <1>5, <2>1, <2>2 DEF Inv, RecordsAgree, Tick
<1>6. CASE UNCHANGED vars
  BY <1>0, <1>6 DEF vars, Inv, TypeOK, RecordsAgree, Agrees
<1>7. QED  BY <1>1, <1>2, <1>3, <1>4, <1>5, <1>6 DEF Next

LEMMA InvAlways == Spec => []Inv
<1>1. QED  BY InitInv, NextInv, PTL DEF Spec

\* postJob to timeoutClaim: in every reachable state the jobs, the funds and
\* the clock are well typed; no balance is ever taken below nothing.
THEOREM TypeCorrect == Spec => []TypeOK
<1>1. Inv => TypeOK  BY DEF Inv
<1>2. QED  BY <1>1, InvAlways, PTL

\* In every reachable state each job's worker, result, status and deadline
\* agree, for any number of jobs and accounts.
THEOREM RecordsCorrect == Spec => []RecordsAgree
<1>1. Inv => RecordsAgree  BY DEF Inv
<1>2. QED  BY <1>1, InvAlways, PTL

-----------------------------------------------------------------------------
(* What a call does to the other jobs, to the funds and to the terms.      *)

\* What a call other than postJob does, as the lemmas below need it.
LEMMA CallCases ==
  ASSUME Inv, NEW i \in DOMAIN jobs, NEW a \in Account,
         \/ TakeJob(i, a)
         \/ \E h \in Hash \cup {NoHash} : CompleteJob(i, a, h)
         \/ AcceptCompletion(i, a)
         \/ CancelJob(i, a)
         \/ TimeoutClaim(i, a)
  PROVE  /\ jobs[i] \in Job /\ jobs'[i] \in Job /\ DOMAIN jobs' = DOMAIN jobs
         /\ \A k \in DOMAIN jobs \ {i} : jobs'[k] = jobs[k]
         /\ Live(jobs[i])
         /\ KeepsTerms(jobs[i], jobs'[i])
         /\ \/ Live(jobs'[i]) /\ bank' = bank
            \/ /\ ~Live(jobs'[i]) /\ Payee(jobs'[i]) \in Account
               /\ CanPayOut(bank, jobs[i].token, Payee(jobs'[i]), jobs[i].reward)
               /\ bank' = PayOut(bank, jobs[i].token, Payee(jobs'[i]), jobs[i].reward)
<1>1. /\ TypeOK /\ jobs \in Seq(Job) /\ jobs[i] \in Job /\ Agrees(jobs[i])
  BY DEF Inv, TypeOK, RecordsAgree
<1>2. CASE TakeJob(i, a)
  <2>1. Updated(i, [jobs[i] EXCEPT !.worker = a, !.status = "Taken"])
    BY <1>1, <1>2, TakeUpdates
  <2>2. jobs[i].worker = NoAccount /\ jobs[i].status = "Open" /\ bank' = bank
    BY <1>1, <1>2 DEF TakeJob, Agrees, Worked
  <2>3. QED  BY <1>1, <2>1, <2>2 DEF Updated, Live, KeepsTerms, Job
<1>3. ASSUME NEW h \in Hash \cup {NoHash}, CompleteJob(i, a, h)
      PROVE  /\ jobs'[i] \in Job /\ DOMAIN jobs' = DOMAIN jobs
             /\ \A k \in DOMAIN jobs \ {i} : jobs'[k] = jobs[k]
             /\ Live(jobs[i]) /\ KeepsTerms(jobs[i], jobs'[i])
             /\ Live(jobs'[i]) /\ bank' = bank
  <2>1. Updated(i, [jobs[i] EXCEPT !.result = h, !.status = "Completed"])
    BY <1>1, <1>3, CompleteUpdates
  <2>2. jobs[i].result = NoHash /\ jobs[i].status = "Taken" /\ bank' = bank
    BY <1>1, <1>3 DEF CompleteJob, Agrees, Delivered
  <2>3. QED  BY <1>1, <2>1, <2>2 DEF Updated, Live, KeepsTerms, Job
<1>4. ASSUME NEW st \in {"Accepted", "Cancelled", "TimedOut"}, NEW p \in Account,
             Settle(i, st, p), Live(jobs[i]),
             p = IF st = "Cancelled" THEN jobs[i].poster ELSE jobs[i].worker
      PROVE  /\ jobs'[i] \in Job /\ DOMAIN jobs' = DOMAIN jobs
             /\ \A k \in DOMAIN jobs \ {i} : jobs'[k] = jobs[k]
             /\ KeepsTerms(jobs[i], jobs'[i])
             /\ ~Live(jobs'[i]) /\ Payee(jobs'[i]) = p
             /\ CanPayOut(bank, jobs[i].token, p, jobs[i].reward)
             /\ bank' = PayOut(bank, jobs[i].token, p, jobs[i].reward)
  <2>1. Updated(i, [jobs[i] EXCEPT !.status = st])
    BY <1>1, <1>4, SettleUpdates DEF Status
  <2>2. jobs'[i] = [jobs[i] EXCEPT !.status = st]  BY <2>1 DEF Updated
  <2>3. ~Live(jobs'[i])  BY <1>1, <1>4, <2>2 DEF Live, Job
  <2>4. Payee(jobs'[i]) = p  BY <1>1, <1>4, <2>2 DEF Payee, Job
  <2>5. KeepsTerms(jobs[i], jobs'[i])  BY <1>1, <1>4, <2>2 DEF KeepsTerms, Job
  <2>6. QED  BY <1>4, <2>1, <2>3, <2>4, <2>5 DEF Updated, Settle
<1>5. CASE AcceptCompletion(i, a)
  <2>1. Live(jobs[i])  BY <1>5 DEF AcceptCompletion, Live
  <2>2. jobs[i].worker \in Account
    BY <1>1, <1>5 DEF AcceptCompletion, Agrees, Job, Worked
  <2>3. Settle(i, "Accepted", jobs[i].worker)  BY <1>5 DEF AcceptCompletion
  <2>4. QED  BY <1>1, <1>4, <2>1, <2>2, <2>3
<1>6. CASE CancelJob(i, a)
  <2>1. Live(jobs[i]) /\ a = jobs[i].poster  BY <1>6 DEF CancelJob, Live
  <2>2. Settle(i, "Cancelled", a)  BY <1>6 DEF CancelJob
  <2>3. QED  BY <1>1, <1>4, <2>1, <2>2
<1>7. CASE TimeoutClaim(i, a)
  <2>1. Live(jobs[i]) /\ a = jobs[i].worker  BY <1>7 DEF TimeoutClaim, Live
  <2>2. Settle(i, "TimedOut", a)  BY <1>7 DEF TimeoutClaim
  <2>3. QED  BY <1>1, <1>4, <2>1, <2>2
<1>8. QED  BY <1>1, <1>2, <1>3, <1>5, <1>6, <1>7

LEMMA NextTerms == Inv /\ [Next]_vars => [TermsStep]_vars
<1> SUFFICES ASSUME Inv, Next PROVE TermsStep  OBVIOUS
<1>0. TypeOK /\ jobs \in Seq(Job)  BY DEF Inv, TypeOK
<1>1. ASSUME NEW j PROVE KeepsTerms(j, j)  BY DEF KeepsTerms
<1>2. ASSUME NEW a \in Account, NEW r \in 0..MaxReward, NEW t \in Token,
             NEW d \in 0..MaxTime, PostJob(a, r, t, d)
      PROVE  TermsStep
  <2>1. DOMAIN jobs' = DOMAIN jobs \cup {Len(jobs) + 1}
        /\ \A k \in DOMAIN jobs : jobs'[k] = jobs[k]
    BY <1>0, <1>2, PostAppends
  <2>2. QED  BY <1>1, <2>1 DEF TermsStep
<1>3. ASSUME NEW i \in DOMAIN jobs, NEW a \in Account,
             \/ TakeJob(i, a)
             \/ \E h \in Hash \cup {NoHash} : CompleteJob(i, a, h)
             \/ AcceptCompletion(i, a)
             \/ CancelJob(i, a)
             \/ TimeoutClaim(i, a)
      PROVE  TermsStep
  <2>1. /\ DOMAIN jobs' = DOMAIN jobs
        /\ \A k \in DOMAIN jobs \ {i} : jobs'[k] = jobs[k]
        /\ KeepsTerms(jobs[i], jobs'[i])
    BY <1>3, CallCases
  <2>2. QED  BY <1>1, <2>1 DEF TermsStep
<1>4. CASE Tick  BY <1>1, <1>4 DEF Tick, TermsStep
<1>5. QED  BY <1>2, <1>3, <1>4 DEF Next

\* No call changes the terms of a job, replaces its worker or its result, or
\* touches a job that has ended: no reward leaves the contract twice.
THEOREM TermsCorrect == Spec => TermsKept
<1>1. QED  BY InvAlways, NextTerms, PTL DEF Spec, TermsKept

LEMMA NextGains == Inv /\ [Next]_vars => [GainsAreRewards]_vars
<1> SUFFICES ASSUME Inv, Next PROVE GainsAreRewards  OBVIOUS
<1>0. TypeOK /\ bank \in Bank  BY DEF Inv, TypeOK
<1>1. \A t \in Token, a \in Account : bank[t][a] \in Nat  BY <1>0 DEF Bank, Holder
<1>2. ASSUME NEW c \in Account, NEW r \in 0..MaxReward, NEW u \in Token,
             NEW d \in 0..MaxTime, PostJob(c, r, u, d)
      PROVE  GainsAreRewards
  <2>1. r \in Nat  BY JobBoardAssumption
  <2>2. CanPayIn(bank, u, c, r) /\ bank' = PayIn(bank, u, c, r)  BY <1>2 DEF PostJob
  <2>3. bank' \in Bank /\ \A t \in Token, a \in Account : bank'[t][a] <= bank[t][a]
    BY <1>0, <2>1, <2>2, PayInEffect
  <2>4. \A t \in Token, a \in Account : bank'[t][a] \in Nat
    BY <2>3 DEF Bank, Holder
  <2>5. QED  BY <1>1, <2>3, <2>4 DEF GainsAreRewards
<1>3. ASSUME NEW i \in DOMAIN jobs, NEW c \in Account,
             \/ TakeJob(i, c)
             \/ \E h \in Hash \cup {NoHash} : CompleteJob(i, c, h)
             \/ AcceptCompletion(i, c)
             \/ CancelJob(i, c)
             \/ TimeoutClaim(i, c)
      PROVE  GainsAreRewards
  <2> DEFINE p == Payee(jobs'[i])
             n == jobs[i].reward
             u == jobs[i].token
  <2>1. CASE bank' = bank  BY <1>1, <2>1 DEF GainsAreRewards
  <2>2. CASE bank' # bank
    <3>1. /\ jobs[i] \in Job /\ Live(jobs[i]) /\ ~Live(jobs'[i]) /\ p \in Account
          /\ CanPayOut(bank, u, p, n) /\ bank' = PayOut(bank, u, p, n)
      BY <1>3, <2>2, CallCases
    <3>2. u \in Token /\ n \in Nat  BY <3>1 DEF Job
    <3>3. /\ bank'[u][p] = bank[u][p] + n
          /\ \A t \in Token, a \in Account : (t # u \/ a # p) => bank'[t][a] = bank[t][a]
      BY <1>0, <3>1, <3>2, PayOutEffect
    <3>4. PaidFor(i, p, u)  BY <3>1, <3>3 DEF PaidFor
    <3>5. ASSUME NEW a \in Account, NEW t \in Token, bank'[t][a] > bank[t][a]
          PROVE  t = u /\ a = p
      BY <1>1, <3>3, <3>5
    <3>6. QED  BY <3>4, <3>5 DEF GainsAreRewards
  <2>3. QED  BY <2>1, <2>2
<1>4. CASE Tick  BY <1>1, <1>4 DEF Tick, GainsAreRewards
<1>5. QED  BY <1>2, <1>3, <1>4 DEF Next

\* acceptCompletion, cancelJob, timeoutClaim: an account gains only as the
\* payee of a job that ends with this call, and exactly the job's reward.
THEOREM RewardsCorrect == Spec => OnlyRewardsArePaid
<1>1. QED  BY InvAlways, NextGains, PTL DEF Spec, OnlyRewardsArePaid

LEMMA NextBooks == Inv /\ [Next]_vars => [Books]_<<jobs, bank>>
<1> SUFFICES ASSUME Inv, Next, <<jobs, bank>>' # <<jobs, bank>> PROVE Books
  BY DEF vars
<1>0. TypeOK /\ bank \in Bank /\ jobs \in Seq(Job)  BY DEF Inv, TypeOK
<1>1. \A t \in Token : bank[t][Contract] \in Nat  BY <1>0 DEF Bank, Holder
<1>2. ASSUME NEW a \in Account, NEW r \in 0..MaxReward, NEW u \in Token,
             NEW d \in 0..MaxTime, PostJob(a, r, u, d)
      PROVE  Books
  <2> DEFINE i == Len(jobs) + 1
  <2>1. r \in Nat  BY JobBoardAssumption
  <2>2. CanPayIn(bank, u, a, r) /\ bank' = PayIn(bank, u, a, r)  BY <1>2 DEF PostJob
  <2>3. /\ bank'[u][Contract] = bank[u][Contract] + r
        /\ \A t \in Token \ {u} : bank'[t][Contract] = bank[t][Contract]
    BY <1>0, <2>1, <2>2, PayInEffect
  <2>4. /\ i \in DOMAIN jobs' /\ i \notin DOMAIN jobs
        /\ DOMAIN jobs' \subseteq DOMAIN jobs \cup {i}
        /\ jobs'[i] = [poster |-> a, worker |-> NoAccount, reward |-> r,
                       token |-> u, result |-> NoHash, deadline |-> d,
                       status |-> "Open"]
        /\ \A k \in DOMAIN jobs : jobs'[k] = jobs[k]
    BY <1>0, <1>2, PostAppends
  <2> HIDE DEF i
  <2>5. ASSUME NEW t \in Token PROVE Booked(i, t)
    <3>1. Owed(jobs, i, t) = 0  BY <2>4 DEF Owed
    <3>2. Owed(jobs', i, t) = IF t = u THEN r ELSE 0  BY <2>4 DEF Owed, Live
    <3>3. bank'[t][Contract] + 0 = bank[t][Contract] + (IF t = u THEN r ELSE 0)
      BY <1>1, <2>1, <2>3
    <3>4. QED  BY <2>4, <3>1, <3>2, <3>3 DEF Booked
  <2>6. QED  BY <2>4, <2>5 DEF Books
<1>3. ASSUME NEW i \in DOMAIN jobs, NEW a \in Account,
             \/ TakeJob(i, a)
             \/ \E h \in Hash \cup {NoHash} : CompleteJob(i, a, h)
             \/ AcceptCompletion(i, a)
             \/ CancelJob(i, a)
             \/ TimeoutClaim(i, a)
      PROVE  Books
  <2> DEFINE p == Payee(jobs'[i])
             n == jobs[i].reward
             u == jobs[i].token
  <2>1. /\ jobs[i] \in Job /\ jobs'[i] \in Job /\ DOMAIN jobs' = DOMAIN jobs
        /\ \A k \in DOMAIN jobs \ {i} : jobs'[k] = jobs[k]
        /\ Live(jobs[i]) /\ KeepsTerms(jobs[i], jobs'[i])
        /\ \/ Live(jobs'[i]) /\ bank' = bank
           \/ /\ ~Live(jobs'[i]) /\ p \in Account
              /\ CanPayOut(bank, u, p, n) /\ bank' = PayOut(bank, u, p, n)
    BY <1>3, CallCases
  <2>2. u \in Token /\ n \in Nat  BY <2>1 DEF Job
  <2>3. jobs'[i].reward = n /\ jobs'[i].token = u  BY <2>1 DEF KeepsTerms
  <2>4. ASSUME NEW t \in Token PROVE Booked(i, t)
    <3>1. Owed(jobs, i, t) = IF t = u THEN n ELSE 0  BY <2>1 DEF Owed
    <3>2. CASE Live(jobs'[i])
      <4>1. Owed(jobs', i, t) = IF t = u THEN n ELSE 0  BY <2>1, <2>3, <3>2 DEF Owed
      <4>2. QED  BY <1>1, <2>1, <2>2, <3>1, <3>2, <4>1 DEF Booked
    <3>3. CASE ~Live(jobs'[i])
      <4>1. Owed(jobs', i, t) = 0  BY <3>3 DEF Owed
      <4>2. /\ bank'[u][Contract] + n = bank[u][Contract]
            /\ \A v \in Token \ {u} : bank'[v][Contract] = bank[v][Contract]
        BY <1>0, <2>1, <2>2, <3>3, PayOutEffect
      <4>3. bank'[t][Contract] + (IF t = u THEN n ELSE 0) = bank[t][Contract] + 0
        BY <1>1, <2>2, <4>2
      <4>4. QED  BY <2>1, <3>1, <4>1, <4>3 DEF Booked
    <3>4. QED  BY <3>2, <3>3
  <2>5. QED  BY <2>1, <2>4 DEF Books
<1>4. CASE Tick  BY <1>4 DEF Tick
<1>5. QED  BY <1>2, <1>3, <1>4 DEF Next

\* Every call moves into or out of the contract exactly the change in what
\* one job is owed, so the balance can never drift from the live rewards.
THEOREM BooksCorrect == Spec => BooksBalance
<1>1. QED  BY InvAlways, NextBooks, PTL DEF Spec, BooksBalance

-----------------------------------------------------------------------------
(* The contract is solvent.                                                *)

\* What a job is owed is an amount.
LEMMA OwedType ==
  ASSUME NEW js \in Seq(Job), NEW i, NEW t
  PROVE  Owed(js, i, t) \in Nat
<1>1. i \in DOMAIN js => js[i] \in Job  OBVIOUS
<1>2. i \in DOMAIN js => js[i].reward \in Nat  BY <1>1 DEF Job
<1>3. QED  BY <1>2 DEF Owed

\* A call that books one job's change keeps the contract's holdings of a
\* token equal to the sum of what its jobs are owed of it.
LEMMA BookedSolvent ==
  ASSUME jobs \in Seq(Job), jobs' \in Seq(Job), bank \in Bank, bank' \in Bank,
         TermsStep, NEW t \in Token,
         bank[t][Contract] = SumFunction([k \in DOMAIN jobs |-> Owed(jobs, k, t)]),
         NEW i \in DOMAIN jobs', Booked(i, t)
  PROVE  bank'[t][Contract] = SumFunction([k \in DOMAIN jobs' |-> Owed(jobs', k, t)])
<1> DEFINE E == DOMAIN jobs'
           g == [k \in DOMAIN jobs |-> Owed(jobs, k, t)]
           h == [k \in E |-> Owed(jobs, k, t)]
           f == [k \in E |-> Owed(jobs', k, t)]
<1>1. IsFiniteSet(E)
  <2>1. Len(jobs') \in Nat /\ E = 1..Len(jobs')  OBVIOUS
  <2>2. QED  BY <2>1, FS_Interval
<1>2. \A k : Owed(jobs, k, t) \in Nat /\ Owed(jobs', k, t) \in Nat  BY OwedType
<1>3. DOMAIN jobs \subseteq E  BY DEF TermsStep
<1>4. SumFunctionOnSet(h, E) = SumFunctionOnSet(g, DOMAIN jobs)
  <2>1. \A k \in DOMAIN jobs : g[k] \in Int /\ h[k] = g[k]  BY <1>2, <1>3
  <2>2. \A k \in E \ DOMAIN jobs : h[k] = 0  BY DEF Owed
  <2> HIDE DEF g, h, E
  <2>3. QED  BY <1>1, <1>3, <2>1, <2>2, SumWithin
<1>5. \A k \in E : f[k] \in Int /\ h[k] \in Int  BY <1>2
<1>6. \A k \in E \ {i} : f[k] = h[k]  BY <1>3 DEF Booked, Owed
<1>7. /\ SumFunctionOnSet(f, E) + h[i] = SumFunctionOnSet(h, E) + f[i]
      /\ SumFunctionOnSet(f, E) \in Int /\ SumFunctionOnSet(h, E) \in Int
  <2> HIDE DEF f, h, E
  <2>1. i \in E  BY DEF E
  <2>2. QED  BY <1>1, <1>5, <1>6, <2>1, SumDiffers, SMTT(20)
<1>8. bank'[t][Contract] + h[i] = bank[t][Contract] + f[i]  BY DEF Booked
<1>9. bank[t][Contract] \in Nat /\ bank'[t][Contract] \in Nat  BY DEF Bank, Holder
<1>10. h[i] \in Nat /\ f[i] \in Nat  BY <1>2
<1>11. bank[t][Contract] = SumFunctionOnSet(g, DOMAIN jobs)
  BY DEF SumFunction
<1>12. bank'[t][Contract] = SumFunctionOnSet(f, E)
  <2> HIDE DEF f, h, g, E
  <2>1. SumFunctionOnSet(h, E) = bank[t][Contract]  BY <1>4, <1>11, Zenon
  <2>2. PICK x \in Int : x = SumFunctionOnSet(f, E)  BY <1>7, Zenon
  <2>3. PICK n \in Nat, m \in Nat : n = bank[t][Contract] /\ m = bank'[t][Contract]
    BY <1>9, Zenon
  <2>4. PICK old \in Nat, new \in Nat : old = h[i] /\ new = f[i]  BY <1>10, Zenon
  <2>5. m + old = n + new  BY <1>8, <2>3, <2>4, Zenon
  <2>6. x + old = n + new  BY <1>7, <2>1, <2>2, <2>3, <2>4, Zenon
  <2>7. m = x  BY <2>5, <2>6
  <2>8. QED  BY <2>2, <2>3, <2>7, Zenon
<1>13. QED  BY <1>12 DEF SumFunction

LEMMA InitSolvent == Init => Solvent
<1> SUFFICES ASSUME Init, NEW t \in Token
             PROVE  bank[t][Contract] = SumFunction([k \in DOMAIN jobs |-> Owed(jobs, k, t)])
  BY DEF Solvent
<1>1. bank[t][Contract] = 0  BY DEF Init, Holder
<1>2. DOMAIN jobs = {}  BY DEF Init
<1> DEFINE g == [k \in DOMAIN jobs |-> Owed(jobs, k, t)]
<1>3. DOMAIN g = {}  BY <1>2
<1> HIDE DEF g
<1>4. SumFunction(g) = 0  BY <1>3, SumEmpty DEF SumFunction
<1>5. QED  BY <1>1, <1>4 DEF g

LEMMA NextSolvent == Inv /\ Solvent /\ [Next]_vars => Solvent'
<1> SUFFICES ASSUME Inv, Solvent, [Next]_vars PROVE Solvent'  OBVIOUS
<1>1. CASE <<jobs, bank>>' = <<jobs, bank>>
  BY <1>1 DEF Solvent, Owed, Live
<1>2. CASE <<jobs, bank>>' # <<jobs, bank>>
  <2>1. Books  BY <1>2, NextBooks
  <2>2. TermsStep  BY <1>2, NextTerms DEF vars
  <2>3. /\ jobs \in Seq(Job) /\ bank \in Bank
        /\ jobs' \in Seq(Job) /\ bank' \in Bank
    BY NextInv DEF Inv, TypeOK
  <2>4. ASSUME NEW t \in Token
        PROVE  bank'[t][Contract] =
                 SumFunction([k \in DOMAIN jobs' |-> Owed(jobs', k, t)])
    <3>1. PICK i \in DOMAIN jobs' : Booked(i, t)  BY <2>1 DEF Books
    <3>2. bank[t][Contract] = SumFunction([k \in DOMAIN jobs |-> Owed(jobs, k, t)])
      BY DEF Solvent
    <3>3. QED  BY <2>2, <2>3, <3>1, <3>2, BookedSolvent
  <2>5. QED  BY <2>4 DEF Solvent
<1>3. QED  BY <1>1, <1>2

\* postJob to timeoutClaim: in every reachable state the contract holds, of
\* every token, exactly the rewards of its live jobs, however many there are.
THEOREM SolventAlways == Spec => []Solvent
<1>1. QED  BY InitInv, NextInv, InitSolvent, NextSolvent, PTL DEF Spec
=============================================================================
