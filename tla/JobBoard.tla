------------------------------ MODULE JobBoard ------------------------------
(***************************************************************************)
(* JobBoard.sol: jobs whose reward the contract holds from the post to the *)
(* acceptance, the cancellation or the worker's claim after the deadline.  *)
(* A call that reverts changes nothing, so it is no step: the guards of an *)
(* action are the conditions under which the call does not revert, and     *)
(* msg.sender and msg.value are what those conditions demand.  Calls are   *)
(* atomic: each is one transaction, and nonReentrant keeps the recipient   *)
(* of a payment from calling back in.                                      *)
(***************************************************************************)
EXTENDS Funds, Sequences

CONSTANTS
  NoAccount,   \* address(0): not taken yet
  Hash,        \* result hashes
  NoHash,      \* bytes32(0): not completed yet
  Wealth,      \* what every account owns of every token at first
  MaxReward,   \* bound: rewards
  MaxJobs,     \* bound: jobs posted
  MaxTime      \* bound: the clock, and the deadlines

ASSUME JobBoardAssumption ==
  /\ NoAccount \notin Account
  /\ NoHash \notin Hash
  /\ {Wealth, MaxReward, MaxJobs, MaxTime} \subseteq Nat

VARIABLES
  jobs,   \* the mapping; ids start at 1, and jobCount is Len(jobs)
  bank,   \* what everyone owns
  now     \* block.timestamp

vars == <<jobs, bank, now>>

Status == {"Open", "Taken", "Completed", "Accepted", "Cancelled", "TimedOut"}
Job == [poster : Account, worker : Account \cup {NoAccount}, reward : Nat,
        token : Token, result : Hash \cup {NoHash}, deadline : Nat,
        status : Status]

TypeOK == /\ jobs \in Seq(Job)
          /\ bank \in Bank
          /\ now \in Nat

Init == /\ jobs = <<>>
        /\ bank = [t \in Token |->
                     [h \in Holder |-> IF h = Contract THEN 0 ELSE Wealth]]
        /\ now = 0

-----------------------------------------------------------------------------
PostJob(a, r, t, d) ==
  /\ Len(jobs) < MaxJobs
  /\ r # 0 /\ d > now
  /\ CanPayIn(bank, t, a, r)
  /\ bank' = PayIn(bank, t, a, r)
  /\ jobs' = Append(jobs, [poster |-> a, worker |-> NoAccount, reward |-> r,
                           token |-> t, result |-> NoHash, deadline |-> d,
                           status |-> "Open"])
  /\ UNCHANGED now

TakeJob(i, a) ==
  /\ jobs[i].status = "Open"
  /\ a # jobs[i].poster
  /\ now < jobs[i].deadline
  /\ jobs' = [jobs EXCEPT ![i].worker = a, ![i].status = "Taken"]
  /\ UNCHANGED <<bank, now>>

CompleteJob(i, a, h) ==
  /\ jobs[i].status = "Taken"
  /\ a = jobs[i].worker
  /\ h # NoHash
  /\ jobs' = [jobs EXCEPT ![i].result = h, ![i].status = "Completed"]
  /\ UNCHANGED <<bank, now>>

\* Variant: the payment is made and the status stays.
Settle_NoStatus(i, status, payee) ==
  /\ UNCHANGED jobs
  /\ CanPayOut(bank, jobs[i].token, payee, jobs[i].reward)
  /\ bank' = PayOut(bank, jobs[i].token, payee, jobs[i].reward)
  /\ UNCHANGED now

\* Variant: the payment is made twice.
Settle_Twice(i, status, payee) ==
  /\ jobs' = [jobs EXCEPT ![i].status = status]
  /\ CanPayOut(bank, jobs[i].token, payee, jobs[i].reward)
  /\ bank' = PayOut(PayOut(bank, jobs[i].token, payee, jobs[i].reward),
                    jobs[i].token, payee, jobs[i].reward)
  /\ UNCHANGED now

\* The last two lines of every call that ends a job: the status, then _payOut.
Settle(i, status, payee) ==
  /\ jobs' = [jobs EXCEPT ![i].status = status]
  /\ CanPayOut(bank, jobs[i].token, payee, jobs[i].reward)
  /\ bank' = PayOut(bank, jobs[i].token, payee, jobs[i].reward)
  /\ UNCHANGED now

AcceptCompletion(i, a) ==
  /\ jobs[i].status = "Completed"
  /\ a = jobs[i].poster
  /\ Settle(i, "Accepted", jobs[i].worker)

\* Variant: the refund is forgotten.
CancelJob_Unpaid(i, a) ==
  /\ jobs[i].status = "Open"
  /\ a = jobs[i].poster
  /\ jobs' = [jobs EXCEPT ![i].status = "Cancelled"]
  /\ UNCHANGED <<bank, now>>

CancelJob(i, a) ==
  /\ jobs[i].status = "Open"
  /\ a = jobs[i].poster
  /\ Settle(i, "Cancelled", a)

\* Variant: the deadline is not looked at.
TimeoutClaim_Early(i, a) ==
  /\ jobs[i].status = "Completed"
  /\ a = jobs[i].worker
  /\ Settle(i, "TimedOut", a)

\* Variant: the claim is for taken jobs.
TimeoutClaim_Taken(i, a) ==
  /\ jobs[i].status = "Taken"
  /\ a = jobs[i].worker
  /\ now >= jobs[i].deadline
  /\ Settle(i, "TimedOut", a)

TimeoutClaim(i, a) ==
  /\ jobs[i].status = "Completed"
  /\ a = jobs[i].worker
  /\ now >= jobs[i].deadline
  /\ Settle(i, "TimedOut", a)

\* A block with a later timestamp.
Tick == /\ now < MaxTime
        /\ now' = now + 1
        /\ UNCHANGED <<jobs, bank>>

Next ==
  \/ \E a \in Account, r \in 0..MaxReward, t \in Token, d \in 0..MaxTime :
       PostJob(a, r, t, d)
  \/ \E i \in DOMAIN jobs, a \in Account :
       \/ TakeJob(i, a)
       \/ \E h \in Hash \cup {NoHash} : CompleteJob(i, a, h)
       \/ AcceptCompletion(i, a)
       \/ CancelJob(i, a)
       \/ TimeoutClaim(i, a)
  \/ Tick

Spec == Init /\ [][Next]_vars

\* Time passes, and a worker claims what it is owed: both in the hands of
\* others than the poster.
FairSpec ==
  /\ Spec
  /\ WF_vars(Tick)
  /\ \A i \in 1..MaxJobs, a \in Account :
       WF_vars(i \in DOMAIN jobs /\ TimeoutClaim(i, a))

-----------------------------------------------------------------------------
(* Properties.                                                             *)

Live(j) == j.status \in {"Open", "Taken", "Completed"}

\* What the contract owes of token t for job i.
Owed(js, i, t) ==
  IF i \in DOMAIN js /\ Live(js[i]) /\ js[i].token = t THEN js[i].reward ELSE 0

\* The contract holds, of every token, exactly the rewards of its live jobs:
\* the only check of the balance is the transfer's own, in _payOut.
Solvent ==
  \A t \in Token :
    bank[t][Contract] = SumFunction([i \in DOMAIN jobs |-> Owed(jobs, i, t)])

\* A call touches one job, and moves into or out of the contract exactly the
\* change in what that job is owed.
Booked(i, t) ==
  /\ DOMAIN jobs' \subseteq DOMAIN jobs \cup {i}
  /\ \A k \in DOMAIN jobs \ {i} : jobs'[k] = jobs[k]
  /\ bank'[t][Contract] + Owed(jobs, i, t) = bank[t][Contract] + Owed(jobs', i, t)
Books == \A t \in Token : \E i \in DOMAIN jobs' : Booked(i, t)
BooksBalance == [][Books]_<<jobs, bank>>

\* Status, worker, result and deadline agree: a worker is someone other than
\* the poster, is there from the take on, has delivered by the time it is
\* paid, and is paid without the poster's consent only after the deadline.
Worked == {"Taken", "Completed", "Accepted", "TimedOut"}
Delivered == {"Completed", "Accepted", "TimedOut"}
Agrees(j) ==
  /\ j.worker # j.poster
  /\ j.worker # NoAccount <=> j.status \in Worked
  /\ j.result # NoHash <=> j.status \in Delivered
  /\ j.status = "TimedOut" => now >= j.deadline
RecordsAgree == \A i \in DOMAIN jobs : Agrees(jobs[i])

\* Who is entitled to the reward of a job that has ended.
Payee(j) == IF j.status = "Cancelled" THEN j.poster ELSE j.worker

\* An account gains a token only as the payee of a job that was live until
\* this call, and gains exactly its reward.
PaidFor(i, a, t) ==
  /\ Live(jobs[i]) /\ ~Live(jobs'[i])
  /\ jobs[i].token = t /\ Payee(jobs'[i]) = a
  /\ bank'[t][a] = bank[t][a] + jobs[i].reward
GainsAreRewards ==
  \A a \in Account, t \in Token :
    bank'[t][a] > bank[t][a] => \E i \in DOMAIN jobs : PaidFor(i, a, t)
OnlyRewardsArePaid == [][GainsAreRewards]_vars

\* The terms of a job never change, a worker keeps it, a result stays, and a
\* job that has ended stays as it is: no reward is paid twice.
KeepsTerms(j, new) ==
  /\ \A f \in {"poster", "reward", "token", "deadline"} : new[f] = j[f]
  /\ j.worker # NoAccount => new.worker = j.worker
  /\ j.result # NoHash => new.result = j.result
  /\ ~Live(j) => new = j
TermsStep ==
  \A i \in DOMAIN jobs : i \in DOMAIN jobs' /\ KeepsTerms(jobs[i], jobs'[i])
TermsKept == [][TermsStep]_vars

\* "timeoutClaim ... gives worker the reward when poster ghosts": completed
\* work is paid for whatever the poster does, unless the worker cannot be
\* sent the token.
CompletedIsPaid ==
  \A i \in 1..MaxJobs :
    (/\ i \in DOMAIN jobs /\ jobs[i].status = "Completed"
     /\ <<jobs[i].token, jobs[i].worker>> \notin Refused)
    ~> (i \in DOMAIN jobs /\ jobs[i].status \in {"Accepted", "TimedOut"})
=============================================================================
