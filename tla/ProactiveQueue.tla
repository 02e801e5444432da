--------------------------- MODULE ProactiveQueue ---------------------------
(***************************************************************************)
(* The queue of proactive reminders and drafts (proactive/repository.py)   *)
(* and its scheduler (proactive/runtime.py).  A tick claims due jobs one   *)
(* after the other; a reminder is published at once, a draft is charged to *)
(* the day's budget and given to the shared worker pool, which calls the   *)
(* model and publishes what it wrote.  Meanwhile the user cancels, narrows *)
(* the scope, quiet hours begin, the source of a job changes, leases run   *)
(* out, and the process stops, crashes and restarts.                       *)
(*                                                                         *)
(* Each action is one transaction, with the in-memory steps around it.     *)
(* Times are distances from now.  A tick reads the clock once, when it     *)
(* starts, and uses that reading up to MaxLag later; times it writes are   *)
(* counted from there.  The companion's jobs, which only a visible client  *)
(* asks for, and the limits on the numbers of rows (100 queued, 2000 kept, *)
(* 4 a tick) are left out.                                                 *)
(***************************************************************************)
EXTENDS Integers, FiniteSets

CONSTANTS
  Jobs,
  None,
  Scopes,                     \* sets of kinds the user may allow
  Budget,                     \* Budget[k]: of jobs of kind k in a rolling day
  MaxAttempts,                \* leases of a job before it fails
  Lease, DraftTime, Retry, Later, Day,   \* durations
  Keep,                       \* how long a settled row is kept, from its creation
  MaxLag                      \* how stale the clock reading of a tick gets

Kinds == {"draft", "reminder"}   \* interview_draft; every kind without a model

ASSUME NoneAssumption == None \notin Jobs \cup Kinds \cup Int
ASSUME JobAssumption == IsFiniteSet(Jobs)
ASSUME ScopeAssumption == Scopes \subseteq SUBSET Kinds
ASSUME DurationAssumption ==
  /\ {MaxAttempts, Lease, Retry, Later, Day, Keep} \subseteq Nat \ {0}
  /\ Budget \in [Kinds -> Nat \ {0}]
  /\ MaxLag \in 0..Day /\ DraftTime \in 1..Lease

VARIABLES
  job,     \* proactive_jobs
  calls,   \* model calls made for each job, ever
  pool,    \* what the worker pool holds for each job
  sched,   \* where the tick is, its job, the age of its clock reading
  scope,   \* kinds the user's policy allows
  proc     \* up, stopping (_stop is set), down

vars == <<job, calls, pool, sched, scope, proc>>

Active == {"pending", "leased", "running"}     \* ACTIVE
Purgeable == {"succeeded", "failed", "cancelled"}
Settled == Purgeable \cup {"result_unknown"}
AtLeast(a, b) == IF a > b THEN a ELSE b
AtMost(a, b) == IF a < b THEN a ELSE b

NewJob == [state |-> "absent", kind |-> None, current |-> TRUE, past |-> 0, spent |-> None,
           age |-> 0, left |-> -MaxLag, wait |-> -MaxLag, attempt |-> 0, mine |-> FALSE]
NoRun == [at |-> "none", stopped |-> FALSE, generation |-> 0]
IdleTick == [at |-> "idle", job |-> None, lag |-> 0]

\* "spent" is the time since the charge of a draft (model_started_at) or the
\* publication of a reminder (published_at); "past" is 0 until the job expires, and
\* counts from 1 after; "left" is left of the lease, "wait"
\* until the next attempt; "mine": owned by the scheduler of this process; "age" is
\* the time since created_at.  The generation of an execution is its attempt: claim
\* raises both.
TypeOK ==
  /\ job \in [Jobs -> [state : {"absent", "purged"} \cup Active \cup Settled,
                       kind : Kinds \cup {None}, current : BOOLEAN, past : 0..(MaxLag + 1),
                       spent : (0..Day) \cup {None}, age : 0..(Keep + 1), left : -MaxLag..Lease,
                       wait : -MaxLag..AtLeast(Retry, Later),
                       attempt : 0..MaxAttempts, mine : BOOLEAN]]
  /\ calls \in [Jobs -> Nat]
  /\ pool \in [Jobs -> [at : {"none", "queued", "called"}, stopped : BOOLEAN,
                          generation : 0..MaxAttempts]]
  /\ sched \in [at : {"idle", "ready", "claimed", "begun"}, job : Jobs \cup {None},
                lag : 0..MaxLag]
  /\ scope \subseteq Kinds
  /\ proc \in {"up", "stopping", "down"}

Init ==
  /\ job = [j \in Jobs |-> NewJob] /\ calls = [j \in Jobs |-> 0]
  /\ pool = [j \in Jobs |-> NoRun] /\ sched = IdleTick
  /\ scope \in Scopes /\ proc = "up"

-----------------------------------------------------------------------------
(* Rows. *)

\* Nobody looks at the times, the owner and the attempts of a settled row, nor at
\* the source of one without a result, nor at the age of one that is kept for good.
Settle(row, state) ==
  [row EXCEPT !.state = state, !.left = -MaxLag, !.wait = -MaxLag, !.past = 0,
              !.age = IF state \in Purgeable THEN @ ELSE 0,
              !.attempt = 0, !.mine = FALSE, !.current = @ /\ state = "succeeded"]

Cancelled(row) == Settle(row, "cancelled")
Postponed(row, wait) ==
  [row EXCEPT !.state = "pending", !.wait = wait, !.left = -MaxLag, !.mine = FALSE]

\* fail: by the owner, of a job that is not settled.
Fail_Any(row, state) ==   \* mutant: of any job
  Settle(row, state)
Fail(row, state) == IF row.mine /\ row.state \in Active THEN Settle(row, state) ELSE row

\* The source, the scope and the expiry, read at a clock that is lag old.
Unwanted(j, lag) ==
  ~job[j].current \/ job[j].kind \notin scope \/ job[j].past > lag

\* What the budget of j counts at that clock: the rows of its kind that are
\* still there.
Retained(i) == job[i].state \notin {"absent", "purged"}
Recent(j, lag) ==
  {i \in Jobs : /\ job[i].kind = job[j].kind /\ Retained(i)
                /\ job[i].spent # None /\ job[i].spent - lag < Day}
OverBudget_Never(j, lag) == FALSE   \* mutant: the budget is not looked at
OverBudget(j, lag) ==
  Cardinality(Recent(j, lag)) >= Budget[job[j].kind]

\* reconcile_source_changes, then an interrupt for the runs of cancelled rows.
Reconciled(j) ==
  IF job[j].state \in Active /\ ~job[j].current THEN Cancelled(job[j]) ELSE job[j]
Interrupted(rows) ==
  [j \in Jobs |-> IF rows[j].state = "cancelled" /\ pool[j].at # "none"
                    THEN [pool[j] EXCEPT !.stopped = TRUE] ELSE pool[j]]

-----------------------------------------------------------------------------
(* A tick. *)

\* discover forgets the known results of rows that are a week old, whenever they were
\* charged or published, and queues what it finds.  The kind and the charge of a row
\* that is gone are history, which no action reads.
Forgettable(row) == row.state \in Purgeable /\ row.age > Keep
Purged(row) == [NewJob EXCEPT !.state = "purged", !.kind = row.kind, !.spent = row.spent]

StartTick ==
  /\ proc = "up" /\ sched.at = "idle"
  /\ LET rows == [j \in Jobs |-> Reconciled(j)]
         new == {j \in Jobs : rows[j].state = "absent"}
     IN  /\ \/ job' = rows
            \/ \E found \in SUBSET new : \E kind \in [found -> scope] :
                 job' = [j \in Jobs |->
                           IF j \in found
                           THEN [NewJob EXCEPT !.state = "pending", !.kind = kind[j]]
                           ELSE IF Forgettable(rows[j]) THEN Purged(rows[j]) ELSE rows[j]]
         /\ pool' = Interrupted(rows)
  /\ sched' = [IdleTick EXCEPT !.at = "ready"]
  /\ UNCHANGED <<calls, scope, proc>>

\* A lease that ran out: a charged draft is never run again.
Expired(row) == row.state \in {"leased", "running"} /\ row.left + sched.lag <= 0
Charged_Never(j) == FALSE   \* mutant: a charged draft is run again
Charged(j) == job[j].kind = "draft" /\ job[j].spent # None
RecoveredState(j) ==
  IF Charged(j) THEN Settle(job[j], "result_unknown")
  ELSE IF job[j].attempt >= MaxAttempts THEN Settle(job[j], "failed")
  ELSE Postponed(job[j], Retry - sched.lag)
Recovered_Never(j) == job[j]   \* mutant: nobody looks after lost leases
Recovered(j) == IF Expired(job[j]) THEN RecoveredState(j) ELSE job[j]

\* Leases are also lost to a spent budget, so that attempts have no bound; beyond
\* MaxAttempts they are no longer counted.
Leased_Longer(row) ==   \* mutant: the lease is counted from a later time
  [row EXCEPT !.state = "leased", !.mine = TRUE, !.left = Lease + sched.lag,
              !.wait = -MaxLag, !.attempt = AtMost(@ + 1, MaxAttempts)]
Leased(row) ==
  [row EXCEPT !.state = "leased", !.mine = TRUE, !.left = Lease - sched.lag,
              !.wait = -MaxLag, !.attempt = AtMost(@ + 1, MaxAttempts)]

Claim ==
  /\ proc = "up" /\ sched.at = "ready"
  /\ LET rows == [j \in Jobs |-> Recovered(j)]
         due == {j \in Jobs : rows[j].state = "pending" /\ rows[j].wait + sched.lag <= 0}
         refused == {j \in due : Unwanted(j, sched.lag)}
         kept == [j \in Jobs |-> IF j \in refused THEN Cancelled(rows[j]) ELSE rows[j]]
     IN  \E quiet \in BOOLEAN :
           IF quiet \/ due = refused
           THEN job' = kept /\ sched' = IdleTick
           ELSE \E j \in due \ refused :
                  /\ job' = [kept EXCEPT ![j] = Leased(kept[j])]
                  /\ sched' = [sched EXCEPT !.at = "claimed", !.job = j]
  /\ UNCHANGED <<calls, pool, scope, proc>>

EndTick ==
  /\ proc = "stopping" /\ sched.at = "ready"
  /\ sched' = IdleTick
  /\ UNCHANGED <<job, calls, pool, scope, proc>>

\* The charge is in the row before anything is dispatched.
Begun(j) ==
  IF job[j].kind = "draft"
  THEN [job[j] EXCEPT !.state = "running", !.spent = sched.lag,
                      !.left = AtMost(@, DraftTime - sched.lag)]
  ELSE [job[j] EXCEPT !.state = "running"]

Begin ==
  /\ proc # "down" /\ sched.at = "claimed"
  /\ LET j == sched.job
         row == job[j]
     IN  IF row.state # "leased" \/ ~row.mine \/ row.left + sched.lag <= 0
         THEN UNCHANGED job /\ sched' = [sched EXCEPT !.at = "ready", !.job = None]
         ELSE IF Unwanted(j, sched.lag)
         THEN /\ job' = [job EXCEPT ![j] = Cancelled(row)]
              /\ sched' = [sched EXCEPT !.at = "ready", !.job = None]
         ELSE \E quiet \in BOOLEAN :
                IF quiet \/ OverBudget(j, sched.lag)
                THEN /\ job' = [job EXCEPT ![j] = Postponed(row, Later - sched.lag)]
                     /\ sched' = [sched EXCEPT !.at = "ready", !.job = None]
                ELSE /\ job' = [job EXCEPT ![j] = Begun(j)]
                     /\ sched' = [sched EXCEPT !.at = "begun"]
  /\ UNCHANGED <<calls, pool, scope, proc>>

\* The output slot: the owner, the generation and the lease, then everything
\* that might have changed since, in one transaction.  The form of a draft is checked
\* once more here; what the model hands on has passed the same check (configured_draft).
Lost(j, generation) ==
  \/ job[j].state # "running" \/ ~job[j].mine
  \/ job[j].attempt # generation \/ job[j].left <= 0
Result(j) == [Settle(job[j], "succeeded") EXCEPT !.spent = IF job[j].kind = "draft" THEN @ ELSE 0]
Published_Blindly(j, generation, quiet) ==   \* mutant: it looks only at the row
  IF Lost(j, generation) THEN job[j] ELSE Result(j)
Published(j, generation, quiet) ==
  IF Lost(j, generation) THEN job[j]
  ELSE IF Unwanted(j, 0) \/ quiet \/ (job[j].kind = "reminder" /\ OverBudget(j, 0))
  THEN Cancelled(job[j])
  ELSE Result(j)

PublishReminder ==
  /\ proc # "down" /\ sched.at = "begun" /\ job[sched.job].kind = "reminder"
  /\ \E quiet \in BOOLEAN :
       job' = [job EXCEPT ![sched.job] = Published(sched.job, @.attempt, quiet)]
  /\ sched' = [sched EXCEPT !.at = "ready", !.job = None]
  /\ UNCHANGED <<calls, pool, scope, proc>>

\* A lease that is over is a failure; what the manager refuses, being full or
\* closed, stays unknown, for the draft is charged.
Dispatch ==
  /\ proc # "down" /\ sched.at = "begun" /\ job[sched.job].kind = "draft"
  /\ LET j == sched.job
     IN  \/ /\ job[j].left <= 0
            /\ job' = [job EXCEPT ![j] = Fail(@, "failed")]
            /\ UNCHANGED pool
         \/ /\ job[j].left > 0 /\ pool[j].at = "none"
            /\ pool' = [pool EXCEPT ![j] = [at |-> "queued", stopped |-> FALSE,
                                            generation |-> job[j].attempt]]
            /\ UNCHANGED job
         \/ /\ job[j].left > 0
            /\ job' = [job EXCEPT ![j] = Fail(@, "result_unknown")]
            /\ UNCHANGED pool
  /\ sched' = [sched EXCEPT !.at = "ready", !.job = None]
  /\ UNCHANGED <<calls, scope, proc>>

-----------------------------------------------------------------------------
(* The worker pool, as the operation given to it sees it. *)

\* The manager revokes a run at its deadline and when it closes, and drops a
\* revoked one that has not started.
Revoke(j) ==
  /\ pool[j].at # "none" /\ ~pool[j].stopped
  /\ job[j].left <= 0 \/ proc = "stopping"
  /\ pool' = [pool EXCEPT ![j].stopped = TRUE]
  /\ UNCHANGED <<job, calls, sched, scope, proc>>

Drop(j) ==
  /\ pool[j].at = "queued" /\ pool[j].stopped
  /\ pool' = [pool EXCEPT ![j] = NoRun]
  /\ UNCHANGED <<job, calls, sched, scope, proc>>

Over(j) == pool[j].stopped \/ proc # "up"

\* The worker starts: dispatch_valid, then the model.
Start(j) ==
  /\ pool[j].at = "queued"
  /\ \E quiet \in BOOLEAN :
     IF Over(j) \/ Lost(j, pool[j].generation) \/ Unwanted(j, 0) \/ quiet
     THEN /\ job' = [job EXCEPT ![j] = IF Over(j) THEN Fail(@, "failed")
                                       ELSE IF Lost(j, pool[j].generation) THEN @
                                       ELSE Cancelled(@)]
          /\ pool' = [pool EXCEPT ![j] = NoRun]
          /\ UNCHANGED calls
     ELSE /\ calls' = [calls EXCEPT ![j] = @ + 1]
          /\ pool' = [pool EXCEPT ![j].at = "called"]
          /\ UNCHANGED job
  /\ UNCHANGED <<sched, scope, proc>>

\* The model answers, fails or was cut off.
Outcome_Failed(j) == Fail(job[j], "failed")   \* mutant: a cut-off call reads as not made
Outcome(j) == Fail(job[j], "result_unknown")
Finish(j) ==
  /\ pool[j].at = "called"
  /\ \/ job' = [job EXCEPT ![j] = Outcome(j)]
     \/ /\ ~Over(j)
        /\ \E quiet \in BOOLEAN :
             job' = [job EXCEPT ![j] = Published(j, pool[j].generation, quiet)]
  /\ pool' = [pool EXCEPT ![j] = NoRun]
  /\ UNCHANGED <<calls, sched, scope, proc>>

-----------------------------------------------------------------------------
(* The user, the sources, the clock.  Quiet hours may begin or end, by the *)
(* clock or by a change of the policy, between any two looks at them.      *)

\* Both requests end by stopping what is cancelled.
Withdraw(j) == [i \in Jobs |-> IF i = j THEN Cancelled(job[j]) ELSE Reconciled(i)]
UserCancel(j) ==
  /\ proc = "up" /\ job[j].state \in Active
  /\ job' = Withdraw(j) /\ pool' = Interrupted(job')
  /\ UNCHANGED <<calls, sched, scope, proc>>

SetScope(kinds) ==
  /\ proc = "up" /\ kinds # scope
  /\ scope' = kinds
  /\ job' = [j \in Jobs |-> IF job[j].state \in Active /\ job[j].kind \notin kinds
                            THEN Cancelled(job[j]) ELSE Reconciled(j)]
  /\ pool' = Interrupted(job')
  /\ UNCHANGED <<calls, sched, proc>>

SourceChange(j) ==
  /\ job[j].state \in Active /\ job[j].current
  /\ job' = [job EXCEPT ![j].current = FALSE, ![j].past = 0]
  /\ UNCHANGED <<calls, pool, sched, scope, proc>>

\* expires_at passes: when, the policy and the source decide.  It makes no
\* difference to a job whose source has changed.
Expire(j) ==
  /\ job[j].state \in Active /\ job[j].current /\ job[j].past = 0
  /\ job' = [job EXCEPT ![j].past = 1]
  /\ UNCHANGED <<calls, pool, sched, scope, proc>>

\* The age of a charge or a publication stops mattering after a day, that of a row
\* once it is past Keep.
Older(j) ==
  LET row == job[j]
  IN  [row EXCEPT !.past = IF @ = 0 THEN 0 ELSE AtMost(@ + 1, MaxLag + 1),
                  !.spent = IF @ = None THEN None ELSE AtMost(@ + 1, Day),
                  !.age = IF row.state \in Active \cup Purgeable
                            THEN AtMost(@ + 1, Keep + 1) ELSE 0,
                  !.left = AtLeast(@ - 1, -MaxLag), !.wait = AtLeast(@ - 1, -MaxLag)]
Advance ==
  /\ sched.at = "idle" \/ sched.lag < MaxLag
  /\ job' = [j \in Jobs |-> Older(j)]
  /\ sched' = [sched EXCEPT !.lag = IF sched.at = "idle" THEN 0 ELSE @ + 1]
  /\ UNCHANGED <<calls, pool, scope, proc>>

-----------------------------------------------------------------------------
(* The process. *)

\* stop: what is running here is interrupted and its result left unknown.
StoppedRow(j) ==
  IF Reconciled(j).state = "running" THEN Fail(job[j], "result_unknown") ELSE Reconciled(j)
Stop ==
  /\ proc = "up"
  /\ proc' = "stopping"
  /\ job' = [j \in Jobs |-> StoppedRow(j)]
  /\ pool' = [j \in Jobs |->
                IF pool[j].at # "none" /\ (job[j].state = "running" \/ job'[j].state = "cancelled")
                THEN [pool[j] EXCEPT !.stopped = TRUE] ELSE pool[j]]
  /\ UNCHANGED <<calls, sched, scope>>

\* The end of the process, stopped or crashed: nothing in it is an owner again.
Down ==
  /\ proc # "down"
  /\ proc' = "down"
  /\ job' = [j \in Jobs |-> [job[j] EXCEPT !.mine = FALSE]]
  /\ pool' = [j \in Jobs |-> NoRun] /\ sched' = IdleTick
  /\ UNCHANGED <<calls, scope>>

Restart ==
  /\ proc = "down"
  /\ proc' = "up"
  /\ UNCHANGED <<job, calls, pool, sched, scope>>

-----------------------------------------------------------------------------
Tick == StartTick \/ Claim \/ EndTick \/ Begin \/ PublishReminder \/ Dispatch

Next ==
  \/ Tick
  \/ \E j \in Jobs : \/ Revoke(j) \/ Drop(j) \/ Start(j) \/ Finish(j)
                     \/ UserCancel(j) \/ SourceChange(j) \/ Expire(j)
  \/ \E kinds \in Scopes : SetScope(kinds)
  \/ Advance
  \/ Stop \/ Down \/ Restart

\* The scheduler's thread goes on and time passes, so that every job expires.
\* Nothing is asked of the model, of the worker pool, of the user or of whoever
\* restarts the process.
Fairness ==
  WF_vars(Tick) /\ WF_vars(Advance) /\ \A j \in Jobs : WF_vars(Expire(j))

Spec == Init /\ [][Next]_vars
FairSpec == Spec /\ Fairness

-----------------------------------------------------------------------------
(* Properties. *)

\* A draft calls the model at most once, and never before it is charged, however
\* often leases are lost, the process restarts or an answer comes late.
ModelCalledOnce ==
  \A j \in Jobs :
    calls[j] <= 1 /\ (calls[j] > 0 => job[j].kind = "draft" /\ job[j].spent # None)

\* In any rolling day no more drafts are charged and no more reminders published
\* than the budgets say, as far as the rows in the table show it: whatever the age of
\* a tick's clock reading, the lost leases and the drafts begun beside it.
Spent(k) == {j \in Jobs : job[j].kind = k /\ job[j].spent # None /\ job[j].spent < Day}
Counted(k) == {j \in Spent(k) : Retained(j)}
CountedBudgetKept == \A k \in Kinds : Cardinality(Counted(k)) <= Budget[k]

\* The same of everything charged and published, the rows that discover has since
\* forgotten included: the limit on a rolling day that ADR 0012 states.  It fails.  A
\* job may wait for days and be charged when its row is nearly a week old; once that
\* is over, the row is forgotten and its charge with it.
BudgetKept == \A k \in Kinds : Cardinality(Spent(k)) <= Budget[k]

\* The inbox tells what happened: a draft that reads as failed has cost no model
\* call, a result was published from the source the job was queued for and, if it
\* is a draft, after its call.
OutcomeTruthful ==
  \A j \in Jobs :
    /\ job[j].state = "failed" => calls[j] = 0
    /\ job[j].state = "succeeded" =>
         job[j].current /\ calls[j] = IF job[j].kind = "draft" THEN 1 ELSE 0

\* A job that was cancelled, given up or answered stays that way, whatever worker,
\* tick or shutdown still holds it; it can only be forgotten.
SettledIsFinal ==
  [][\A j \in Jobs : job[j].state \in Settled =>
       job'[j].state \in {job[j].state, "purged"}]_vars

\* A job is settled in the end unless the process stops or crashes first, although
\* its worker may hang, its source may change and quiet hours may never end.
JobsSettle ==
  \A j \in Jobs : []<>(job[j].state \notin Active \/ proc # "up")
=============================================================================
