# OfferPilot: a verification project

TLA+ models of the concurrent core of OfferPilot, the TLC runs that check them and
the theorems TLAPS proves about them. Paths are relative to `src/src/offerpilot/`
unless they start with `src/`.

OfferPilot is a local job-search assistant. Its assistant, Pilot, answers in
*turns*. A turn runs on a worker thread for minutes, calls models, writes to one
SQLite database, may propose *write operations* that the user must confirm, can
be stopped, can time out, and can outlive the HTTP request, or the process, that
started it. What makes that correct is the durable execution lease, the Runtime
manager and the event stream. Behind them are three more pieces of the same kind: the
ledger of write operations, the queue of proactive jobs and the jobs of the knowledge
base, each a table of rows with leases or owners that outlive requests and processes.

## 1. Inventory

| Part | State | Operations | Hard behaviour |
|---|---|---|---|
| Durable turn control: `pilot_control.py`, `pilot_runtime/turn_control.py`, the control of `pilot_runtime/event_sink.py` | tables `pilot_executions`, `pilot_turns`, `pilot_interrupt_commands`; per process: controls with a local validity and a heartbeat thread | claim (start, confirmation), renew, finish, try_finish, interrupt, observe expiry, commit fence, reconcile epoch | every step races with the worker's transaction; wall clock; crash; database busy |
| Runtime manager: `pilot_runtime/managed_execution.py`, `execution_budget.py` | queue, reservations, workers, one record per run, deadlines | reserve, submit, dequeue, run, title, publish, interrupt, watchdog, close | four threads race for the end of a run; hung workers |
| Event stream: `managed_execution.py` (subscriptions), `runtime_transport.py` | ring of numbered events, event budget, bounded subscriptions | emit, terminal events, snapshot, subscribe, get, disconnect | slow readers, reclaimed events, reconnection |
| HTTP host: `api.py`, `pilot_timeline.py` | admission gate, request index | admit, submit, status, events, interrupt, confirm, lifespan | steps on both sides of a database commit |
| Write-operation ledger: `ai/write_operations.py`, `pilot_runtime/{service,persistence,continuation,deterministic,compensation,...}.py` | operations with phases, receipts, compensation records | propose, execute, reject, fence, deliver, take over, undo, delete | lost answers of a COMMIT; late owners; timeouts inside the commit; repeated confirmation |
| Proactive assistance: `proactive/` | jobs (pending, leased, running, ...), policy revision | discover, claim, begin, dispatch, publish, fail, cancel, change scope, stop | scope or source withdrawn while a job runs; a stale clock; charging before a call |
| Knowledge jobs: `knowledge/worker.py`, `repository.py` | jobs with lease and attempt token | claim, attempt, commit, fail, complete, cancel, rebuild, delete, recover | late owners, lost leases, two threads and requests on one Source |
| Product actions: `product_actions/` | proposals, receipts | issue, confirm, compensate | shares the ledger's protocol |
| Mock interviews, run journal, job mail, external agents | leases, append-only records, imports | | later or not at all (section 6) |
| Business records, context projection, presentation, evaluation, web, desktop | rows with revisions, pure data, UI | | not modelled (section 6) |

How they meet. The host reserves a place in the manager, admits the turn and
claims its lease in one database transaction, builds the control, and submits the
run. The worker runs the operation under the control's scope; every commit of
the operation's sessions passes `_commit_fence`, which compares the scope with
the execution's row in the same transaction. A stop command is written to the
database first, then told to the manager, then to the control. The end of a run
is recorded durably through the control's `finish`, and in the manager by the
terminal event the readers see. A confirmation turn drives the ledger: the write and
its decision are one transaction, the messages about its outcome another, owned by
that turn under a lease. The proactive scheduler gives drafts to the same worker pool;
the knowledge worker has two threads of its own.

What makes each part correct:

- *control*: one running execution per conversation; a result is final; a stop
  that was answered keeps the execution's writes out; only the newest execution
  leaves writes behind; rows of different tables agree; nothing stays locked.
- *manager*: the queue stays within its limit; each run is published once and
  for good; nothing starts after its end; every run ends; control is withdrawn.
- *stream*: no silent gap; an end is an end; bounded; no reader hangs.
- *ledger*: a confirmed write is applied once, told once and undone at most once,
  over lost answers, crashes and takeovers; the card and the undo on offer are true.
- *proactive queue*: a draft is charged before its one model call; the budgets of a
  rolling day hold (of the rows that are kept they do; not of everything that was
  charged: finding 4); a withdrawn scope or source wins; what the inbox says happened
  did happen.
- *knowledge jobs*: a late owner publishes nothing; an attempt in progress has an
  owner that recovery will find, except where its job was cancelled, after which it may
  stay in progress for good (section 3, knowledge jobs (a)); every job ends.

`PROJECT.json` lists the hazards with their lines and the properties that cover
them; a hazard without a property says why.

## 2. Modules

| Module | Models |
|---|---|
| `TurnOwnership` | abstract specification: exclusive, one-time ownership of a conversation, and who may write last |
| `PilotControl` | the durable lease and the process-local control, with crash and restart |
| `PilotControl_proofs` | theorems about `PilotControl` |
| `PilotOwnership_proofs` | theorems about the turns of `PilotControl`, and that it implements `TurnOwnership` |
| `ManagedExecution` | the Runtime manager |
| `ManagedExecution_proofs` | theorems about `ManagedExecution` |
| `RuntimeStream` | the events of one run and its readers |
| `RuntimeStream_proofs` | theorems about `RuntimeStream` |
| `ConfirmedOnce` | abstract specification: what the ledger promises of the writes of a conversation |
| `WriteOperations` | the write-operation ledger and the requests that drive it |
| `WriteOperations_proofs` | theorems about `WriteOperations` |
| `ProactiveQueue` | the queue of proactive jobs, its scheduler, and the drafts in the worker pool |
| `ProactiveQueue_proofs` | theorems about `ProactiveQueue` |
| `KnowledgeJobs` | the jobs of one Source of the knowledge base and the two threads that run them |
| `KnowledgeJobs_proofs` | theorems about `KnowledgeJobs` |
| `MC*` | instances for TLC |

### PilotControl

`exec` is the table `pilot_executions` keyed by (turn, generation): a state, the
conversation's execution sequence, the runtime epoch and, for the two timestamps
`renewed_at`/`expires_at`, the *age* of the last renewal by the wall clock;
`execution_state` calls a running row valid while `0 <= age < LeaseMs`. `turn` is
`pilot_turns.state`; `pending` and `op` are the pending operation of a conversation
and as much of the ledger as claims look at; `receipt` is the table of stop
commands. `ctl` is process memory: a control's phase, its in-memory state
(`InMemoryRuntimeInvocationControl`), whether its scope is revoked, the monotonic
age of its local validity, the heartbeat thread, and `seen`, the answer of an
`is_active` that may be stale when it is used. `lastWriter` is a history variable.

Actions, one per operation: `ClaimStart`, `ClaimConfirmation`, `ClaimLate` (the
inline confirmation claims from inside the worker), `Attach`, `Finish`,
`AdmissionFailed`, `CloseFinish`, `RequestCancel`, `RequestTimeout`, `Observe`,
`MarkCompleted`, `RenewBegin`/`RenewSucceeds`/`RenewFails` (the heartbeat waits for
the database in the middle), `Begin`/`Commit`/`Fenced` (a worker's transaction),
`StartTitle`, `Interrupt`, `ObserveExpiry` (reads persist an expiry they see),
`Close`, `Crash`, `ReconcileRuntimeEpoch`, `Tick`, `ClockBack`.

Decisions worth knowing:

- SQLite has one writer. A `BEGIN IMMEDIATE .. COMMIT` block of the repository is one
  step that needs `writer = None`. A worker's transaction is long and holds `writer`
  from `Begin` to `Commit` or `Fenced`. Waiting is not a state; where the code goes on
  after SQLite's busy timeout (`try_finish`, `_finish_safely`, `renew`) the step may
  be dropped at any time, since the rest of the program writes too. The lock order
  inversion between `finish` and `run_if_active`, which only that timeout breaks, is
  therefore not visible as a deadlock.
- `run_if_active` holds the control's lock for the whole transaction (kinds `fenced`
  and `recovery`), so a cancel waits for it; a `plain` transaction does not.
- The row of a turn is not touched by a stop command or an observed expiry; that is
  the code's behaviour, and `TurnAgrees` speaks of definite results only.
- `_commit_fence` lets a scope without a lease commit; such work is outside the model.

### ManagedExecution

`run` is `_ManagedRun` (state, logical terminal, worker done, stop requested,
`late` for a passed deadline, whether the operation was started, the number of
terminal events). `queue`, `queued`, `reserved` are the manager's fields, `worker` says
where each pool thread is, `control` is the invocation control with the heartbeat.
A section under the manager's lock is one step; between such sections a worker is at
`dequeued`, `entered`, `operating`, `ended`, `titling` or `titled`, and anything may
happen. `FinishException` reads "failed" also for a stopped run, because the outcome
of the terminal event has the last word. Publication and `worker_done` are one step.
A replayed request id changes nothing and is a stutter. `Evict` says what the loop
over the oldest ended records leaves (`After`, `Newer`: a record stays if it has not ended, has just ended,
or fewer than `MaxRetained` ended ones were accepted after it), and `Close` what the loop over the queue does to
each run in it. The terminal event of an
operation that emits one itself is not modelled: the API's operations do not.

### RuntimeStream

One run, seen by readers. An event is its number and the size of its payload; the
envelope adds `Overhead`. `Publish` is `_emit_event_locked`: append, count, and trim the
ring to `Fit`, dropping the fewest events after which both its counters are within their
limits, as the loop does one event at a time. `Complete` publishes the terminal event, after `Fail` has
published the error of a failed run, and `CloseSubscribers` then finishes the subscriptions: all under
the manager's lock, but a reader takes frames under its subscription's lock and may get in
between each of them. `Push` is `RuntimeSubscription._push` with the overflow that replaces the queue by one
recovery marker, `Subscription` is `_subscribe_locked` (replay, then live), `Get` and
`Stop` are `get`. A reader is a client of `runtime_transport.py`: it takes snapshots
(perhaps one page), subscribes after its cursor, disconnects and comes back; when it
may no longer read the run its stream just ends (`Disconnect`), its cursor unchanged.

### WriteOperations and ConfirmedOnce

`op` is the primary row of each operation in `write_operations` (status, decision, whether it
has an undo, and the delivery with its generation, owner and lease), `comp` the status of
its compensation row, `conv` the conversation's pending pointer, its claim and
`last_write_undo_json`. `request` is the memory of a confirmation request; `history` counts
the domain writes, undos and outcome messages that were committed: what the ledger is
*about*, so that the properties compare the two.

Each action that writes is one transaction: `Propose`, `Execute` (with the delivery inside
the same commit when the request has timed out), `Reject`, `Deliver` (perhaps with the
proposal of the next write), `Converge` (the takeover), `ProposeUndo`, `Undo`,
`UndoConflict`, `Delete`. `Begin`, `Cancel`, `TimeOut`, `Fence`, `Leave` and `Crash` are steps of
memory. `Execute` with `answered = FALSE` is a COMMIT whose answer is lost: the request goes,
the row stays with an owner nobody is. A lease is live or expired, and `Rewind` sets the
clock back. What makes a transaction roll back (conflicts, fingerprints, authority) is `Leave`.

`ConfirmedOnce` knows of each write whether it was asked, done or not done, told and taken
back. `Propose` maps to `Ask`, `Execute` and `Reject` to `Decide`, `Deliver` and `Converge` to
`Tell`, `Undo` to `TakeBack`, `Delete` to `Close`; everything else stutters.

### ProactiveQueue

`job` is the table `proactive_jobs`; `sched` says where the tick is, with the age (`lag`) of the
one clock reading it makes; `pool` is what the worker pool holds of a draft; `calls` counts
model calls, a history variable. Times are distances from now and are cut off where
nobody tells them apart, so that time can pass for ever: `spent` (time since the charge of a
draft, or the publication of a reminder), `left` of the lease, `wait` until the next attempt,
`past` since expiry, `age` since the row was created. A tick is `StartTick` (reconcile, discover, purge), then `Claim` and, per
claimed job, `Begin` and either `PublishReminder` or `Dispatch`, until nothing is due. A draft then is
`Start`ed by a worker (`dispatch_valid`, then the model call), and `Finish`ed. Quiet hours are a
free choice at each look at them. `Stop`, `Down` and `Restart` are the process. The purge goes by
`age` alone, as `discover` does it, and may forget a row that was charged a moment ago; `kind` and
`spent` of a row that is gone are history, which no action reads. `Published` leaves out one branch,
a draft that is empty or too long (`proactive/repository.py:337`-`340`): the function that writes
drafts raises on the same condition before (`proactive/runtime.py:32`).

### KnowledgeJobs

One Source (its life, extraction, Brief, winning attempt), its rows of `knowledge_jobs` in
order, and its attempts. `extractor` and `writer` are the two threads, `request` a rebuild under
way: each holds what the code holds between its transactions, so that the reads it acts on
may be old. Tokens are numbers. `create_brief_attempt` binds *some* live brief job, which need
not be the one that was claimed (`Chosen`, `inner`, `key`). `Recover` runs before every look into a
queue, and `Crash` includes what the next start does (`db._recover_knowledge_runtime`). Other
Sources are not in the model; they only keep the threads busy.

## 3. Runs

| Run | Question | Instance | Distinct states |
|---|---|---|---|
| `confirm` | one owner, final results; is a Pending left behind? does the lease implement `TurnOwnership`? (`SingleOwner`, `TerminalIsFinal`, `NoOrphanPending`, `ImplementsOwnership`) | 1 conversation, 2 turns, 1 operation, 2 controls, 2 generations, recovery and title writes | 1.01 M |
| `lease` | does an abandoned execution let go, and a stop keep its writes out? do execution and turn agree whatever the result? (`AbandonedConverges`, `StopIsRespected`, `TurnAgrees`) | 2 turns, 1 control, lease of 2 ticks, every result, a clock jump, a crash, a legacy Pending | 304 k |
| `managed` | the manager's safety | 3 runs, 1 worker, queue 1, retention 1 | 2.8 M |
| `managed_live` | does every run end? (`EveryRunEnds`) | 2 runs, 1 worker | 148 k |
| `managed_deadline` | expected violation, see findings | 2 runs, 1 worker | |
| `stream` | gaps, ends, bounds, hanging readers | 2 readers, ring 3, subscription 3, budget 4 events | 94 k |
| `stream_bytes` | expected violation, see findings | 1 reader | |
| `writes` | applied, told and undone once; are the card and the undo true? does it implement `ConfirmedOnce`? is every decided write told? | 2 operations, 2 requests, 1 way to approve, 1 clock rewind | 530 k |
| `writes_undo` | expected violation, see findings | the same, no rewind | |
| `proactive` | one charged call, budgets as the table shows them, true outcomes, final results, and does every job settle? | 2 jobs, budgets of 1, 2 attempts, durations of 1, a day of 2, lag of 1, rows kept for 1 | 831 k |
| `proactive_budget` | expected violation, see findings | 2 jobs, budgets of 1, a day of 1, rows kept for 7 | |
| `knowledge` | is the current Brief rightly so, has every attempt an owner, does every job end? | 1 Source, 1 requeue, 3 requests, 2 faults | 1.14 M |

Why the bounds are enough. The rules of the lease compare an execution with the other
running execution of its conversation and with the newest one, so two turns, or two
generations of a turn, meet every rule; conversations are independent (one suffices),
and the proofs below drop the bounds altogether for the properties they cover. A lease
of one tick already separates valid from expired; `lease` uses two so that a renewal
can happen in the middle. `confirm` has two controls, so that an older worker is still there
when a newer execution is claimed, and workers that complete; `lease` has one, with every result, a crash and a restart. A
crash between rival controls is too many states for one run; the theorems `OneOwner` and
`LeaseImplementsOwnership` cover it. `MaxGen`, `MaxSeq`, `MaxEpoch`, `MaxJumps` cap counters in
the guards; `WorkerKinds` and `WorkerResults` choose what workers do; the theorems of section 4
leave them open. In `managed` a queue of one with three runs makes reservation, rejection,
replacement of an entry that ended in the queue, and eviction happen; workers touch
only their own run and meet only under the lock, so one worker is enough, and
`managed_live` has no property that relates two of them. In `stream` the sizes 1 and 3
against limits of 2 (ring), 7 (subscription) and 8 (budget) overflow each limit by
count and by bytes. In `writes` two
operations are what a chained proposal, an undo of an earlier write and a claim of another
write need; two requests are an owner and a rival, a third would be a second rival; one rewind
lets a lease that was seen expired be live again. In `proactive` two jobs compete for a budget of one,
the first of two attempts is lost and the second is the last; a day of two ticks outlives a lease, and a lag of one makes
every comparison of the tick's clock stale by as much as a lease; rows are kept for less than a day, which makes
a charge that is forgotten inside its day a common case. `proactive_budget` has the code's
proportion, seven days to one, and fails all the same. In `knowledge` two faults
lose a job's lease twice, once more than `RequeueMax`, or lose a lease and then the process;
three requests are two rebuilds and a cancel in any order. A fourth request or a third job
would bring in no rule that compares more rows than these.
`managed` uses symmetry in the runs, `confirm` in controls and turns,
`writes_undo` in requests; runs with liveness use none.
Deadlock is checked for the leases, where time never stops; a manager that was shut
down, a stream that was read to its end, a deleted conversation, a queue in a process that is
not restarted and a Source with nothing left to do stop.

Fairness. `PilotControl`: the clock ticks and a heartbeat takes its next step; nothing
is assumed of workers or of the users of controls. `ManagedExecution`: deadlines pass,
the watchdog (a thread that wakes every 20 ms) acts, a worker goes on *between* its
calls to an operation or a title, which may never return, and the host finishes a stop
command and a shutdown it has begun. `RuntimeStream`: a connected client reads what is
there, and the thread that ends the run goes on to finish the subscriptions; the run may
stay silent. `WriteOperations`: a lease runs out, since its renewals end with a request that
has a deadline, and the client repeats a confirmation it has no outcome for, which is what
the takeover is there for; nothing else. `ProactiveQueue`: the scheduler's thread goes on, time passes and every
job expires; nothing is asked of the model, the pool, the user or whoever restarts the
process. `KnowledgeJobs`: the two threads go on, recovery runs, calls to the model return (they
have timeouts), and nobody renews the lease of a job no thread works at.

### Findings

1. `managed_deadline`. `docs/superpowers/plans/2026-09-09-harness-p3b-runtime-reattach.md`
   says that the watchdog revokes the control of an expired run. For a run that expires
   in the queue it does not (`managed_execution.py:1478`): the run is published as failed,
   its control stays active, its heartbeat goes on renewing the durable lease, and the
   conversation stays busy until a stop command or a restart.
2. `stream_bytes`. The ring's byte counter adds payload sizes and subtracts envelope
   sizes (`managed_execution.py:1158`, `1163`), so it under-counts and the ring can keep
   more payload than `ring_max_bytes`. Its limit on the number of events holds (`Bounded`).
3. `writes_undo`. A write without an undo is to clear the undo of the write before it
   (`pilot_runtime/continuation.py:2176`-`2177`). When its request has timed out, its outcome
   is delivered inside its own transaction (`pilot_runtime/composition.py:1267`) with
   `undo=None`, which the conversation store reads as "keep" (`repositories/chat.py:751`), and the
   older undo stays on offer, after a newer write.
4. `proactive_budget`. `discover` purges settled jobs by the time they were *queued*, more than seven
   days ago (`proactive/repository.py:161`-`162`), while the budgets count the rows charged or published in
   the last 24 hours (`267`-`270`, `331`-`332`). A job can wait that long: its source expires with the event,
   which `remind_at` may precede by weeks (`proactive/candidates.py:135`-`136`; a test queues one a week ahead,
   `src/tests/test_proactive_queue.py:163`), and the local service need not be running, or the budget is
   spent. Once charged and settled it is forgotten by the next discovery, and another job is charged on the same day.
   `src/docs/architecture/decisions/0012-bound-local-proactive-jobs.md:15`-`16` limits the number per rolling 24 hours; its
   line 21 allows known results of seven days ago to be purged, without saying what the seven days count from. What holds
   instead: the rows in the table stay within the budgets (`CountedBudgetKept`), and everything
   charged does if no job is charged later than six days after it was queued (`EarlyBudgetsHold`).

Seen while modelling, without a run.

*Runtime.* A stopped or completed run whose worker hangs is
ended by nobody in the manager (its durable row is ended by the stop command or keeps its
lease no longer than the heartbeat allows); a reader that arrives after the event budget
was spent is not told that progress was dropped.

*Ledger.* An undo may run before its write is delivered, and the delivery then offers the undo
of a write that was already compensated; `UndoOffered` speaks of the write, not of its
compensation. The message an undo adds to the chat is a transaction of its own and may be lost.
The in-memory flag of a timed-out write's delivery stays set if the outer COMMIT fails.

*Knowledge jobs.* (a) A brief job cancelled while it runs: the worker's safe point calls `fail_brief_attempt`, which refuses
a cancelled job, then `complete_job(canceled)`, which succeeds. Recovery looks only at running jobs, so
the attempt and the Source stay "processing" and every later rebuild fails with `brief_attempt_conflict`, until the
Source is deleted; the comment in `knowledge/worker.py:1611`-`1612` has it otherwise. `AttemptOwned`
excepts cancelled jobs for that reason. (b) Recovery says that it ends only the attempt bound to a lost job
(`knowledge/repository.py:1731`). A brief job that is cancelled after its claim and before its attempt has none;
`create_brief_attempt` passes it over and binds the attempt to another job, and recovery, on its way through the extraction
queue, then ends that one by Source and Snapshot (`1737`), while its own job runs. (c) A rebuild may
write "pending" after the job it queued has ended. (d) A deletion that was given up leaves its Source
"deleting" until the next start. (e) `create_brief_attempt` may open a fresh job, with a fresh retry count, and
a restart requeues without counting. (f) An extraction has no heartbeat: one longer than its lease
may be claimed again meanwhile.

## 4. Proofs

Seven modules of theorems, for every value of the constants that meets the named
assumptions of the modules they extend. The first theorem of each is its inductive
invariant, which TLC has checked too, on the instances above.

### PilotControl_proofs

Assumed: a distinct null value, a positive lease length, the types of the constants, and that
a legacy Pending belongs to one conversation.

| Theorem | States |
|---|---|
| `Invariance` | `Spec => []IInv` |
| `TypeCorrect` | `Spec => []TypeOK` |
| `OneOwner` | `Spec => []SingleOwner` |
| `ResultsAreFinal` | `Spec => TerminalIsFinal` |
| `StopsAreRespected` | `Spec => StopIsRespected` |

`TypeOK` alone is not inductive: an action writes the row of its control's lease, and
must know that there is one. `IInv` adds `Leased` (a control that works, and the holder of
the writer lock, has a lease) and `Down` (a process that is down has no working control
and no transaction). Each action has its own lemma.

The rest of the argument does not go action by action. Every step of the leases is one of
two kinds: a *claim* of one absent row, in a conversation where the claim has just ended
or refused every running row, or a step that leaves rows alone or takes them from running
to an ended state. The lemmas establish the kind of each step once; `SingleOwner` and
`TerminalIsFinal` follow from the kinds. For `StopIsRespected` a further invariant says
that the row of an execution whose receipt reads "stopped" is in state stopped; it is kept
because ended rows are final, and the fence passes for no row in that state.

### PilotOwnership_proofs

The same assumptions.

| Theorem | States |
|---|---|
| `TurnInvariance` | `Spec => [](Beating /\ TurnInv)` |
| `TurnsAgree` | `Spec => []TurnAgrees` |
| `NoPendingIsOrphaned` | `Spec => []NoOrphanPending` |
| `LeaseImplementsOwnership` | `Spec => ImplementsOwnership`, the refinement of `TurnOwnership` |

`TurnAgrees` needs an order among the executions of a turn: a running one is the newest
(`NewestRuns`), a turn that completed does not run again (`DoneIsLast`), and one that was not started has
none (`Unclaimed`). `TurnInv` is these with `SingleOwner` and the two properties; `Beating` says that a
heartbeat has a lease to renew. A step is quiet (it ends rows, or nothing), a claim, or a
commit (`WhatHappens`); the invariant is proved once for each kind. So is the
refinement: ending rows is `Yield`, a claim is `Take`, a commit is `Write`. It needs `SeqInv` too: the
sequence numbers of a conversation are distinct and the running execution has the largest, so the last
owner of `TurnOwnership` is well defined and a claim always takes it over.

### ManagedExecution_proofs

Assumed: a distinct null value, and positive limits of the queue and of retention. The sets of runs
and of workers may be infinite.

| Theorem | States |
|---|---|
| `ExecutionInvariant` | `Spec => []IInv` |
| `TypeCorrect` | `Spec => []TypeOK` |
| `QueueBounded` | `Spec => []QueueWithinCapacity` |
| `OneTerminalEvent` | `Spec => []PublishedOnce` |
| `EndedRunsRelease` | `Spec => []EndedReleases` |
| `FewRunsRetained` | `Spec => []RetentionBounded` |
| `ResultsStay`, `NoOperationTooLate`, `CompletionHonoured` | `Spec => ResultIsFinal`, `Spec => NoLateStart`, `Spec => CompletionWins` |

`IInv` counts and places the runs: reservations and queued runs stay within the limit (`Capacity`), an entry
of the queue waits to begin (`Entries`), a worker knows how far its run is (`Holders`), a run is in one
place only (`OnePlace`), the accepted ones are each recorded once (`Admission`), and what a record says of
its end agrees with itself and with its control (`Stories`). A row relation (`Moved`) lists the ways in which a record may
go on; most steps move every record by it and leave the places alone (`Keeps`), and submission,
dequeue and start have proofs of their own. The bound on retention is a cardinality: of the ended
records `Evict` keeps, all but the one that has just ended have fewer than `MaxRetained` newer ones; the
oldest of them has all the others among its newer ones, so there are at most `MaxRetained`.

### RuntimeStream_proofs

Assumed: a positive overhead and positive limits.

| Theorem | States |
|---|---|
| `StreamInvariant` | `Spec => []IInv` |
| `TypeCorrect` | `Spec => []TypeOK` |
| `EndsComplete` | `Spec => []EndMeansComplete` |
| `StaysBounded` | `Spec => []Bounded` |
| `EndIsTold` | once a run has ended and its subscriptions were finished, every open stream has its end before it |
| `NothingSkipped` | `Spec => NoSilentGap` |

`IInv` is `TypeOK`, `Counted` (the counters are the sums they stand for), `Retained` (the ring is the last
events, and all of them unless something was reclaimed) and `Served` for each reader: the
frames before it lead one by one from its cursor to the last event, or they are the
recovery marker. A reader's place in that chain is what makes `NoSilentGap` true of every
frame it takes, whatever was trimmed meanwhile. The byte counters are sums over sequences;
that the recursive function which defines such a sum exists, is the only one, and adds an
element at either end is proved from the least counterexample (lemmas `Least`, `SumsExist`, `BytesAppend`,
`BytesTail`).

### WriteOperations_proofs

Assumed: a distinct null value, no way to approve is called "reject", the type of the bound.

| Theorem | States |
|---|---|
| `Invariance` | `Spec => []IInv` |
| `TypeCorrect` | `Spec => []TypeOK` |
| `WritesAppliedOnce`, `OutcomesToldOnce` | `Spec => []AppliedOnce`, `Spec => []ToldOnce` |
| `PointersAgree`, `UndoOffersHold` | `Spec => []PointerConsistent`, `Spec => []UndoOffered` |
| `DecisionsFinal` | `Spec => TerminalFrozen` |
| `LedgerKeepsPromise` | `Spec => PromiseKept`, the refinement of `ConfirmedOnce` |

None of the properties is inductive: that a write is applied once depends on its row being
"proposed" when it is executed, that an outcome is told once on the delivery being
pending *and* owned. `IInv` is `TypeOK`, a tale per operation (`Tales`: what the primary row, the compensation and the
past of an operation say of each other), `Engaged` (a request that is past its start has an
operation), `PointerConsistent` and `UndoOffered`. A lemma per action shows that it keeps the tale of the one or two
operations it touches. The refinement goes action by action, along the mapping of section 2:
each step is a step of `ConfirmedOnce` or changes none of its variables.

### ProactiveQueue_proofs

Assumed: finitely many jobs, a distinct null value, positive durations and budgets, a
deadline of a draft within its lease, and a clock reading of a tick at most a day old.

| Theorem | States |
|---|---|
| `Invariance` | `Spec => []IInv` |
| `TypeCorrect` | `Spec => []TypeOK` |
| `OneCallEach` | `Spec => []ModelCalledOnce` |
| `OutcomesTrue` | `Spec => []OutcomeTruthful` |
| `SettledForGood` | `Spec => SettledIsFinal` |
| `BudgetsHold` | `Spec => []CountedBudgetKept` |
| `EarlyBudgetsHold` | `Spec /\ []AllEarly => []BudgetKept` |

`IInv` is `TypeOK`, a story per job (`Stories`: its row, its calls and its place in the pool agree) and
`Engaged` (a job the tick has begun has been charged and has cost no call yet). The story is what
`ModelCalledOnce` lacks: a job that is put back in the queue has no charge, no call and no run
in the pool. Most steps are *calm*: they leave a job as it is or give up an active one, and one
lemma (`CalmStep`) covers them all; six actions take jobs further and have a proof of their
own. Every step then either moves all jobs without spending anything, or charges one job that was
not over its budget (`Charge`). `CountedBudgetKept` follows from the second kind: what the table shows as spent is counted by the
reading the charge relied on, however stale (`CountCounts`), so there was room for one. It says
nothing of rows that were purged. `EarlyBudgetsHold` does, under a hypothesis the code does not
ensure: that no row in the table was charged or published when it was older than `Keep - Day` (`AllEarly`). A
row that is forgotten is older than `Keep`, so its charge is then at least a day old (`GoneStays`): the charges of the
last day are all in the table, and the first theorem counts them.

### KnowledgeJobs_proofs

Assumed: the null value is no number, and the limits are natural numbers.

| Theorem | States |
|---|---|
| `JobsInvariant` | `Spec => []IInv` |
| `TypeCorrect` | `Spec => []TypeOK` |
| `BriefIsCurrent` | `Spec => []CurrentBrief` |
| `AttemptsAreOwned` | `Spec => []AttemptOwned` |

Both properties are about an attempt and the job it is bound to, which need not be the one the
writer claimed. `IInv` adds what makes that safe: only Brief jobs have attempts (`Rows`), a job that waits has
none in progress (`Waiting`), the threads work at rows there are (`ExtractorAt`, `WriterAt`), and, the heart of it,
`Working`: if the job the writer holds has an attempt in progress, that is the writer's own, made in that very
job under that very token. A commit by a late owner is refused because its token, its job or its attempt is
another by then. A row relation (`Moves`) lists the ways in which a row may go on and
`Carried` says that attempts end, and rows move, with them; most steps are *calm* (`CalmStep`), and the two
claims, the creation of an attempt, the commit, the purge and the end of the process have proofs of their own.

### Model-checked only

Liveness (`AbandonedConverges`, `EveryRunEnds`, `StreamsEnd`, `DeliveryConverges`, `JobsSettle`, `JobsEnd`),
which this prover does not reach; every invariant, safety action property and refinement the passing
runs check is stated by a theorem. Induction is available only in the form the modules above use, as the least
element of a given set; there is no general principle for a predicate. The theorems about
`Bytes` and about cardinalities are therefore each proved from that.

## 5. Plan

Done: the leases with `TurnOwnership`, the manager, the stream, the ledger with `ConfirmedOnce`,
the proactive queue, the knowledge jobs, and the theorems above. Left, in this order:

1. `Admission`: the host's gate, reservation, claim, control and submission as one
   composition of the manager and the lease, with failure between any two steps, the
   status reads, and shutdown. Properties: no reservation or lease is leaked, a repeated
   request id never starts a second run, a status never contradicts the durable result.
2. `ProductActions`, mock interviews and the run journal, as far as they add a protocol of their
   own to what the ledger and the leases already are.

## 6. Not modelled

- The agent loop, model clients and tools (`ai/agent_loop.py`, `ai/client.py`, `ai/tool_*`):
  sequential code around I/O; what it shares goes through the control and the ledger.
- Business records (`repositories/`), each a single transaction with a revision check.
- Context projection, presentation, evaluation: pure functions of data and text.
- Job mail and external agents: network protocols of others.
- Web client, desktop shell, CLI, scripts, packaging.
- Runtime, in the modelled parts: the counters of model and tool calls in the budget, the
  request-id index, keep-alive frames, `snapshot_and_subscribe` (the API does not call it),
  the encoding of events.
- Ledger: writes of conversations older than it (`execute_legacy`), deterministic routes,
  archiving, clarification turns that clear a Pending, fingerprints and authority checks (they
  only make a transaction roll back).
- Proactive queue: companion jobs (a visible client asks for them), the limits of 100 queued and
  2000 kept rows and of 4 jobs a tick, the limit of one reminder a day for the same subject.
- Knowledge jobs: import and duplicates, archiving, evidence and search, what becomes of the files of a deletion
  but for the step that moves them, the passes inside one generation.

## 7. Running

    tlc -workers 2 -config MCPilotControlConfirm.cfg MCPilotControl
    tlc -workers 2 -config MCWriteOperations.cfg MCWriteOperations
    tlapm WriteOperations_proofs.tla

and so on for the other configurations and proof modules; a run takes between a second and
three minutes, a proof module about a minute.
