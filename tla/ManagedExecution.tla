-------------------------- MODULE ManagedExecution --------------------------
(***************************************************************************)
(* The Runtime manager (pilot_runtime/managed_execution.py): a bounded     *)
(* queue with reservations, a fixed pool of workers, a watchdog over the   *)
(* deadlines, interrupts and shutdown, and the one terminal state each run *)
(* publishes.  The invocation control of a run (turn_control.py) is here   *)
(* as its in-memory state and the heartbeat that renews the durable lease; *)
(* PilotControl has the rest of it.                                        *)
(*                                                                         *)
(* Everything done under the manager's lock is one step.  A run has passed *)
(* its deadline once it is "late"; what time it is matters to nothing else *)
(* here.  The events of a run and its readers are in RuntimeStream; here   *)
(* only its terminal event is counted.                                     *)
(***************************************************************************)
EXTENDS Integers, FiniteSets, Sequences

CONSTANTS
  Runs,         \* executions (turn id, generation) the host admits
  Workers,      \* threads of the pool: run_workers of them
  None,
  MaxQueue,     \* max_queue
  MaxRetained   \* max_retained_runs

ASSUME NoneAssumption == None \notin Runs
ASSUME LimitAssumption == MaxQueue \in Nat \ {0} /\ MaxRetained \in Nat \ {0}

VARIABLES
  run,       \* _ManagedRun by run
  reserved,  \* _admission_reservations
  queue,     \* _work_queue
  queued,    \* _queued_count
  accepted,  \* the runs submitted so far, oldest first (accepted_at)
  worker,    \* the workers: where they are and with which run
  control,   \* the invocation controls: state and heartbeat
  cancelDue, \* interrupted runs whose control the host has not reached yet
  phase      \* the service: open, closed (the manager), shut (the registry too)

vars == <<run, reserved, queue, queued, accepted, worker, control, cancelDue, phase>>
hostVars == <<reserved, cancelDue, phase>>

\* How an operation may end: with an outcome, or by an exception.
Outcomes == {"completed", "waiting_confirmation", "failed"}
Exceptions == {"timed_out", "budget", "cancelled", "aborted", "error"}
RunStates == {"absent", "queued", "running", "stopped", "result_unknown", "evicted"}
             \cup Outcomes
Places == {"idle", "dequeued", "entered", "operating", "ended", "titling", "titled"}

NewRun == [state |-> "absent", terminal |-> FALSE, done |-> FALSE, stop |-> FALSE,
           late |-> FALSE, started |-> FALSE, published |-> 0]
Idle == [at |-> "idle", run |-> None, result |-> "none"]

TypeOK ==
  /\ run \in [Runs -> [state : RunStates, terminal : BOOLEAN, done : BOOLEAN,
                       stop : BOOLEAN, late : BOOLEAN, started : BOOLEAN,
                       published : Nat]]
  /\ reserved \subseteq Runs /\ cancelDue \subseteq Runs
  /\ queue \in Seq(Runs) /\ queued \in 0..MaxQueue /\ accepted \in Seq(Runs)
  /\ worker \in [Workers -> [at : Places, run : Runs \cup {None},
                             result : Outcomes \cup Exceptions \cup {"none"}]]
  /\ control \in [Runs -> [state : {"ACTIVE", "CANCELLED", "TIMED_OUT", "COMPLETED"},
                           heartbeat : BOOLEAN]]
  /\ phase \in {"open", "closed", "shut"}

Init ==
  /\ run = [h \in Runs |-> NewRun]
  /\ reserved = {} /\ cancelDue = {} /\ phase = "open"
  /\ queue = <<>> /\ queued = 0 /\ accepted = <<>>
  /\ worker = [w \in Workers |-> Idle]
  /\ control = [h \in Runs |-> [state |-> "ACTIVE", heartbeat |-> FALSE]]

Retained(h) == run[h].state \notin {"absent", "evicted"}
Live(h) == Retained(h) /\ ~run[h].terminal

\* The control of h leaves ACTIVE, unless something else was first.
Revoked(c, how) == IF c.state = "ACTIVE" THEN [state |-> how, heartbeat |-> FALSE] ELSE c

-----------------------------------------------------------------------------
(* Terminal states.  Each publishes one CompletedEvent, whose outcome has    *)
(* the last word on the state: an exception always carries a failure         *)
(* outcome, so the run reads "failed", also when it was stopped.             *)

Ended(m, s) == [m EXCEPT !.state = s, !.terminal = TRUE, !.published = @ + 1]
FinishException_Named(m) == Ended(m, "interrupted")   \* mutant: its own word is kept
FinishException(m) == Ended(m, "failed")
FinishBeforeStart(m) == Ended(m, "failed")
FinishFromOutcome(m, outcome) == Ended(m, outcome)
FinishUnknown(m) == Ended(m, "result_unknown")

\* _maybe_release_operation_locked: after one more run is over those are forgotten
\* that max_retained_runs others came after, never the one that just ended. (Runs
\* with readers are kept longer; there are no readers here.)
Over(r, h) == r[h].state \notin {"absent", "evicted"} /\ r[h].done /\ r[h].terminal
After(h, x) == \E i, j \in 1..Len(accepted) : i < j /\ accepted[i] = h /\ accepted[j] = x
Newer(r, h) == {x \in Runs : Over(r, x) /\ After(h, x)}
Evict_Never(r, h) == r   \* mutant: finished runs are kept for ever
Evict(r, h) ==
  [x \in Runs |-> IF x # h /\ Over(r, x) /\ Cardinality(Newer(r, x)) >= MaxRetained
                  THEN [r[x] EXCEPT !.state = "evicted"] ELSE r[x]]
Done(h, m) == Evict([run EXCEPT ![h] = [m EXCEPT !.done = TRUE]], h)

-----------------------------------------------------------------------------
(* Admission by the host. *)

Free == queued + Cardinality(reserved) < MaxQueue

Reserve(h) ==
  /\ phase = "open" /\ run[h].state = "absent" /\ h \notin reserved
  /\ Free
  /\ reserved' = reserved \cup {h}
  /\ UNCHANGED <<run, queue, queued, accepted, worker, control, cancelDue, phase>>

\* The host refused the admission, or found the manager closed.
Withdraw(h) ==
  /\ h \in reserved /\ reserved' = reserved \ {h}
  /\ UNCHANGED <<run, queue, queued, accepted, worker, control, cancelDue, phase>>

\* The first submission starts the threads; if that fails the manager closes.
PoolStartFails ==
  /\ phase = "open" /\ accepted = <<>> /\ phase' = "closed"
  /\ UNCHANGED <<run, reserved, queue, queued, accepted, worker, control, cancelDue>>

\* With a reservation the place in the queue is already held (submit).
MaySubmit_Unreserved(h) == TRUE   \* mutant: submit does not look at the capacity
MaySubmit(h) == h \in reserved \/ Free

\* Recording the status event checks the deadline, which may pass by then.
WithStatus(h, m) ==
  \/ /\ run' = [run EXCEPT ![h] = m]
     /\ control' = [control EXCEPT ![h] = [state |-> "ACTIVE", heartbeat |-> TRUE]]
  \/ /\ run' = [run EXCEPT ![h] = FinishUnknown([m EXCEPT !.late = TRUE])]
     /\ control' = [control EXCEPT ![h] = [state |-> "TIMED_OUT", heartbeat |-> FALSE]]

Submit(h) ==
  /\ phase = "open" /\ run[h].state = "absent" /\ MaySubmit(h)
  /\ WithStatus(h, [run[h] EXCEPT !.state = "queued"])
  /\ reserved' = reserved \ {h}
  /\ queue' = Append(queue, h) /\ queued' = queued + 1
  /\ accepted' = Append(accepted, h)
  /\ UNCHANGED <<worker, cancelDue, phase>>

-----------------------------------------------------------------------------
(* Workers. *)

\* Only here does an entry give up its place, whatever became of its run.
Dequeue(w) ==
  /\ worker[w].at = "idle" /\ queue # <<>>
  /\ worker' = [worker EXCEPT ![w] = [Idle EXCEPT !.at = "dequeued", !.run = Head(queue)]]
  /\ queue' = Tail(queue) /\ queued' = queued - 1
  /\ UNCHANGED <<run, accepted, control>> /\ UNCHANGED hostVars

Leave(w) == worker' = [worker EXCEPT ![w] = Idle]
Goto(w, place) == worker' = [worker EXCEPT ![w].at = place]

\* _worker_entry up to the release of the lock.
Enters_Always(h) == TRUE   \* mutant: an entry that ended in the queue is started
Enters(h) == ~run[h].terminal
Enter(w) ==
  LET h == worker[w].run
  IN  /\ worker[w].at = "dequeued"
      /\ \/ /\ ~Enters(h)
            /\ run' = Done(h, run[h]) /\ Leave(w) /\ UNCHANGED control
         \/ /\ Enters(h) /\ run[h].late
            /\ run' = Done(h, FinishBeforeStart(run[h])) /\ Leave(w) /\ UNCHANGED control
         \/ /\ Enters(h) /\ ~run[h].late /\ Goto(w, "entered")
            /\ \/ /\ run' = [run EXCEPT ![h].state = "running"]
                  /\ UNCHANGED control
               \/ /\ run' = [run EXCEPT ![h] = FinishUnknown([run[h] EXCEPT !.late = TRUE])]
                  /\ control' = [control EXCEPT ![h] = Revoked(@, "TIMED_OUT")]
      /\ UNCHANGED <<queue, queued, accepted>> /\ UNCHANGED hostVars

\* The deadline is checked once more, without the lock, before the operation.
Start(w) ==
  LET h == worker[w].run
  IN  /\ worker[w].at = "entered"
      /\ IF run[h].late
         THEN /\ run' = Done(h, IF run[h].terminal THEN run[h] ELSE FinishUnknown(run[h]))
              /\ control' = IF run[h].terminal THEN control
                            ELSE [control EXCEPT ![h] = Revoked(@, "TIMED_OUT")]
              /\ Leave(w)
         ELSE /\ run' = [run EXCEPT ![h].started = TRUE]
              /\ Goto(w, "operating") /\ UNCHANGED control
      /\ UNCHANGED <<queue, queued, accepted>> /\ UNCHANGED hostVars

\* The operation claims its own completion.
MarkCompleted(w) ==
  LET h == worker[w].run
  IN  /\ worker[w].at = "operating" /\ control[h].state = "ACTIVE"
      /\ control' = [control EXCEPT ![h] = Revoked(@, "COMPLETED")]
      /\ UNCHANGED <<run, queue, queued, accepted, worker>> /\ UNCHANGED hostVars

\* A progress event of the operation finds the deadline gone (sink.emit).
EmitLate(w) ==
  LET h == worker[w].run
  IN  /\ worker[w].at = "operating" /\ Live(h) /\ run[h].late
      /\ run' = [run EXCEPT ![h] = FinishUnknown(@)]
      /\ control' = [control EXCEPT ![h] = Revoked(@, "TIMED_OUT")]
      /\ UNCHANGED <<queue, queued, accepted, worker>> /\ UNCHANGED hostVars

\* The operation finishes its control and returns or raises. The finish stops
\* the heartbeat; it completes the control unless the database was busy.
Silent(c) == [c EXCEPT !.heartbeat = FALSE]
OperationEnds(w, result) ==
  LET h == worker[w].run
  IN  /\ worker[w].at = "operating"
      /\ worker' = [worker EXCEPT ![w].at = "ended", ![w].result = result]
      /\ \/ control' = [control EXCEPT ![h] = Silent(Revoked(control[h], "COMPLETED"))]
         \/ control' = [control EXCEPT ![h] = Silent(control[h])]
      /\ UNCHANGED <<run, queue, queued, accepted>> /\ UNCHANGED hostVars

\* _run_title_if_allowed; the title call may never return. A fallback that
\* raises turns the run into an error.
BeginTitle(w) ==
  /\ worker[w].at = "ended" /\ worker[w].result \in Outcomes
  /\ Live(worker[w].run) /\ ~run[worker[w].run].stop
  /\ Goto(w, "titling")
  /\ UNCHANGED <<run, queue, queued, accepted, control>> /\ UNCHANGED hostVars

EndTitle(w) ==
  /\ worker[w].at = "titling"
  /\ \/ Goto(w, "titled")
     \/ worker' = [worker EXCEPT ![w].at = "titled", ![w].result = "error"]
  /\ UNCHANGED <<run, queue, queued, accepted, control>> /\ UNCHANGED hostVars

\* The end of _worker_entry: the result counts unless the run ended meanwhile.
Result_Late(m, result) ==   \* mutant: the worker does not look whether the run ended
  IF result \in Outcomes THEN FinishFromOutcome(m, result) ELSE FinishException(m)
Result(m, result) ==
  CASE m.terminal -> m
    [] ~m.terminal /\ result \in Outcomes ->
         IF m.stop THEN FinishException(m) ELSE FinishFromOutcome(m, result)
    [] ~m.terminal /\ result \in {"timed_out", "budget", "aborted"} -> FinishUnknown(m)
    [] ~m.terminal /\ result \in {"cancelled", "error"} -> FinishException(m)

Publish(w) ==
  LET h == worker[w].run
      result == worker[w].result
  IN  /\ worker[w].at \in {"ended", "titled"}
      /\ run' = Done(h, Result(run[h], result))
      /\ control' = IF result = "timed_out" /\ ~run[h].terminal
                    THEN [control EXCEPT ![h] = Revoked(@, "TIMED_OUT")] ELSE control
      /\ Leave(w)
      /\ UNCHANGED <<queue, queued, accepted>> /\ UNCHANGED hostVars

-----------------------------------------------------------------------------
(* The watchdog, interrupts and shutdown. *)

Expire(h) ==
  /\ Retained(h) /\ ~run[h].done /\ ~run[h].late
  /\ run' = [run EXCEPT ![h].late = TRUE]
  /\ UNCHANGED <<queue, queued, accepted, worker, control>> /\ UNCHANGED hostVars

\* Past its deadline a queued run fails and a running one becomes unknown,
\* unless its control was completed first. A run under interrupt is in neither
\* state and is left to its worker.
DueQueued_None == {}   \* mutants: queued runs are not looked at; every late run is
DueRunning_Any == {h \in Runs : Live(h) /\ run[h].late}   \* unknown, completed or not
DueQueued == {h \in Runs : Live(h) /\ run[h].late /\ run[h].state = "queued"}
DueRunning == {h \in Runs : Live(h) /\ run[h].late /\ run[h].state = "running"
                            /\ control[h].state # "COMPLETED"}

Watchdog ==
  /\ phase = "open" /\ DueQueued \cup DueRunning # {}
  /\ run' = [h \in Runs |-> IF h \in DueQueued THEN FinishBeforeStart(run[h])
                            ELSE IF h \in DueRunning THEN FinishUnknown(run[h])
                            ELSE run[h]]
  /\ control' = [h \in Runs |-> IF h \in DueRunning THEN Revoked(control[h], "TIMED_OUT")
                                ELSE control[h]]
  /\ UNCHANGED <<queue, queued, accepted, worker>> /\ UNCHANGED hostVars

\* An interrupted run ends at once if it is queued; a running one is marked and
\* ends when its worker comes back.
Stopped_Unchecked(m) ==   \* mutant: a run that has ended is marked as well
  IF m.state = "queued" THEN FinishException([m EXCEPT !.stop = TRUE])
  ELSE [m EXCEPT !.stop = TRUE, !.state = "stopped"]
Stopped(m) == IF m.terminal THEN m
              ELSE IF m.state = "queued" THEN FinishException([m EXCEPT !.stop = TRUE])
              ELSE [m EXCEPT !.stop = TRUE, !.state = "stopped"]

\* The stop command of the host, once it is durable: first the manager ...
Interrupt(h) ==
  /\ Retained(h) /\ h \notin cancelDue
  /\ cancelDue' = cancelDue \cup {h}
  /\ run' = [run EXCEPT ![h] = Stopped(@)]
  /\ control' = IF Live(h) /\ run[h].state # "queued"
                THEN [control EXCEPT ![h] = Revoked(@, "CANCELLED")] ELSE control
  /\ UNCHANGED <<reserved, queue, queued, accepted, worker, phase>>

\* ... then the control of that generation (TurnControlRegistry.interrupted).
CancelInterrupted(h) ==
  /\ h \in cancelDue /\ cancelDue' = cancelDue \ {h}
  /\ control' = [control EXCEPT ![h] = Revoked(@, "CANCELLED")]
  /\ UNCHANGED <<run, reserved, queue, queued, accepted, worker, phase>>

\* Queued runs stop, others become unknown and lose their control.
CloseRun(m) == IF m.state = "queued" THEN FinishException(m)
               ELSE FinishUnknown([m EXCEPT !.stop = TRUE])
Closed == [h \in Runs |-> IF Live(h) THEN CloseRun(run[h]) ELSE run[h]]
ClosedControl_Kept(h) == control[h]   \* mutant: the permission is not withdrawn
ClosedControl(h) == IF Live(h) /\ run[h].state # "queued"
                    THEN Revoked(control[h], "CANCELLED") ELSE control[h]

\* What is in the queue is discarded as if a worker had taken it. Its entries were
\* accepted after every run that is over, so forgetting the oldest once at the end
\* keeps the same runs as after each of them.
InQueue(h) == \E i \in 1..Len(queue) : queue[i] = h
Discarded == [h \in Runs |-> IF InQueue(h) THEN [Closed[h] EXCEPT !.done = TRUE] ELSE Closed[h]]
Close ==
  /\ phase = "open" /\ phase' = "closed"
  /\ run' = IF queue = <<>> THEN Closed ELSE Evict(Discarded, None)
  /\ control' = [h \in Runs |-> ClosedControl(h)]
  /\ queue' = <<>> /\ queued' = 0
  /\ UNCHANGED <<reserved, accepted, worker, cancelDue>>

\* Shutdown goes on with TurnControlRegistry.close.
RegistryClose ==
  /\ phase = "closed" /\ phase' = "shut"
  /\ control' = [h \in Runs |-> Silent(Revoked(control[h], "CANCELLED"))]
  /\ UNCHANGED <<run, reserved, queue, queued, accepted, worker, cancelDue>>

-----------------------------------------------------------------------------
WorkerStep(w) ==
  \/ Dequeue(w) \/ Enter(w) \/ Start(w) \/ MarkCompleted(w) \/ EmitLate(w)
  \/ \E result \in Outcomes \cup Exceptions : OperationEnds(w, result)
  \/ BeginTitle(w) \/ EndTitle(w) \/ Publish(w)
HostStep(h) == Reserve(h) \/ Withdraw(h) \/ Submit(h) \/ Interrupt(h) \/ CancelInterrupted(h)

Next ==
  \/ \E w \in Workers : WorkerStep(w)
  \/ \E h \in Runs : HostStep(h) \/ Expire(h)
  \/ PoolStartFails \/ Watchdog \/ Close \/ RegistryClose

Spec == Init /\ [][Next]_vars

\* Deadlines pass, the watchdog wakes up, and a worker moves on between its
\* calls to an operation or a title, which may never return. The host finishes
\* a stop command and a shutdown it began.
Fairness ==
  /\ \A h \in Runs : WF_vars(Expire(h)) /\ WF_vars(CancelInterrupted(h))
  /\ WF_vars(Watchdog) /\ WF_vars(RegistryClose)
  /\ \A w \in Workers : WF_vars(Dequeue(w) \/ Enter(w) \/ Start(w) \/ Publish(w))
FairSpec == Spec /\ Fairness

-----------------------------------------------------------------------------
(* Properties. *)

\* The queue never holds more than max_queue entries and promises, and the
\* counter that decides about capacity counts the entries physically in it:
\* an interrupted or expired entry keeps its place until it is dequeued
\* (submit, reserve_admission, _worker_loop, close).
QueueWithinCapacity ==
  /\ queued = Len(queue)
  /\ Len(queue) + Cardinality(reserved) <= MaxQueue

\* A run has one terminal event, whoever ends it first among its worker, its
\* sink, the watchdog, an interrupt and shutdown; a worker never leaves a run
\* behind that has none, so wait() never returns on an unfinished run.
PublishedOnce ==
  \A h \in Runs : /\ run[h].published = (IF run[h].terminal THEN 1 ELSE 0)
                  /\ run[h].done => run[h].terminal

\* A published state is never replaced by a later one (the logical_terminal
\* checks in _worker_entry, interrupt, _watchdog_loop and close).
ResultIsFinal ==
  [][\A h \in Runs : run[h].terminal => run'[h].state \in {run[h].state, "evicted"}]_vars

\* An operation never begins for a run that has ended, unless the run lost its
\* control as well, so that the operation is turned away at its first check.
NoLateStart ==
  [][\A h \in Runs : ~run[h].started /\ run'[h].started =>
       ~run[h].terminal \/ control[h].state # "ACTIVE"]_vars

\* A run whose operation began and which has ended does not keep renewing the
\* lease of its conversation.
Renewing(h) == control[h].heartbeat /\ control[h].state = "ACTIVE"
EndedReleases == \A h \in Runs : run[h].terminal /\ run[h].started => ~Renewing(h)

\* A run whose operation completed its control first is never declared unknown
\* by the watchdog (honor_finish_claim).
CompletionWins ==
  [][Watchdog => \A h \in Runs : control[h].state = "COMPLETED" =>
       run'[h].terminal = run[h].terminal]_vars

\* Finished runs that nobody reads are forgotten: at most one more than
\* max_retained_runs is kept.
RetentionBounded == Cardinality({h \in Runs : Over(run, h)}) <= MaxRetained + 1

\* Every admitted run ends although nobody waits for it and its worker may
\* hang, unless it was stopped or has claimed its completion, in which case
\* the manager waits for the worker.
EveryRunEnds ==
  \A h \in Runs : Live(h) ~> (run[h].terminal \/ run[h].stop \/ control[h].state = "COMPLETED")

\* The deadline of an admitted run takes away its control.
DeadlineRevokesControl == \A h \in Runs : (Retained(h) /\ run[h].late) ~> ~Renewing(h)
=============================================================================
