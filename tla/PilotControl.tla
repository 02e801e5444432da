---------------------------- MODULE PilotControl ----------------------------
(***************************************************************************)
(* The durable execution lease that decides which worker may change a      *)
(* Pilot conversation (pilot_control.py), and the process-local control    *)
(* that holds such a lease (pilot_runtime/turn_control.py with the         *)
(* in-memory state of pilot_runtime/event_sink.py).                        *)
(*                                                                         *)
(* Actors: admission (claims), one worker thread per control, its          *)
(* heartbeat thread, the threads that cancel, time out or close a control, *)
(* the interrupt command, readers that persist an observed expiry, the     *)
(* clocks, and the process, which may crash and start again.               *)
(*                                                                         *)
(* SQLite admits one writer: BEGIN IMMEDIATE .. COMMIT of the repository   *)
(* is one step that needs writer = None, and a worker transaction, which   *)
(* is long, holds writer from Begin to Commit or Fenced.  Waiting for the  *)
(* writer lock is not a state of its own: the step is taken once the lock  *)
(* is free, or is given up (SQLite's busy timeout) where the code goes on  *)
(* without it; the rest of the program writes too, so it may always be     *)
(* given up.                                                               *)
(***************************************************************************)
EXTENDS Integers

CONSTANTS
  Conversations,   \* chat conversations
  Turns,           \* ids of Pilot turns
  ConvOf,          \* the conversation a turn is admitted to
  Operations,      \* ids of proposed write operations
  LegacyPending,   \* per conversation: a Pending older than turn bindings, or None
  Controls,        \* DurableRuntimeInvocationControl objects, each used once
  WorkerKinds,     \* the kinds of transaction workers run, among Kinds
  WorkerResults,   \* the results workers report, among Results
  Commands,        \* ids of interrupt commands
  None,
  LeaseMs,         \* length of a lease, in ticks
  MaxGen,          \* bound: executions of one turn
  MaxSeq,          \* bound: executions of one conversation
  MaxEpoch,        \* bound: process starts
  MaxJumps         \* bound: backward steps of the wall clock

Rows == Turns \X (1..MaxGen)            \* primary key (turn_id, generation)
RowStates == {"running", "waiting_confirmation", "completed", "failed",
              "interrupted", "stopped", "result_unknown"}
TurnStates == {"none", "started", "incomplete", "completed", "failed", "interrupted"}
Statuses == {"none", "no_active_execution", "generation_changed", "stopped",
             "result_unknown", "already_ended"}
Kinds == {"plain", "fenced", "recovery", "title"}
Results == {"completed", "waiting_confirmation", "failed", "interrupted", "result_unknown"}
Ages == (-MaxJumps)..(LeaseMs + MaxJumps)

ASSUME NoneAssumption ==
  None \notin Rows /\ None \notin Operations /\ None \notin Controls \X Kinds
ASSUME BoundAssumption ==
  /\ LeaseMs \in Nat \ {0} /\ MaxGen \in Nat \ {0}
  /\ WorkerKinds \subseteq Kinds /\ WorkerResults \subseteq Results
  /\ MaxSeq \in Nat /\ MaxEpoch \in Nat \ {0} /\ MaxJumps \in Nat
ASSUME ConvAssumption ==
  /\ ConvOf \in [Turns -> Conversations]
  /\ LegacyPending \in [Conversations -> Operations \cup {None}]
  /\ \A c, d \in Conversations :
       LegacyPending[c] = LegacyPending[d] => c = d \/ LegacyPending[c] = None

VARIABLES
  exec,      \* table pilot_executions: state, seq, wall-clock age of the renewal, epoch
  turn,      \* pilot_turns.state
  pending,   \* conversations.pending_operation_id
  op,        \* write operations: status and the turn they are bound to
  receipt,   \* table pilot_interrupt_commands
  lastWriter,\* history: the execution whose protected write committed last
  writer,    \* the worker transaction that holds SQLite's writer lock, or None
  ctl,       \* process memory: the controls
  proc,      \* the process: up, shutting down (closed), runtime epoch
  jumps      \* backward clock steps so far

durable == <<exec, turn, pending, op, receipt>>
vars == <<exec, turn, pending, op, receipt, lastWriter, writer, ctl, proc, jumps>>

-----------------------------------------------------------------------------
(* Derived state. *)

Conv(r) == ConvOf[r[1]]
RowsOf(c) == {r \in Rows : Conv(r) = c /\ exec[r].state # "absent"}

\* A lease is valid at a wall-clock reading between renewal and expiry: a clock
\* set back before the renewal invalidates it too.
Fresh(r) == 0 <= exec[r].age /\ exec[r].age < LeaseMs
Active(r) == exec[r].state = "running" /\ Fresh(r)

IsLatest(r) == \A q \in RowsOf(Conv(r)) : exec[q].seq <= exec[r].seq
LatestOf(t, r) == /\ r[1] = t /\ exec[r].state # "absent"
                  /\ \A g \in r[2] + 1 .. MaxGen : exec[<<t, g>>].state = "absent"
NoRowOf(t) == \A g \in 1..MaxGen : exec[<<t, g>>].state = "absent"

\* s is one more than the largest sequence of the conversation.
NextSeq(c, s) == /\ \A q \in RowsOf(c) : exec[q].seq < s
                 /\ s = 1 \/ \E q \in RowsOf(c) : exec[q].seq = s - 1

LocallyActive(k) == /\ ~ctl[k].revoked
                    /\ ctl[k].inner = "ACTIVE"
                    /\ ctl[k].age < LeaseMs

\* The row moved to state s; the age of an ended execution is never read again.
InState(r, s) == [exec[r] EXCEPT !.state = s, !.age = IF s = "running" THEN @ ELSE 0]

\* run_if_active keeps the control's lock while its action runs.
InnerLocked(k) == writer \in {<<k, "fenced">>, <<k, "recovery">>}
InTransaction(k) == \E kind \in Kinds : writer = <<k, kind>>

FreeControl == [phase |-> "free", lease |-> None, op |-> None, inner |-> "ACTIVE",
                revoked |-> FALSE, age |-> 0, seen |-> FALSE, hb |-> "off",
                stop |-> FALSE]

TypeOK ==
  /\ exec \in [Rows -> [state : RowStates \cup {"absent"}, seq : 0..MaxSeq,
                        age : Ages, epoch : 0..MaxEpoch]]
  /\ turn \in [Turns -> TurnStates]
  /\ pending \in [Conversations -> Operations \cup {None}]
  /\ op \in [Operations -> [status : {"absent", "proposed", "settled"},
                            turn : Turns \cup {None}]]
  /\ receipt \in [Commands -> [status : Statuses, target : Rows \cup {None}]]
  /\ lastWriter \in [Conversations -> Rows \cup {None}]
  /\ writer \in (Controls \X Kinds) \cup {None}
  /\ ctl \in [Controls ->
       [phase : {"free", "claimed", "unleased", "claiming", "live", "finished",
                 "titling", "dead"},
        lease : Rows \cup {None}, op : Operations \cup {None},
        inner : {"ACTIVE", "CANCELLED", "TIMED_OUT", "COMPLETED"},
        revoked : BOOLEAN, age : 0..LeaseMs, seen : BOOLEAN,
        hb : {"off", "idle", "renewing"}, stop : BOOLEAN]]
  /\ proc \in [up : BOOLEAN, closed : BOOLEAN, epoch : 0..MaxEpoch]
  /\ jumps \in 0..MaxJumps

Init ==
  /\ exec = [r \in Rows |-> [state |-> "absent", seq |-> 0, age |-> 0, epoch |-> 0]]
  /\ turn = [t \in Turns |-> "none"]
  /\ pending = LegacyPending
  /\ op = [o \in Operations |->
             [status |-> IF \E c \in Conversations : LegacyPending[c] = o
                         THEN "proposed" ELSE "absent",
              turn |-> None]]
  /\ receipt = [m \in Commands |-> [status |-> "none", target |-> None]]
  /\ lastWriter = [c \in Conversations |-> None]
  /\ writer = None
  /\ ctl = [k \in Controls |-> FreeControl]
  /\ proc = [up |-> TRUE, closed |-> FALSE, epoch |-> 1]
  /\ jumps = 0

-----------------------------------------------------------------------------
(* Claims: each is one BEGIN IMMEDIATE transaction. *)

\* _release_expired refuses while another execution of the conversation is
\* running and valid, and otherwise ends the expired ones.
NoActiveIn_Unchecked(c) == TRUE   \* mutant: the conflict is not raised
NoActiveIn(c) == \A r \in RowsOf(c) : ~Active(r)
Release(c, r) == IF Conv(r) = c /\ exec[r].state = "running" /\ ~Fresh(r)
                 THEN InState(r, "result_unknown") ELSE exec[r]

Claim(r, e) ==
  /\ NoActiveIn(Conv(r))
  /\ \E s \in 1..MaxSeq :
       /\ NextSeq(Conv(r), s)
       /\ exec' = [q \in Rows |->
            IF q = r THEN [state |-> "running", seq |-> s, age |-> 0, epoch |-> e]
                     ELSE Release(Conv(r), q)]
  /\ turn' = [turn EXCEPT ![r[1]] = "started"]

\* The admission of a message creates its turn and claims generation 1 in the
\* same transaction.
ClaimStart(k, t) ==
  /\ proc.up /\ writer = None /\ ctl[k].phase = "free"
  /\ turn[t] = "none" /\ NoRowOf(t) /\ pending[ConvOf[t]] = None
  /\ Claim(<<t, 1>>, proc.epoch)
  /\ ctl' = [ctl EXCEPT ![k].phase = "claimed", ![k].lease = <<t, 1>>]
  /\ UNCHANGED <<pending, op, receipt, lastWriter, writer, proc, jumps>>

\* A turn to carry the confirmation of o: the bound one, or a fresh one for a
\* Pending that was never bound.
CarriesOperation(o, t) == IF op[o].turn # None THEN t = op[o].turn ELSE turn[t] = "none"

ConfirmRow(o, r) ==
  /\ op[o].status = "proposed"
  /\ pending[Conv(r)] = o
  /\ CarriesOperation(o, r[1])
  /\ IF r[2] = 1 THEN NoRowOf(r[1]) ELSE LatestOf(r[1], <<r[1], r[2] - 1>>)
  /\ op' = [op EXCEPT ![o].turn = r[1]]

\* Detached confirmation: claim first, then build the control.
ClaimConfirmation(k, o, r) ==
  /\ proc.up /\ writer = None /\ ctl[k].phase = "free"
  /\ ConfirmRow(o, r) /\ Claim(r, proc.epoch)
  /\ ctl' = [ctl EXCEPT ![k].phase = "claimed", ![k].lease = r, ![k].op = o]
  /\ UNCHANGED <<pending, receipt, lastWriter, writer, proc, jumps>>

\* Inline confirmation of some operation: the control exists first, without a
\* lease ...
OpenUnleased(k) ==
  /\ proc.up /\ ~proc.closed /\ ctl[k].phase = "free"
  /\ \E o \in Operations : op[o].status # "absent"
  /\ ctl' = [ctl EXCEPT ![k].phase = "unleased"]
  /\ UNCHANGED <<durable, lastWriter, writer, proc, jumps>>

\* ... and claims from inside the worker (claim_confirmation_execution); the
\* legacy protocol carries no epoch.
ClaimLate(k, o, r) ==
  /\ proc.up /\ writer = None /\ ctl[k].phase = "unleased" /\ LocallyActive(k)
  /\ ConfirmRow(o, r) /\ Claim(r, 0)
  /\ ctl' = [ctl EXCEPT ![k].phase = "claiming", ![k].lease = r, ![k].op = o]
  /\ UNCHANGED <<pending, receipt, lastWriter, writer, proc, jumps>>

\* _claimed: the local validity and the heartbeat start after the claim.
Attach(k) ==
  /\ proc.up
  /\ ctl[k].phase = "claiming" \/ (ctl[k].phase = "claimed" /\ ~proc.closed)
  /\ ctl' = [ctl EXCEPT ![k].phase = "live", ![k].age = 0, ![k].hb = "idle"]
  /\ UNCHANGED <<durable, lastWriter, writer, proc, jumps>>

-----------------------------------------------------------------------------
(* Ending an execution: _finish_in_session. *)

\* Mutant: a completed execution is not checked for a waiting operation.
FinishState_NoPending(r, s) == IF Fresh(r) THEN s ELSE "result_unknown"
FinishState(r, s) ==
  LET ended == IF Fresh(r) THEN s ELSE "result_unknown"
      o == pending[Conv(r)]
  IN  IF ended = "completed" /\ o # None /\ op[o].turn = r[1]
      THEN "waiting_confirmation" ELSE ended

TurnStateOf_Unmapped(s) == s   \* mutant: the execution's word is copied
TurnStateOf(s) == CASE s = "waiting_confirmation" -> "started"
                    [] s = "result_unknown" -> "incomplete"
                    [] OTHER -> s

\* Mutants: the running check is missing; the turn's own row is forgotten.
FinishRow_AnyState(r, s) ==
  /\ exec' = [exec EXCEPT ![r] = InState(r, FinishState(r, s))]
  /\ turn' = [turn EXCEPT ![r[1]] = TurnStateOf(FinishState(r, s))]
FinishRow_RowOnly(r, s) ==
  /\ exec' = IF exec[r].state = "running"
             THEN [exec EXCEPT ![r] = InState(r, FinishState(r, s))] ELSE exec
  /\ UNCHANGED turn
FinishRow(r, s) ==
  IF exec[r].state = "running"
  THEN /\ exec' = [exec EXCEPT ![r] = InState(r, FinishState(r, s))]
       /\ turn' = [turn EXCEPT ![r[1]] = TurnStateOf(FinishState(r, s))]
  ELSE UNCHANGED <<exec, turn>>

\* The control of a fresh claim could not be created.
AdmissionFailed(k) ==
  /\ proc.up /\ ctl[k].phase = "claimed"
  /\ \/ writer = None /\ FinishRow(ctl[k].lease, "failed")
     \/ UNCHANGED <<exec, turn>>
  /\ ctl' = [ctl EXCEPT ![k].phase = "finished"]
  /\ UNCHANGED <<pending, op, receipt, lastWriter, writer, proc, jumps>>

\* DurableRuntimeInvocationControl.finish by the worker. Under the writer lock
\* resolve_state claims the in-memory state of an execution that it ends; a busy
\* database is swallowed and leaves the row to its lease.
Resolved(k, s) == IF ctl[k].age >= LeaseMs \/ ctl[k].inner = "TIMED_OUT"
                  THEN "result_unknown" ELSE s
ClaimsInner(k) == writer = None /\ Active(ctl[k].lease) /\ ctl[k].age < LeaseMs
                  /\ ctl[k].inner = "ACTIVE"

FinishDurably(k, s) ==
  \/ writer = None /\ FinishRow(ctl[k].lease, Resolved(k, s))
  \/ UNCHANGED <<exec, turn>>

\* s is what the worker reports (_validate_finish_state).
Finish(k, s) ==
  /\ proc.up /\ ctl[k].phase = "live" /\ ~InTransaction(k)
  /\ FinishDurably(k, s)
  /\ ctl' = [ctl EXCEPT ![k].phase = "finished", ![k].stop = TRUE, ![k].seen = FALSE,
               ![k].inner = IF ClaimsInner(k) /\ exec' # exec THEN "COMPLETED" ELSE @]
  /\ UNCHANGED <<pending, op, receipt, lastWriter, writer, proc, jumps>>

\* TurnControlRegistry.close finishes a cancelled control whose worker may
\* still be running.
CloseFinish(k) ==
  /\ proc.up /\ proc.closed /\ ctl[k].phase = "live" /\ ~InnerLocked(k)
  /\ ctl[k].inner # "ACTIVE"
  /\ FinishDurably(k, "interrupted")
  /\ ctl' = [ctl EXCEPT ![k].stop = TRUE]
  /\ UNCHANGED <<pending, op, receipt, lastWriter, writer, proc, jumps>>

\* _finish_safely: when the database stays busy the attempt is dropped, never
\* retried, and so it is when the process dies first.
FinishSafely(k, s) ==
  \/ /\ ctl[k].phase \in {"claiming", "live", "finished", "titling"} /\ writer = None
     /\ FinishRow(ctl[k].lease, s)
  \/ UNCHANGED <<exec, turn>>

-----------------------------------------------------------------------------
(* Cancellation, timeout and completion of a control in memory. *)

EndInner(k, how) ==
  /\ proc.up
  /\ ctl[k].phase \in {"unleased", "claiming", "live", "finished", "titling"}
  /\ ctl[k].inner = "ACTIVE" /\ ~InnerLocked(k)
  /\ ctl' = [ctl EXCEPT ![k].inner = how, ![k].revoked = TRUE, ![k].stop = TRUE]
  /\ FinishSafely(k, "interrupted")
  /\ UNCHANGED <<pending, op, receipt, lastWriter, writer, proc, jumps>>

RequestCancel(k) == EndInner(k, "CANCELLED")
RequestTimeout(k) == EndInner(k, "TIMED_OUT")

\* Reading DurableRuntimeInvocationControl.state, which also needs the durable
\* row to be active. The answer may be stale when it is used.
Observe(k) ==
  /\ proc.up /\ ctl[k].phase = "live" /\ ~InTransaction(k) /\ ~ctl[k].seen
  /\ ctl[k].inner = "ACTIVE"
  /\ \/ /\ LocallyActive(k) /\ Active(ctl[k].lease)
        /\ ctl' = [ctl EXCEPT ![k].seen = TRUE]
        /\ UNCHANGED <<exec, turn>>
     \/ /\ LocallyActive(k) /\ ~Active(ctl[k].lease)
        /\ ctl' = [ctl EXCEPT ![k].revoked = TRUE]
        /\ UNCHANGED <<exec, turn>>
     \/ /\ ~LocallyActive(k)
        /\ ctl' = [ctl EXCEPT ![k].revoked = TRUE]
        /\ FinishSafely(k, "result_unknown")
  /\ UNCHANGED <<pending, op, receipt, lastWriter, writer, proc, jumps>>

\* mark_completed: is_active, then the in-memory transition.
MarkCompleted(k) ==
  /\ proc.up /\ ctl[k].phase = "live" /\ ~InTransaction(k)
  /\ ctl[k].seen /\ ctl[k].inner = "ACTIVE"
  /\ ctl' = [ctl EXCEPT ![k].inner = "COMPLETED", ![k].seen = FALSE]
  /\ UNCHANGED <<durable, lastWriter, writer, proc, jumps>>

-----------------------------------------------------------------------------
(* The heartbeat: _renew_once, which waits for the writer lock in the middle. *)

\* Mutant: the heartbeat goes on without looking at the control.
RenewBegin_Always(k) ==
  /\ proc.up /\ ctl[k].hb = "idle"
  /\ ctl' = [ctl EXCEPT ![k].hb = "renewing"]
  /\ UNCHANGED <<durable, lastWriter, writer, proc, jumps>>
RenewBegin(k) ==
  /\ proc.up /\ ctl[k].hb = "idle"
  /\ ctl' = [ctl EXCEPT ![k].hb =
               IF ~ctl[k].stop /\ LocallyActive(k) THEN "renewing" ELSE "off"]
  /\ UNCHANGED <<durable, lastWriter, writer, proc, jumps>>

\* renew extended the lease before the local validity ran out.
RenewSucceeds(k) ==
  LET r == ctl[k].lease
  IN  /\ proc.up /\ writer = None /\ ctl[k].hb = "renewing"
      /\ Active(r) /\ ctl[k].age < LeaseMs
      /\ exec' = [exec EXCEPT ![r].age = 0]
      /\ ctl' = [ctl EXCEPT ![k].hb = IF ctl[k].stop THEN "off" ELSE "idle", ![k].age = 0]
      /\ UNCHANGED <<turn, pending, op, receipt, lastWriter, writer, proc, jumps>>

\* renew raised (busy), refused an ended execution, recorded an expiry, or came
\* after the local deadline; the cleanup that follows ends the execution, or is
\* dropped as well.
RenewFails(k) ==
  LET r == ctl[k].lease
  IN  /\ proc.up /\ ctl[k].hb = "renewing"
      /\ \/ UNCHANGED <<exec, turn>>
         \/ /\ writer = None /\ exec[r].state = "running" /\ ~Fresh(r)
            /\ exec' = [exec EXCEPT ![r] = InState(r, "result_unknown")]
            /\ UNCHANGED turn
         \/ writer = None /\ FinishRow(r, "result_unknown")
         \/ /\ writer = None /\ Active(r) /\ ctl[k].age >= LeaseMs
            /\ exec' = [exec EXCEPT ![r].age = 0] /\ UNCHANGED turn
      /\ ctl' = [ctl EXCEPT ![k].hb = "off", ![k].revoked = TRUE]
      /\ UNCHANGED <<pending, op, receipt, lastWriter, writer, proc, jumps>>

-----------------------------------------------------------------------------
(* A worker's protected transaction. *)

\* plain: inside invocation_scope; fenced: run_if_active after a successful
\* is_active; recovery: run_if_active(allow_timeout=True) of a timed-out
\* control; title: after run_title_if_successful let the title call start.
MayBegin(k, kind) ==
  CASE kind = "plain" -> ctl[k].phase = "live"
    [] kind = "fenced" -> /\ ctl[k].phase = "live" /\ ctl[k].seen
                          /\ ctl[k].inner = "ACTIVE"
    [] kind = "recovery" -> ctl[k].phase = "live" /\ ctl[k].inner = "TIMED_OUT"
    [] kind = "title" -> ctl[k].phase = "titling"

Begin(k, kind) ==
  /\ proc.up /\ writer = None /\ MayBegin(k, kind)
  /\ writer' = <<k, kind>>
  /\ ctl' = [ctl EXCEPT ![k].seen = FALSE]
  /\ UNCHANGED <<durable, lastWriter, proc, jumps>>

StartTitle(k) ==
  /\ proc.up /\ ctl[k].phase = "finished" /\ "title" \in WorkerKinds
  /\ IsLatest(ctl[k].lease)
  /\ exec[ctl[k].lease].state \in {"completed", "waiting_confirmation"}
  /\ ctl' = [ctl EXCEPT ![k].phase = "titling"]
  /\ UNCHANGED <<durable, lastWriter, writer, proc, jumps>>

\* What _commit_fence makes of the row before it decides: a recovery commit
\* converges its own still-running execution.
Recovered(k, kind) ==
  LET r == ctl[k].lease
  IN  IF kind # "recovery" \/ exec[r].state # "running" THEN exec[r].state
      ELSE IF Fresh(r) THEN "interrupted" ELSE "result_unknown"

\* Mutants: the commit trusts the process's own view of the lease; a terminal
\* scope is not compared with the newest execution of the conversation.
FencePasses_LocalOnly(k, kind) ==
  IF kind \in {"plain", "fenced"} THEN LocallyActive(k)
  ELSE IsLatest(ctl[k].lease)
FencePasses_AnySequence(k, kind) ==
  LET r == ctl[k].lease
  IN  CASE kind \in {"plain", "fenced"} -> LocallyActive(k) /\ Active(r)
        [] kind = "recovery" -> /\ ctl[k].inner = "TIMED_OUT"
                                /\ Recovered(k, kind) \in {"interrupted", "result_unknown"}
        [] kind = "title" -> exec[r].state \in {"completed", "waiting_confirmation"}
FencePasses(k, kind) ==
  LET r == ctl[k].lease
  IN  CASE kind \in {"plain", "fenced"} -> LocallyActive(k) /\ Active(r)
        [] kind = "recovery" -> /\ ctl[k].inner = "TIMED_OUT"
                                /\ Recovered(k, kind) \in {"interrupted", "result_unknown"}
                                /\ IsLatest(r)
        [] kind = "title" -> /\ exec[r].state \in {"completed", "waiting_confirmation"}
                             /\ IsLatest(r)

\* The write may propose an operation or settle the one it was approved for.
OperationEffect(k, kind) ==
  LET c == Conv(ctl[k].lease)
  IN  \/ UNCHANGED <<pending, op>>
      \/ /\ kind \in {"plain", "fenced"} /\ pending[c] = None
         /\ \E o \in Operations :
              /\ op[o].status = "absent"
              /\ op' = [op EXCEPT ![o] = [status |-> "proposed", turn |-> ctl[k].lease[1]]]
              /\ pending' = [pending EXCEPT ![c] = o]
      \/ /\ kind \in {"plain", "fenced"}
         /\ ctl[k].op # None /\ pending[c] = ctl[k].op
         /\ op' = [op EXCEPT ![ctl[k].op].status = "settled"]
         /\ pending' = [pending EXCEPT ![c] = None]

AfterTitle(k) == IF ctl[k].phase = "titling" THEN "finished" ELSE ctl[k].phase

Commit(k, kind) ==
  LET r == ctl[k].lease
  IN  /\ proc.up /\ writer = <<k, kind>> /\ FencePasses(k, kind)
      /\ writer' = None
      /\ exec' = [exec EXCEPT ![r] = InState(r, Recovered(k, kind))]
      /\ turn' = IF Recovered(k, kind) = exec[r].state THEN turn
                 ELSE [turn EXCEPT ![r[1]] = TurnStateOf(Recovered(k, kind))]
      /\ OperationEffect(k, kind)
      /\ lastWriter' = [lastWriter EXCEPT ![Conv(r)] = r]
      /\ ctl' = [ctl EXCEPT ![k].phase = AfterTitle(k)]
      /\ UNCHANGED <<receipt, proc, jumps>>

\* A refused commit rolls back and revokes the scope it ran under; recovery
\* and title run under a scope of their own.
Fenced(k, kind) ==
  /\ proc.up /\ writer = <<k, kind>> /\ ~FencePasses(k, kind)
  /\ writer' = None
  /\ ctl' = [ctl EXCEPT ![k].phase = AfterTitle(k),
               ![k].revoked = @ \/ kind \in {"plain", "fenced"}]
  /\ UNCHANGED <<durable, lastWriter, proc, jumps>>

-----------------------------------------------------------------------------
(* The control plane. *)

InterruptStatus(r) ==
  CASE Active(r) \/ exec[r].state = "stopped" -> "stopped"
    [] exec[r].state = "result_unknown" \/ (exec[r].state = "running" /\ ~Fresh(r))
         -> "result_unknown"
    [] exec[r].state = "waiting_confirmation" -> "no_active_execution"
    [] exec[r].state \in {"completed", "failed", "interrupted"} -> "already_ended"

\* interrupt(command_id, turn_id, expected_generation). A repeated command
\* returns its receipt and changes nothing.
Interrupt(m, r) ==
  /\ proc.up /\ writer = None
  /\ receipt[m].status = "none" /\ turn[r[1]] # "none"
  /\ LET status == IF NoRowOf(r[1]) THEN "no_active_execution"
                   ELSE IF ~LatestOf(r[1], r) THEN "generation_changed"
                   ELSE InterruptStatus(r)
     IN  /\ receipt' = [receipt EXCEPT ![m] = [status |-> status, target |-> r]]
         /\ exec' = IF status \in {"stopped", "result_unknown"}
                    THEN [exec EXCEPT ![r] = InState(r, status)] ELSE exec
  /\ UNCHANGED <<turn, pending, op, lastWriter, writer, ctl, proc, jumps>>

\* get_execution, get_runtime_execution, get_conversation_execution and
\* PilotTimeline.get_turn persist an expiry they see.
ObserveExpiry(r) ==
  /\ proc.up /\ writer = None
  /\ exec[r].state = "running" /\ ~Fresh(r)
  /\ exec' = [exec EXCEPT ![r] = InState(r, "result_unknown")]
  /\ UNCHANGED <<turn, pending, op, receipt, lastWriter, writer, ctl, proc, jumps>>

Close ==
  /\ proc.up /\ ~proc.closed
  /\ proc' = [proc EXCEPT !.closed = TRUE]
  /\ UNCHANGED <<durable, lastWriter, writer, ctl, jumps>>

\* The process dies: its memory and its open transaction are gone.
Crash ==
  /\ proc.up /\ proc.epoch < MaxEpoch
  /\ proc' = [proc EXCEPT !.up = FALSE]
  /\ writer' = None
  /\ ctl' = [k \in Controls |->
               IF ctl[k].phase = "free" THEN ctl[k]
               ELSE [FreeControl EXCEPT !.phase = "dead", !.lease = ctl[k].lease]]
  /\ UNCHANGED <<durable, lastWriter, jumps>>

\* The next process fences the Runtime executions of older epochs before it
\* accepts work (reconcile_runtime_epoch).
Orphaned(r) == /\ exec[r].state = "running"
               /\ exec[r].epoch \notin {0, proc'.epoch}
ReconcileRuntimeEpoch ==
  /\ ~proc.up
  /\ proc' = [up |-> TRUE, closed |-> FALSE, epoch |-> proc.epoch + 1]
  /\ exec' = [r \in Rows |-> IF Orphaned(r)
                             THEN InState(r, "result_unknown") ELSE exec[r]]
  /\ turn' = [t \in Turns |-> IF \E r \in Rows : r[1] = t /\ Orphaned(r)
                              THEN "incomplete" ELSE turn[t]]
  /\ UNCHANGED <<pending, op, receipt, lastWriter, writer, ctl, jumps>>

-----------------------------------------------------------------------------
(* Clocks. Both advance together; only the wall clock can step back. *)

Tick ==
  /\ exec' = [r \in Rows |-> IF exec[r].state = "running" /\ exec[r].age < LeaseMs + MaxJumps
                             THEN [exec[r] EXCEPT !.age = @ + 1] ELSE exec[r]]
  /\ ctl' = [k \in Controls |-> IF ctl[k].phase \in {"live", "finished"} /\ ctl[k].age < LeaseMs
                                THEN [ctl[k] EXCEPT !.age = @ + 1] ELSE ctl[k]]
  /\ UNCHANGED <<turn, pending, op, receipt, lastWriter, writer, proc, jumps>>

ClockBack ==
  /\ jumps < MaxJumps /\ jumps' = jumps + 1
  /\ exec' = [r \in Rows |-> IF exec[r].state = "running" /\ exec[r].age > -MaxJumps
                             THEN [exec[r] EXCEPT !.age = @ - 1] ELSE exec[r]]
  /\ UNCHANGED <<turn, pending, op, receipt, lastWriter, writer, ctl, proc>>

-----------------------------------------------------------------------------
WorkerStep(k) ==
  \/ Attach(k) \/ AdmissionFailed(k)
  \/ Observe(k) \/ MarkCompleted(k)
  \/ \E s \in WorkerResults : Finish(k, s)
  \/ StartTitle(k)
  \/ \E kind \in WorkerKinds : Begin(k, kind) \/ Commit(k, kind) \/ Fenced(k, kind)

ControlStep(k) == RequestCancel(k) \/ RequestTimeout(k) \/ CloseFinish(k)

HeartbeatStep(k) == RenewBegin(k) \/ RenewSucceeds(k) \/ RenewFails(k)

ClaimStep(k) ==
  \/ \E t \in Turns : ClaimStart(k, t)
  \/ OpenUnleased(k)
  \/ \E o \in Operations, r \in Rows : ClaimConfirmation(k, o, r) \/ ClaimLate(k, o, r)

ControlPlaneStep ==
  \/ \E m \in Commands, r \in Rows : Interrupt(m, r)
  \/ \E r \in Rows : ObserveExpiry(r)
  \/ Close \/ Crash \/ ReconcileRuntimeEpoch

Next ==
  \/ \E k \in Controls : WorkerStep(k) \/ ControlStep(k) \/ HeartbeatStep(k) \/ ClaimStep(k)
  \/ ControlPlaneStep
  \/ Tick \/ ClockBack

Spec == Init /\ [][Next]_vars

\* Time passes, and a heartbeat in flight takes its next step; nothing is
\* assumed of workers, whose model calls may never return.
Fairness == /\ WF_vars(Tick)
            /\ \A k \in Controls : WF_vars(HeartbeatStep(k))
FairSpec == Spec /\ Fairness

-----------------------------------------------------------------------------
(* Properties. *)

\* A conversation never has two executions in state running, expired or not:
\* a claim ends the expired ones and refuses beside a valid one (_claim,
\* _release_expired), whatever crashes, clock steps and lost renewals do. So no
\* claim ever fails on the unique index uq_pilot_conversation_running.
SingleOwner ==
  \A r, q \in Rows :
    exec[r].state = "running" /\ exec[q].state = "running" /\ Conv(r) = Conv(q) => r = q

\* A turn whose newest execution ended with a definite result says the same in
\* its own row (_finish_in_session, the recovery of _commit_fence), and a turn
\* waiting for confirmation still counts as started.
TurnAgrees ==
  \A r \in Rows :
    LatestOf(r[1], r) =>
      /\ exec[r].state \in {"completed", "failed", "interrupted"} => turn[r[1]] = exec[r].state
      /\ exec[r].state = "waiting_confirmation" => turn[r[1]] = "started"

\* No execution is recorded as completed while an operation its turn proposed
\* is still waiting for the user: nobody would be told to confirm it.
NoOrphanPending ==
  \A r \in Rows :
    exec[r].state = "completed" /\ pending[Conv(r)] # None => op[pending[Conv(r)]].turn # r[1]

\* An execution that ended never runs again and never changes its result: not
\* by a late finish, a renewal in flight, an interrupt, a reconciliation or the
\* recovery commit of a timed-out worker.
TerminalIsFinal ==
  [][\A r \in Rows : exec[r].state \notin {"absent", "running"} =>
       exec'[r].state = exec[r].state]_vars

\* Once an interrupt command was answered "stopped", no protected write of that
\* execution commits, whatever its worker, its timeout recovery or its title
\* call had already begun (_commit_fence against interrupt).
StopIsRespected ==
  [][\A m \in Commands, k \in Controls, kind \in Kinds :
       Commit(k, kind) => receipt[m] # [status |-> "stopped", target |-> ctl[k].lease]]_vars

\* A control that was cancelled, timed out, completed or finished, or whose
\* process died, cannot keep its conversation: its heartbeat does not extend
\* the lease for ever, so the execution stops counting as running for good.
Abandoned(k) == ctl[k].lease # None
                /\ (ctl[k].stop \/ ctl[k].inner # "ACTIVE"
                   \/ ctl[k].phase \in {"finished", "titling", "dead"})
AbandonedConverges ==
  \A k \in Controls : Abandoned(k) ~> [](ctl[k].lease # None => ~Active(ctl[k].lease))

\* The lease implements exclusive ownership of a conversation.
Ended(r) == exec[r].state \notin {"absent", "running"}
OwnerOf(c) == IF \E r \in RowsOf(c) : exec[r].state = "running"
              THEN CHOOSE r \in RowsOf(c) : exec[r].state = "running" ELSE None
LastOf(c) == IF RowsOf(c) = {} THEN None ELSE CHOOSE r \in RowsOf(c) : IsLatest(r)

Ownership == INSTANCE TurnOwnership WITH
  Executions <- Rows,
  Home <- [r \in Rows |-> Conv(r)],
  owner <- [c \in Conversations |-> OwnerOf(c)],
  last <- [c \in Conversations |-> LastOf(c)],
  spent <- {r \in Rows : Ended(r)},
  author <- lastWriter

\* Every behaviour of the leases is one of TurnOwnership: in particular no write
\* of an older execution lands after a newer one was claimed.
ImplementsOwnership == Ownership!OSpec
=============================================================================
