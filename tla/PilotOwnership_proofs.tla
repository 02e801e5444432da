----------------------- MODULE PilotOwnership_proofs -----------------------
(***************************************************************************)
(* More about PilotControl, for every value of its constants: what a       *)
(* turn's row says of its executions, that no completed execution hides a  *)
(* waiting operation, and that the lease implements TurnOwnership.         *)
(***************************************************************************)
EXTENDS PilotControl_proofs

-----------------------------------------------------------------------------
(* The inductive invariant.  Rows of one turn are ordered by generation,     *)
(* those of one conversation by seq; a running row is the newest in both.    *)

Present(r) == exec[r].state # "absent"

\* A turn that was not started has no execution.
Unclaimed == \A r \in Rows : Present(r) => turn[r[1]] # "none"
\* A running execution is the newest of its turn ...
NewestRuns == \A r, q \in Rows :
  exec[r].state = "running" /\ Present(q) /\ q[1] = r[1] => q[2] <= r[2]
\* ... and a turn that completed does not run again.
DoneIsLast == \A r, q \in Rows :
  exec[r].state = "completed" /\ exec[q].state = "running" => r[1] # q[1]
TurnInv == /\ SingleOwner /\ Unclaimed /\ NewestRuns /\ DoneIsLast
           /\ TurnAgrees /\ NoOrphanPending

\* No two executions of a conversation share a sequence number, the running one
\* has the largest, and one of them has.
OneSeq == \A r, q \in Rows :
  Present(r) /\ Present(q) /\ Conv(r) = Conv(q) /\ exec[r].seq = exec[q].seq => r = q
LatestRuns == \A r \in Rows : exec[r].state = "running" => IsLatest(r)
HasLatest == \A c \in Conversations : RowsOf(c) = {} \/ \E r \in RowsOf(c) : IsLatest(r)
SeqInv == OneSeq /\ LatestRuns /\ HasLatest

-----------------------------------------------------------------------------
(* What a step does to the rows: it claims one, or it settles some.          *)

Told == {"completed", "failed", "interrupted", "waiting_confirmation"}
Waits(q) == pending[Conv(q)] # None /\ op[pending[Conv(q)]].turn = q[1]

\* No row appears or changes its place in an order; running rows may end, and
\* one that ends with a definite result says so in its turn.
Settles ==
  /\ \A q \in Rows : RowKeeps(q) /\ exec'[q].seq = exec[q].seq
  /\ \A q \in Rows : exec[q].state = "running" /\ exec'[q].state \in Told =>
                       turn'[q[1]] = TurnStateOf(exec'[q].state)
  /\ \A q \in Rows : exec[q].state = "running" /\ exec'[q].state = "completed" => ~Waits(q)
  /\ \A t \in Turns :
       \/ turn'[t] = turn[t]
       \/ /\ turn'[t] # "none"
          /\ \E q \in Rows : q[1] = t /\ exec[q].state = "running" /\ exec'[q].state # "running"

\* A row is claimed that is new in its turn: the first of a turn that was not
\* started, or the next one of the turn that carries a waiting operation.
Claims(r, e) ==
  /\ Claim(r, e)
  /\ \A q \in Rows : q[1] = r[1] /\ q[2] >= r[2] => ~Present(q)
  /\ \/ UNCHANGED op /\ turn[r[1]] = "none"
     \/ \E o \in Operations : ConfirmRow(o, r)
  /\ UNCHANGED <<pending, lastWriter>>

Quiet == UNCHANGED <<pending, op, lastWriter>>

LEMMA RowParts ==
  ASSUME NEW r \in Rows
  PROVE  r[1] \in Turns /\ r[2] \in 1..MaxGen /\ r = <<r[1], r[2]>> /\ Conv(r) \in Conversations
  BY ConvAssumption DEF Rows, Conv

LEMMA SameRowsSettle ==
  ASSUME \A q \in Rows : exec'[q].state = exec[q].state /\ exec'[q].seq = exec[q].seq,
         UNCHANGED turn
  PROVE  Settles
  BY DEF Settles, RowKeeps, Told

LEMMA InStateKeepsSeq ==
  ASSUME IInv, NEW r \in Rows, NEW s \in RowStates \cup {"absent"}
  PROVE  InState(r, s).state = s /\ InState(r, s).seq = exec[r].seq
<1>1. exec[r] \in ExecRecord
  BY Typed
<1>2. QED
  BY <1>1 DEF InState, ExecRecord

LEMMA OneEnds ==
  ASSUME IInv, NEW r \in Rows, exec[r].state = "running", NEW s \in Ending,
         exec' = [exec EXCEPT ![r] = InState(r, s)],
         \/ s \in {"stopped", "result_unknown"} /\ UNCHANGED turn
         \/ s # "stopped" /\ turn' = [turn EXCEPT ![r[1]] = TurnStateOf(s)],
         s = "completed" => ~Waits(r)
  PROVE  Settles
<1>1. InState(r, s).state = s /\ InState(r, s).seq = exec[r].seq
  BY InStateKeepsSeq DEF Ending, RowStates
<1>2. /\ exec'[r].state = s /\ exec'[r].seq = exec[r].seq
      /\ \A q \in Rows : q # r => exec'[q] = exec[q]
  BY <1>1, Typed
<1>3. s # "running" /\ r[1] \in Turns
  BY RowParts DEF Ending
<1>4. \A q \in Rows : RowKeeps(q) /\ exec'[q].seq = exec[q].seq
  BY <1>2 DEF RowKeeps
<1>5. \A q \in Rows : exec[q].state = "running" /\ exec'[q].state \in Told =>
                        q = r /\ turn'[r[1]] = TurnStateOf(s)
  BY <1>2, <1>3, Typed DEF Told
<1>6. \A q \in Rows : exec[q].state = "running" /\ exec'[q].state = "completed" => q = r /\ ~Waits(r)
  BY <1>2
<1>7. s # "stopped" => TurnStateOf(s) # "none"
  BY DEF TurnStateOf, Ending
<1>8. \A t \in Turns : turn'[t] = turn[t] \/ (t = r[1] /\ turn'[t] # "none")
  BY <1>3, <1>7, Typed
<1>9. QED
  BY <1>2, <1>3, <1>4, <1>5, <1>6, <1>8 DEF Settles

LEMMA FinishRowSettles ==
  ASSUME IInv, NEW r \in Rows, NEW s \in Ending \ {"stopped"}, FinishRow(r, s)
  PROVE  Settles
<1>1. FinishState(r, s) \in Ending \ {"stopped"}
  BY DEF FinishState, Ending
<1>2. FinishState(r, s) = "completed" => ~Waits(r)
  BY DEF FinishState, Waits
<1>3. CASE exec[r].state = "running"
  <2>1. /\ exec' = [exec EXCEPT ![r] = InState(r, FinishState(r, s))]
        /\ turn' = [turn EXCEPT ![r[1]] = TurnStateOf(FinishState(r, s))]
    BY <1>3 DEF FinishRow
  <2>2. QED
    BY <1>1, <1>2, <1>3, <2>1, OneEnds
<1>4. CASE exec[r].state # "running"
  BY <1>4, SameRowsSettle DEF FinishRow
<1>5. QED
  BY <1>3, <1>4

-----------------------------------------------------------------------------
(* A heartbeat belongs to a control with a lease.                            *)

Beating == \A k \in Controls : ctl[k].hb # "off" => ctl[k].lease \in Rows

LEMMA BeatingUpdate ==
  ASSUME IInv, Beating, NEW k \in Controls,
         \A j \in Controls : j # k => ctl'[j] = ctl[j],
         \/ ctl'[k].hb = ctl[k].hb /\ ctl'[k].lease = ctl[k].lease
         \/ ctl'[k].hb = "off"
         \/ ctl'[k].lease \in Rows
  PROVE  Beating'
<1>. SUFFICES ASSUME NEW j \in Controls, ctl'[j].hb # "off" PROVE ctl'[j].lease \in Rows
  BY DEF Beating
<1>1. QED
  BY DEF Beating

LEMMA BeatingStep ==
  ASSUME IInv, Beating, [Next]_vars
  PROVE  Beating'
<1>. USE DEF durable
<1>1. ASSUME NEW k \in Controls,
             \/ Attach(k) \/ AdmissionFailed(k) \/ Observe(k) \/ MarkCompleted(k)
             \/ StartTitle(k) \/ RequestCancel(k) \/ RequestTimeout(k) \/ CloseFinish(k)
             \/ RenewBegin(k) \/ RenewSucceeds(k) \/ RenewFails(k) \/ OpenUnleased(k)
      PROVE  Beating'
  <2>. ctl \in [Controls -> CtlRecord]
    BY Typed
  <2>. ctl[k] \in CtlRecord
    OBVIOUS
  <2>1. CASE Attach(k)
    <3>1. ctl[k].lease \in Rows
      BY <2>1 DEF Attach, IInv, Leased, Working
    <3>2. /\ \A j \in Controls : j # k => ctl'[j] = ctl[j]
          /\ ctl'[k].lease = ctl[k].lease
      BY <2>1 DEF Attach, CtlRecord
    <3>3. QED
      BY <3>1, <3>2, BeatingUpdate
  <2>2. CASE AdmissionFailed(k)
    BY <2>2, BeatingUpdate DEF AdmissionFailed, CtlRecord
  <2>3. CASE Observe(k)
    BY <2>3, BeatingUpdate DEF Observe, CtlRecord
  <2>4. CASE MarkCompleted(k)
    BY <2>4, BeatingUpdate DEF MarkCompleted, CtlRecord
  <2>5. CASE StartTitle(k)
    BY <2>5, BeatingUpdate DEF StartTitle, CtlRecord
  <2>6. CASE RequestCancel(k) \/ RequestTimeout(k)
    BY <2>6, BeatingUpdate DEF RequestCancel, RequestTimeout, EndInner, CtlRecord
  <2>7. CASE CloseFinish(k)
    BY <2>7, BeatingUpdate DEF CloseFinish, CtlRecord
  <2>8. CASE RenewBegin(k)
    <3>1. /\ \A j \in Controls : j # k => ctl'[j] = ctl[j]
          /\ ctl'[k].lease = ctl[k].lease
      BY <2>8 DEF RenewBegin, CtlRecord
    <3>2. ctl[k].lease \in Rows
      BY <2>8 DEF RenewBegin, Beating
    <3>3. QED
      BY <3>1, <3>2, BeatingUpdate
  <2>9. CASE RenewSucceeds(k)
    <3>1. /\ \A j \in Controls : j # k => ctl'[j] = ctl[j]
          /\ ctl'[k].lease = ctl[k].lease
      BY <2>9 DEF RenewSucceeds, CtlRecord
    <3>2. ctl[k].lease \in Rows
      BY <2>9 DEF RenewSucceeds, Beating
    <3>3. QED
      BY <3>1, <3>2, BeatingUpdate
  <2>10. CASE RenewFails(k)
    BY <2>10, BeatingUpdate DEF RenewFails, CtlRecord
  <2>11. CASE OpenUnleased(k)
    BY <2>11, BeatingUpdate DEF OpenUnleased, CtlRecord
  <2>12. QED
    BY <1>1, <2>1, <2>2, <2>3, <2>4, <2>5, <2>6, <2>7, <2>8, <2>9, <2>10, <2>11
<1>2. ASSUME NEW k \in Controls, NEW s, Finish(k, s) PROVE Beating'
  <2>. ctl \in [Controls -> CtlRecord]
    BY Typed
  <2>1. /\ \A j \in Controls : j # k => ctl'[j] = ctl[j]
        /\ ctl'[k].lease = ctl[k].lease /\ ctl'[k].hb = ctl[k].hb
    BY <1>2 DEF Finish, CtlRecord
  <2>2. QED
    BY <2>1, BeatingUpdate
<1>3. ASSUME NEW k \in Controls, NEW kind, Begin(k, kind) \/ Commit(k, kind) \/ Fenced(k, kind)
      PROVE  Beating'
  <2>. ctl \in [Controls -> CtlRecord]
    BY Typed
  <2>1. /\ \A j \in Controls : j # k => ctl'[j] = ctl[j]
        /\ ctl'[k].lease = ctl[k].lease /\ ctl'[k].hb = ctl[k].hb
    BY <1>3 DEF Begin, Commit, Fenced, CtlRecord
  <2>2. QED
    BY <2>1, BeatingUpdate
<1>4. ASSUME NEW k \in Controls, NEW t \in Turns, ClaimStart(k, t) PROVE Beating'
  <2>1. <<t, 1>> \in Rows
    BY BoundAssumption DEF Rows
  <2>2. /\ \A j \in Controls : j # k => ctl'[j] = ctl[j]
        /\ ctl'[k].lease = <<t, 1>>
    BY <1>4, Typed DEF ClaimStart, CtlRecord
  <2>3. QED
    BY <2>1, <2>2, BeatingUpdate
<1>5. ASSUME NEW k \in Controls, NEW o, NEW r \in Rows,
             ClaimConfirmation(k, o, r) \/ ClaimLate(k, o, r)
      PROVE  Beating'
  <2>1. /\ \A j \in Controls : j # k => ctl'[j] = ctl[j]
        /\ ctl'[k].lease = r
    BY <1>5, Typed DEF ClaimConfirmation, ClaimLate, CtlRecord
  <2>2. QED
    BY <2>1, BeatingUpdate
<1>6. CASE ControlPlaneStep
  <2>1. CASE Crash
    BY <2>1, NoneAssumption DEF Crash, Beating, FreeControl
  <2>2. CASE ~Crash
    BY <1>6, <2>2 DEF ControlPlaneStep, Interrupt, ObserveExpiry, Close, ReconcileRuntimeEpoch, Beating
  <2>3. QED
    BY <2>1, <2>2
<1>7. CASE Tick
  <2>1. \A j \in Controls : ctl'[j].hb = ctl[j].hb /\ ctl'[j].lease = ctl[j].lease
    BY <1>7, Typed DEF Tick, CtlRecord
  <2>2. QED
    BY <2>1 DEF Beating
<1>8. CASE ClockBack \/ UNCHANGED vars
  BY <1>8 DEF ClockBack, vars, Beating
<1>9. QED
  BY <1>1, <1>2, <1>3, <1>4, <1>5, <1>6, <1>7, <1>8
     DEF Next, WorkerStep, ControlStep, HeartbeatStep, ClaimStep

-----------------------------------------------------------------------------
(* Every step is one of three: rows settle, a row is claimed, or a worker's    *)
(* transaction commits.                                                       *)

LEMMA FinishSafelySettles ==
  ASSUME IInv, NEW k \in Controls, NEW s \in Ending \ {"stopped"}, FinishSafely(k, s)
  PROVE  Settles
<1>1. CASE UNCHANGED <<exec, turn>>
  BY <1>1, SameRowsSettle
<1>2. CASE ctl[k].phase \in Working /\ FinishRow(ctl[k].lease, s)
  BY <1>2, FinishRowSettles DEF IInv, Leased
<1>3. QED
  BY <1>1, <1>2 DEF FinishSafely, Working

LEMMA FinishDurablySettles ==
  ASSUME IInv, NEW k \in Controls, NEW s \in Ending \ {"stopped"},
         ctl[k].phase = "live", FinishDurably(k, s)
  PROVE  Settles
<1>1. Resolved(k, s) \in Ending \ {"stopped"}
  BY DEF Resolved, Ending
<1>2. ctl[k].lease \in Rows
  BY DEF IInv, Leased, Working
<1>3. QED
  BY <1>1, <1>2, SameRowsSettle, FinishRowSettles DEF FinishDurably

LEMMA RenewFailsSettles ==
  ASSUME IInv, Beating, NEW k \in Controls, RenewFails(k)
  PROVE  Settles
<1>. DEFINE r == ctl[k].lease
<1>1. r \in Rows
  BY DEF RenewFails, Beating
<1>2. CASE UNCHANGED <<exec, turn>>
  BY <1>2, SameRowsSettle
<1>3. CASE /\ exec[r].state = "running" /\ UNCHANGED turn
           /\ exec' = [exec EXCEPT ![r] = InState(r, "result_unknown")]
  BY <1>1, <1>3, OneEnds DEF Ending
<1>4. CASE FinishRow(r, "result_unknown")
  BY <1>1, <1>4, FinishRowSettles DEF Ending
<1>5. CASE exec' = [exec EXCEPT ![r].age = 0] /\ UNCHANGED turn
  <2>1. \A q \in Rows : exec'[q].state = exec[q].state /\ exec'[q].seq = exec[q].seq
    BY <1>5, Typed DEF ExecRecord
  <2>2. QED
    BY <1>5, <2>1, SameRowsSettle
<1>6. QED
  BY <1>2, <1>3, <1>4, <1>5 DEF RenewFails

LEMMA InterruptSettles ==
  ASSUME IInv, NEW m \in Commands, NEW r \in Rows, Interrupt(m, r)
  PROVE  Settles
<1>1. PICK s \in Statuses :
        /\ exec' = IF s \in {"stopped", "result_unknown"}
                   THEN [exec EXCEPT ![r] = InState(r, s)] ELSE exec
        /\ s \in {"stopped", "result_unknown"} => exec[r].state \in {"running", s}
  <2>. DEFINE status == IF NoRowOf(r[1]) THEN "no_active_execution"
                        ELSE IF ~LatestOf(r[1], r) THEN "generation_changed"
                        ELSE InterruptStatus(r)
  <2>1. exec' = IF status \in {"stopped", "result_unknown"}
                THEN [exec EXCEPT ![r] = InState(r, status)] ELSE exec
    BY DEF Interrupt
  <2>2. /\ status \in Statuses
        /\ status \in {"stopped", "result_unknown"} => exec[r].state \in {"running", status}
    <3>1. CASE NoRowOf(r[1]) \/ ~LatestOf(r[1], r)
      BY <3>1 DEF Statuses
    <3>2. CASE ~NoRowOf(r[1]) /\ LatestOf(r[1], r)
      <4>1. exec[r].state # "absent" /\ status = InterruptStatus(r)
        BY <3>2 DEF LatestOf
      <4>2. QED
        BY <4>1, Typed, InterruptStatusMeans
    <3>3. QED
      BY <3>1, <3>2
  <2>. HIDE DEF status
  <2>3. QED
    BY <2>1, <2>2
<1>2. UNCHANGED turn
  BY DEF Interrupt
<1>3. CASE s \in {"stopped", "result_unknown"} /\ exec[r].state = "running"
  BY <1>1, <1>2, <1>3, OneEnds DEF Ending
<1>4. CASE s \in {"stopped", "result_unknown"} /\ exec[r].state # "running"
  <2>1. exec[r].state = s /\ s \in RowStates
    BY <1>1, <1>4 DEF RowStates
  <2>2. \A q \in Rows : exec'[q].state = exec[q].state /\ exec'[q].seq = exec[q].seq
    BY <1>1, <1>4, <2>1, InStateKeepsSeq, Typed
  <2>3. QED
    BY <1>2, <2>2, SameRowsSettle
<1>5. CASE s \notin {"stopped", "result_unknown"}
  BY <1>1, <1>2, <1>5, SameRowsSettle
<1>6. QED
  BY <1>3, <1>4, <1>5

LEMMA ReconcileSettles ==
  ASSUME IInv, ReconcileRuntimeEpoch
  PROVE  Settles
<1>1. \A q \in Rows :
        /\ exec'[q].seq = exec[q].seq
        /\ IF Orphaned(q) THEN exec[q].state = "running" /\ exec'[q].state = "result_unknown"
                          ELSE exec'[q].state = exec[q].state
  <2>. SUFFICES ASSUME NEW q \in Rows
                PROVE  /\ exec'[q].seq = exec[q].seq
                       /\ IF Orphaned(q)
                          THEN exec[q].state = "running" /\ exec'[q].state = "result_unknown"
                          ELSE exec'[q].state = exec[q].state
    OBVIOUS
  <2>1. exec'[q] = IF Orphaned(q) THEN InState(q, "result_unknown") ELSE exec[q]
    BY DEF ReconcileRuntimeEpoch
  <2>2. Orphaned(q) => exec[q].state = "running"
    BY DEF Orphaned
  <2>3. QED
    BY <2>1, <2>2, InStateKeepsSeq DEF RowStates
<1>2. \A t \in Turns :
        turn'[t] = IF \E q \in Rows : q[1] = t /\ Orphaned(q) THEN "incomplete" ELSE turn[t]
  BY DEF ReconcileRuntimeEpoch
<1>3. \A q \in Rows : RowKeeps(q) /\ ~(exec[q].state = "running" /\ exec'[q].state \in Told)
  BY <1>1 DEF RowKeeps, Ending, Told
<1>4. \A t \in Turns : turn'[t] # turn[t] =>
        \E q \in Rows : q[1] = t /\ exec[q].state = "running" /\ exec'[q].state # "running"
  <2>. SUFFICES ASSUME NEW t \in Turns, turn'[t] # turn[t]
                PROVE  \E q \in Rows : q[1] = t /\ exec[q].state = "running" /\ exec'[q].state # "running"
    OBVIOUS
  <2>1. PICK q \in Rows : q[1] = t /\ Orphaned(q)
    BY <1>2
  <2>2. QED
    BY <1>1, <2>1
<1>5. \A t \in Turns : turn'[t] # turn[t] => turn'[t] # "none"
  BY <1>2
<1>6. QED
  BY <1>1, <1>3, <1>4, <1>5 DEF Settles, Told

LEMMA CommitSettles ==
  ASSUME IInv, NEW k \in Controls, NEW kind \in Kinds, Commit(k, kind)
  PROVE  Settles /\ ctl[k].lease \in Rows
<1>. DEFINE r == ctl[k].lease
            s == Recovered(k, kind)
<1>1. r \in Rows
  BY DEF Commit, IInv, Leased, InTransaction
<1>2. /\ exec' = [exec EXCEPT ![r] = InState(r, s)]
      /\ turn' = IF s = exec[r].state THEN turn ELSE [turn EXCEPT ![r[1]] = TurnStateOf(s)]
  BY DEF Commit
<1>3. \/ s = exec[r].state
      \/ exec[r].state = "running" /\ s \in {"interrupted", "result_unknown"}
  BY DEF Recovered
<1>4. CASE s = exec[r].state
  <2>1. s \in RowStates \cup {"absent"}
    BY <1>1, <1>4, Typed DEF ExecRecord
  <2>. HIDE DEF s
  <2>2. \A q \in Rows : exec'[q].state = exec[q].state /\ exec'[q].seq = exec[q].seq
    BY <1>1, <1>2, <1>4, <2>1, InStateKeepsSeq, Typed
  <2>3. QED
    BY <1>1, <1>2, <1>4, <2>2, SameRowsSettle
<1>5. CASE s # exec[r].state
  <2>. HIDE DEF s
  <2>1. QED
    BY <1>1, <1>2, <1>3, <1>5, OneEnds DEF Ending
<1>6. QED
  BY <1>4, <1>5


LEMMA ConfirmRowIsNew ==
  ASSUME IInv, NEW o \in Operations, NEW r \in Rows, ConfirmRow(o, r),
         NEW q \in Rows, q[1] = r[1], q[2] >= r[2]
  PROVE  ~Present(q)
<1>1. /\ r[1] \in Turns /\ r[2] \in 1..MaxGen /\ q[2] \in 1..MaxGen
      /\ q = <<r[1], q[2]>>
  BY RowParts
<1>2. CASE r[2] = 1
  <2>1. exec[<<r[1], q[2]>>].state = "absent"
    BY <1>1, <1>2 DEF ConfirmRow, NoRowOf
  <2>2. QED
    BY <1>1, <2>1, Zenon DEF Present
<1>3. CASE r[2] # 1
  <2>1. q[2] \in (r[2] - 1) + 1 .. MaxGen
    BY <1>1, BoundAssumption
  <2>2. LatestOf(r[1], <<r[1], r[2] - 1>>)
    BY <1>3 DEF ConfirmRow
  <2>3. exec[<<r[1], q[2]>>].state = "absent"
    BY <2>1, <2>2 DEF LatestOf
  <2>4. QED
    BY <1>1, <2>3, Zenon DEF Present
<1>4. QED
  BY <1>2, <1>3

LEMMA ClaimStartClaims ==
  ASSUME IInv, NEW k \in Controls, NEW t \in Turns, ClaimStart(k, t)
  PROVE  \E r \in Rows, e \in 0..MaxEpoch : Claims(r, e)
<1>. DEFINE r == <<t, 1>>
<1>1. r \in Rows /\ r[1] = t
  BY BoundAssumption DEF Rows
<1>2. \A q \in Rows : q[1] = t => ~Present(q)
  <2>. SUFFICES ASSUME NEW q \in Rows, q[1] = t PROVE ~Present(q)
    OBVIOUS
  <2>1. q[2] \in 1..MaxGen /\ q = <<t, q[2]>>
    BY RowParts
  <2>2. exec[<<t, q[2]>>].state = "absent"
    BY <2>1 DEF ClaimStart, NoRowOf
  <2>3. QED
    BY <2>1, <2>2, Zenon DEF Present
<1>3. Claim(r, proc.epoch) /\ turn[t] = "none" /\ UNCHANGED <<op, pending, lastWriter>>
  BY DEF ClaimStart
<1>4. Claims(r, proc.epoch)
  BY <1>1, <1>2, <1>3 DEF Claims
<1>5. QED
  BY <1>1, <1>4, Typed

LEMMA ConfirmationClaims ==
  ASSUME IInv, NEW o \in Operations, NEW r \in Rows, NEW e \in 0..MaxEpoch, Claim(r, e),
         ConfirmRow(o, r), UNCHANGED <<pending, lastWriter>>
  PROVE  Claims(r, e)
  BY ConfirmRowIsNew DEF Claims

LEMMA WhatHappens ==
  ASSUME IInv, Beating, [Next]_vars
  PROVE  \/ Settles /\ Quiet
         \/ \E r \in Rows, e \in 0..MaxEpoch : Claims(r, e)
         \/ \E k \in Controls, kind \in Kinds : Commit(k, kind)
<1>1. ASSUME NEW k \in Controls,
             \/ Attach(k) \/ MarkCompleted(k) \/ StartTitle(k) \/ OpenUnleased(k) \/ RenewBegin(k)
      PROVE  Settles /\ Quiet
  BY <1>1, SameRowsSettle
     DEF Attach, MarkCompleted, StartTitle, OpenUnleased, RenewBegin, durable, Quiet
<1>2. ASSUME NEW k \in Controls, AdmissionFailed(k) PROVE Settles /\ Quiet
  <2>1. ctl[k].lease \in Rows
    BY <1>2 DEF AdmissionFailed, IInv, Leased, Working
  <2>2. QED
    BY <1>2, <2>1, FinishRowSettles, SameRowsSettle DEF AdmissionFailed, Quiet, Ending
<1>3. ASSUME NEW k \in Controls, Observe(k) PROVE Settles /\ Quiet
  BY <1>3, FinishSafelySettles, SameRowsSettle DEF Observe, Quiet, Ending
<1>4. ASSUME NEW k \in Controls, NEW s \in WorkerResults, Finish(k, s) PROVE Settles /\ Quiet
  <2>1. s \in Ending \ {"stopped"}
    BY BoundAssumption DEF Results, Ending
  <2>2. QED
    BY <1>4, <2>1, FinishDurablySettles DEF Finish, Quiet
<1>5. ASSUME NEW k \in Controls, NEW kind \in WorkerKinds, Begin(k, kind) \/ Fenced(k, kind)
      PROVE  Settles /\ Quiet
  BY <1>5, SameRowsSettle DEF Begin, Fenced, durable, Quiet
<1>6. ASSUME NEW k \in Controls, NEW kind \in WorkerKinds, Commit(k, kind)
      PROVE  \E j \in Controls, d \in Kinds : Commit(j, d)
  BY <1>6, BoundAssumption
<1>7. ASSUME NEW k \in Controls, ControlStep(k) PROVE Settles /\ Quiet
  <2>1. CASE RequestCancel(k) \/ RequestTimeout(k)
    BY <2>1, FinishSafelySettles DEF RequestCancel, RequestTimeout, EndInner, Quiet, Ending
  <2>2. CASE CloseFinish(k)
    BY <2>2, FinishDurablySettles DEF CloseFinish, Quiet, Ending
  <2>3. QED
    BY <1>7, <2>1, <2>2 DEF ControlStep
<1>8. ASSUME NEW k \in Controls, RenewSucceeds(k) PROVE Settles /\ Quiet
  <2>1. \A q \in Rows : exec'[q].state = exec[q].state /\ exec'[q].seq = exec[q].seq
    BY <1>8, Typed DEF RenewSucceeds, ExecRecord
  <2>2. QED
    BY <1>8, <2>1, SameRowsSettle DEF RenewSucceeds, Quiet
<1>9. ASSUME NEW k \in Controls, RenewFails(k) PROVE Settles /\ Quiet
  BY <1>9, RenewFailsSettles DEF RenewFails, Quiet
<1>10. ASSUME NEW k \in Controls, ClaimStep(k), ~OpenUnleased(k)
       PROVE  \E r \in Rows, e \in 0..MaxEpoch : Claims(r, e)
  <2>1. CASE \E t \in Turns : ClaimStart(k, t)
    BY <2>1, ClaimStartClaims
  <2>2. ASSUME NEW o \in Operations, NEW r \in Rows, ClaimConfirmation(k, o, r)
        PROVE  Claims(r, proc.epoch)
    BY <2>2, ConfirmationClaims, Typed DEF ClaimConfirmation
  <2>3. ASSUME NEW o \in Operations, NEW r \in Rows, ClaimLate(k, o, r)
        PROVE  Claims(r, 0)
    <3>1. 0 \in 0..MaxEpoch
      BY BoundAssumption
    <3>2. QED
      BY <2>3, <3>1, ConfirmationClaims DEF ClaimLate
  <2>4. 0 \in 0..MaxEpoch
    BY BoundAssumption
  <2>5. QED
    BY <1>10, <2>1, <2>2, <2>3, <2>4, Typed DEF ClaimStep
<1>11. CASE ControlPlaneStep
  <2>1. CASE \E m \in Commands, r \in Rows : Interrupt(m, r)
    BY <2>1, InterruptSettles DEF Interrupt, Quiet
  <2>2. ASSUME NEW r \in Rows, ObserveExpiry(r) PROVE Settles /\ Quiet
    BY <2>2, OneEnds DEF ObserveExpiry, Quiet, Ending
  <2>3. CASE Close \/ Crash
    BY <2>3, SameRowsSettle DEF Close, Crash, durable, Quiet
  <2>4. CASE ReconcileRuntimeEpoch
    BY <2>4, ReconcileSettles DEF ReconcileRuntimeEpoch, Quiet
  <2>5. QED
    BY <1>11, <2>1, <2>2, <2>3, <2>4 DEF ControlPlaneStep
<1>12. CASE Tick
  <2>1. \A q \in Rows : exec'[q].state = exec[q].state /\ exec'[q].seq = exec[q].seq
    BY <1>12, Typed DEF Tick, ExecRecord
  <2>2. QED
    BY <1>12, <2>1, SameRowsSettle DEF Tick, Quiet
<1>13. CASE ClockBack
  <2>1. \A q \in Rows : exec'[q].state = exec[q].state /\ exec'[q].seq = exec[q].seq
    BY <1>13, Typed DEF ClockBack, ExecRecord
  <2>2. QED
    BY <1>13, <2>1, SameRowsSettle DEF ClockBack, Quiet
<1>14. CASE UNCHANGED vars
  BY <1>14, SameRowsSettle DEF vars, Quiet
<1>15. ASSUME NEW k \in Controls, WorkerStep(k)
       PROVE  (Settles /\ Quiet) \/ \E j \in Controls, kind \in Kinds : Commit(j, kind)
  BY <1>1, <1>2, <1>3, <1>4, <1>5, <1>6, <1>15 DEF WorkerStep
<1>16. ASSUME NEW k \in Controls, HeartbeatStep(k) PROVE Settles /\ Quiet
  BY <1>1, <1>8, <1>9, <1>16 DEF HeartbeatStep
<1>17. QED
  BY <1>1, <1>7, <1>10, <1>11, <1>12, <1>13, <1>14, <1>15, <1>16 DEF Next

-----------------------------------------------------------------------------
(* What a turn's row says, and the operation that waits.                     *)

LEMMA LatestMeans ==
  ASSUME NEW r \in Rows, LatestOf(r[1], r), NEW q \in Rows, q[1] = r[1], Present(q)
  PROVE  q[2] <= r[2]
<1>1. /\ r[2] \in 1..MaxGen /\ q[2] \in 1..MaxGen /\ q = <<r[1], q[2]>>
  BY RowParts
<1>2. q[2] > r[2] => q[2] \in r[2] + 1 .. MaxGen
  BY <1>1, BoundAssumption
<1>3. q[2] > r[2] => exec[<<r[1], q[2]>>].state = "absent"
  BY <1>2 DEF LatestOf
<1>4. q[2] > r[2] => ~Present(q)
  BY <1>1, <1>3, Zenon DEF Present
<1>5. QED
  BY <1>1, <1>4

LEMMA LatestPresent ==
  ASSUME NEW r \in Rows, LatestOf(r[1], r)
  PROVE  Present(r)
  BY DEF LatestOf, Present

\* While rows settle, presence and the newest row of a turn do not change.
LEMMA SettlesKeepsPresence ==
  ASSUME IInv, Settles, NEW q \in Rows
  PROVE  /\ Present(q)' <=> Present(q)
         /\ exec'[q].state = "running" => exec[q].state = "running"
         /\ exec'[q].seq = exec[q].seq
  BY DEF Settles, RowKeeps, Present, Ending

LEMMA SettlesKeepsLatest ==
  ASSUME IInv, Settles, NEW r \in Rows, LatestOf(r[1], r)'
  PROVE  LatestOf(r[1], r)
<1>1. r[1] \in Turns /\ exec'[r].state # "absent" /\ r[2] \in 1..MaxGen
  BY RowParts DEF LatestOf
<1>2. \A g \in r[2] + 1 .. MaxGen : exec[<<r[1], g>>].state = "absent"
  <2>. SUFFICES ASSUME NEW g \in r[2] + 1 .. MaxGen PROVE exec[<<r[1], g>>].state = "absent"
    OBVIOUS
  <2>1. <<r[1], g>> \in Rows
    BY <1>1, BoundAssumption DEF Rows
  <2>2. exec'[<<r[1], g>>].state = "absent"
    BY DEF LatestOf
  <2>3. QED
    BY <2>1, <2>2, SettlesKeepsPresence DEF Present
<1>3. exec[r].state # "absent"
  BY <1>1, SettlesKeepsPresence DEF Present
<1>4. QED
  BY <1>2, <1>3 DEF LatestOf

LEMMA SettlesKeepsOrder ==
  ASSUME IInv, TurnInv, Settles
  PROVE  Unclaimed' /\ NewestRuns' /\ DoneIsLast' /\ SingleOwner'
<1>1. Unclaimed'
  <2>. SUFFICES ASSUME NEW r \in Rows, Present(r)' PROVE turn'[r[1]] # "none"
    BY DEF Unclaimed
  <2>1. r[1] \in Turns /\ turn[r[1]] # "none"
    BY SettlesKeepsPresence, RowParts DEF TurnInv, Unclaimed
  <2>2. QED
    BY <2>1 DEF Settles
<1>2. NewestRuns'
  BY SettlesKeepsPresence DEF TurnInv, NewestRuns
<1>3. DoneIsLast'
  <2>. SUFFICES ASSUME NEW r \in Rows, NEW q \in Rows, exec'[r].state = "completed",
                       exec'[q].state = "running", r[1] = q[1]
                PROVE  FALSE
    BY DEF DoneIsLast
  <2>1. exec[q].state = "running" /\ Conv(r) = Conv(q) /\ r # q
    BY SettlesKeepsPresence DEF Conv
  <2>2. exec[r].state \in {"completed", "running"}
    BY DEF Settles, RowKeeps
  <2>3. exec[r].state # "completed"
    BY <2>1 DEF TurnInv, DoneIsLast
  <2>4. QED
    BY <2>1, <2>2, <2>3 DEF TurnInv, SingleOwner
<1>4. SingleOwner'
  BY SettlesKeepsPresence DEF TurnInv, SingleOwner, Conv
<1>5. QED
  BY <1>1, <1>2, <1>3, <1>4

LEMMA SettlesTurnAgrees ==
  ASSUME IInv, TurnInv, Settles
  PROVE  TurnAgrees'
<1>. DEFINE Agrees(t, s) == /\ s \in {"completed", "failed", "interrupted"} => t = s
                            /\ s = "waiting_confirmation" => t = "started"
<1>. SUFFICES ASSUME NEW r \in Rows, LatestOf(r[1], r)'
              PROVE  Agrees(turn'[r[1]], exec'[r].state)
  BY DEF TurnAgrees
<1>1. LatestOf(r[1], r) /\ r[1] \in Turns
  BY SettlesKeepsLatest, RowParts
<1>2. CASE exec[r].state = "running"
  <2>1. exec'[r].state \in Told => turn'[r[1]] = TurnStateOf(exec'[r].state)
    BY <1>2 DEF Settles
  <2>2. QED
    BY <2>1 DEF Told, TurnStateOf
<1>3. CASE exec[r].state # "running"
  <2>1. exec'[r].state = exec[r].state
    BY <1>3 DEF Settles, RowKeeps
  <2>2. turn'[r[1]] = turn[r[1]]
    <3>. SUFFICES ASSUME NEW q \in Rows, q[1] = r[1], exec[q].state = "running" PROVE FALSE
      BY <1>1 DEF Settles
    <3>1. Present(q) /\ Present(r)
      BY <1>1, LatestPresent DEF Present
    <3>2. q[2] <= r[2] /\ r[2] <= q[2]
      BY <1>1, <3>1, LatestMeans DEF TurnInv, NewestRuns
    <3>3. q[1] = r[1] /\ q[2] = r[2]
      BY <3>2, RowParts
    <3>4. q = r
      BY <3>3, RowParts
    <3>5. QED
      BY <1>3, <3>4
  <2>3. Agrees(turn[r[1]], exec[r].state)
    BY <1>1 DEF TurnInv, TurnAgrees
  <2>4. QED
    BY <2>1, <2>2, <2>3
<1>4. QED
  BY <1>2, <1>3

LEMMA QuietKeepsPending ==
  ASSUME IInv, TurnInv, Settles, Quiet
  PROVE  NoOrphanPending'
<1>. SUFFICES ASSUME NEW r \in Rows, exec'[r].state = "completed"
              PROVE  ~Waits(r)
  BY DEF NoOrphanPending, Waits, Quiet, Conv
<1>1. CASE exec[r].state = "running"
  BY <1>1 DEF Settles
<1>2. CASE exec[r].state # "running"
  <2>1. exec[r].state = "completed"
    BY <1>2 DEF Settles, RowKeeps
  <2>2. QED
    BY <2>1 DEF TurnInv, NoOrphanPending, Waits
<1>3. QED
  BY <1>1, <1>2

\* A worker's write proposes an operation for the turn that runs, or settles one.
LEMMA CommitKeepsPending ==
  ASSUME IInv, TurnInv, NEW k \in Controls, NEW kind \in Kinds, Commit(k, kind)
  PROVE  NoOrphanPending'
<1>. DEFINE own == ctl[k].lease
<1>1. Settles /\ own \in Rows
  BY CommitSettles
<1>. SUFFICES ASSUME NEW r \in Rows, exec'[r].state = "completed",
                     pending'[Conv(r)] # None, op'[pending'[Conv(r)]].turn = r[1]
              PROVE  FALSE
  BY DEF NoOrphanPending, Conv
<1>2. exec[r].state = "completed"
  <2>1. CASE r = own
    <3>1. exec'[r].state = Recovered(k, kind)
      <4>1. exec' = [exec EXCEPT ![own] = InState(own, Recovered(k, kind))]
        BY DEF Commit
      <4>2. Recovered(k, kind) \in RowStates \cup {"absent"}
        BY <1>1, Typed DEF Recovered, RowStates, ExecRecord
      <4>3. QED
        BY <1>1, <2>1, <4>1, <4>2, Typed, InStateKeepsSeq
    <3>2. QED
      BY <2>1, <3>1 DEF Recovered
  <2>2. CASE r # own
    BY <2>2, Typed DEF Commit
  <2>3. QED
    BY <2>1, <2>2
<1>3. ~Waits(r)
  BY <1>2 DEF TurnInv, NoOrphanPending, Waits
<1>4. CASE UNCHANGED <<pending, op>>
  BY <1>3, <1>4 DEF Waits
<1>5. CASE kind \in {"plain", "fenced"}
  <2>1. exec[own].state = "running"
    BY <1>5 DEF Commit, FencePasses, Active
  <2>2. r[1] # own[1]
    BY <1>1, <1>2, <2>1 DEF TurnInv, DoneIsLast
  <2>3. CASE \E o \in Operations :
               /\ op' = [op EXCEPT ![o] = [status |-> "proposed", turn |-> own[1]]]
               /\ pending' = [pending EXCEPT ![Conv(own)] = o]
    <3>1. PICK o \in Operations :
               /\ op' = [op EXCEPT ![o] = [status |-> "proposed", turn |-> own[1]]]
               /\ pending' = [pending EXCEPT ![Conv(own)] = o]
      BY <2>3
    <3>2. Conv(own) \in Conversations /\ Conv(r) \in Conversations
      BY <1>1, RowParts
    <3>3. pending \in [Conversations -> Operations \cup {None}]
      BY DEF IInv, TypeOK
    <3>4. pending'[Conv(r)] # o
      BY <2>2, <3>1, Typed
    <3>5. pending'[Conv(r)] = pending[Conv(r)]
      BY <3>1, <3>2, <3>3, <3>4
    <3>6. op'[pending[Conv(r)]] = op[pending[Conv(r)]]
      BY <3>1, <3>2, <3>3, <3>4, <3>5, Typed
    <3>7. QED
      BY <1>3, <3>5, <3>6 DEF Waits
  <2>4. CASE /\ ctl[k].op # None
             /\ op' = [op EXCEPT ![ctl[k].op].status = "settled"]
             /\ pending' = [pending EXCEPT ![Conv(own)] = None]
    <3>1. pending \in [Conversations -> Operations \cup {None}] /\ Conv(r) \in Conversations
      BY RowParts DEF IInv, TypeOK
    <3>2. pending'[Conv(r)] = pending[Conv(r)] /\ pending[Conv(r)] \in Operations
      BY <2>4, <3>1
    <3>3. \A o \in Operations : op'[o].turn = op[o].turn
      BY <2>4, Typed DEF OpRecord
    <3>4. QED
      BY <1>3, <3>2, <3>3 DEF Waits
  <2>5. QED
    BY <1>4, <2>3, <2>4 DEF Commit, OperationEffect
<1>6. QED
  BY <1>4, <1>5 DEF Commit, OperationEffect


\* The rows after a claim.
LEMMA ClaimRows ==
  ASSUME IInv, NEW r \in Rows, NEW e \in 0..MaxEpoch, Claims(r, e)
  PROVE  /\ ~Present(r) /\ exec'[r].state = "running"
         /\ \A q \in Rows : q # r =>
              /\ exec'[q].seq = exec[q].seq
              /\ \/ exec'[q].state = exec[q].state
                 \/ /\ exec[q].state = "running" /\ exec'[q].state = "result_unknown"
                    /\ Conv(q) = Conv(r)
         /\ turn'[r[1]] = "started" /\ \A t \in Turns : t # r[1] => turn'[t] = turn[t]
<1>1. PICK s \in 1..MaxSeq :
        exec' = [q \in Rows |->
            IF q = r THEN [state |-> "running", seq |-> s, age |-> 0, epoch |-> e]
                     ELSE Release(Conv(r), q)]
  BY DEF Claims, Claim
<1>2. \A q \in Rows : q # r => exec'[q] = Release(Conv(r), q)
  BY <1>1
<1>3. exec'[r].state = "running"
  BY <1>1
<1>4. ~Present(r)
  BY RowParts DEF Claims
<1>5. r[1] \in Turns /\ turn' = [turn EXCEPT ![r[1]] = "started"]
  BY RowParts DEF Claims, Claim
<1>6. ASSUME NEW q \in Rows, q # r
      PROVE  /\ exec'[q].seq = exec[q].seq
             /\ \/ exec'[q].state = exec[q].state
                \/ /\ exec[q].state = "running" /\ exec'[q].state = "result_unknown"
                   /\ Conv(q) = Conv(r)
  <2>1. CASE Conv(q) = Conv(r) /\ exec[q].state = "running" /\ ~Fresh(q)
    <3>1. exec'[q] = InState(q, "result_unknown")
      BY <1>2, <1>6, <2>1 DEF Release
    <3>2. QED
      BY <2>1, <3>1, InStateKeepsSeq DEF RowStates
  <2>2. CASE ~(Conv(q) = Conv(r) /\ exec[q].state = "running" /\ ~Fresh(q))
    BY <1>2, <1>6, <2>2 DEF Release
  <2>3. QED
    BY <2>1, <2>2
<1>7. turn'[r[1]] = "started" /\ \A t \in Turns : t # r[1] => turn'[t] = turn[t]
  BY <1>5, Typed
<1>8. QED
  BY <1>3, <1>4, <1>6, <1>7

\* The conversation of a claimed row has no other running row afterwards.
LEMMA ClaimEndsOthers ==
  ASSUME IInv, TurnInv, NEW r \in Rows, NEW e \in 0..MaxEpoch, Claims(r, e),
         NEW q \in Rows, q # r, exec'[q].state = "running"
  PROVE  exec[q].state = "running" /\ Conv(q) # Conv(r) /\ q[1] # r[1]
  BY ClaimIsAlone DEF Claims, TurnInv, Conv

\* Nothing in the turn of a claimed row had completed.
LEMMA ClaimAfterNoDone ==
  ASSUME IInv, TurnInv, NEW r \in Rows, NEW e \in 0..MaxEpoch, Claims(r, e),
         NEW q \in Rows, q[1] = r[1]
  PROVE  exec[q].state # "completed"
<1>1. CASE turn[r[1]] = "none"
  BY <1>1 DEF TurnInv, Unclaimed, Present
<1>2. CASE \E o \in Operations : ConfirmRow(o, r) /\ turn[r[1]] # "none"
  <2>1. PICK o \in Operations : ConfirmRow(o, r) /\ turn[r[1]] # "none"
    BY <1>2
  <2>2. pending[Conv(q)] = o /\ op[o].turn = q[1] /\ o # None
    BY <2>1, NoneAssumption DEF ConfirmRow, CarriesOperation, Conv
  <2>3. QED
    BY <2>2 DEF TurnInv, NoOrphanPending
<1>3. QED
  BY <1>1, <1>2 DEF Claims

LEMMA ClaimKeepsTurnInv ==
  ASSUME IInv, TurnInv, NEW r \in Rows, NEW e \in 0..MaxEpoch, Claims(r, e)
  PROVE  TurnInv'
<1>. USE RowParts
<1>1. SingleOwner'
  BY ClaimEndsOthers DEF SingleOwner, TurnInv, Conv
<1>2. Unclaimed'
  BY ClaimRows DEF TurnInv, Unclaimed, Present
<1>3. NewestRuns'
  <2>. SUFFICES ASSUME NEW a \in Rows, NEW q \in Rows, exec'[a].state = "running",
                       exec'[q].state # "absent", q[1] = a[1]
                PROVE  q[2] <= a[2]
    BY DEF NewestRuns, Present
  <2>1. CASE a = r
    <3>1. CASE q = r
      BY <2>1, <3>1
    <3>2. CASE q # r
      <4>1. Present(q)
        BY <3>2, ClaimRows DEF Present
      <4>2. ~(q[2] >= r[2])
        BY <2>1, <4>1 DEF Claims
      <4>3. QED
        BY <2>1, <4>2
    <3>3. QED
      BY <3>1, <3>2
  <2>2. CASE a # r
    <3>1. exec[a].state = "running" /\ a[1] # r[1]
      BY <2>2, ClaimEndsOthers
    <3>2. Present(q)
      BY <3>1, ClaimRows DEF Present
    <3>3. QED
      BY <3>1, <3>2 DEF TurnInv, NewestRuns
  <2>3. QED
    BY <2>1, <2>2
<1>4. DoneIsLast'
  <2>. SUFFICES ASSUME NEW a \in Rows, NEW q \in Rows, exec'[a].state = "completed",
                       exec'[q].state = "running", a[1] = q[1]
                PROVE  FALSE
    BY DEF DoneIsLast
  <2>1. exec[a].state = "completed" /\ a # r
    BY ClaimRows
  <2>2. CASE q = r
    BY <2>1, <2>2, ClaimAfterNoDone
  <2>3. CASE q # r
    BY <2>1, <2>3, ClaimEndsOthers DEF TurnInv, DoneIsLast
  <2>4. QED
    BY <2>2, <2>3
<1>5. TurnAgrees'
  <2>. SUFFICES ASSUME NEW a \in Rows, LatestOf(a[1], a)'
                PROVE  /\ exec'[a].state \in {"completed", "failed", "interrupted"} =>
                            turn'[a[1]] = exec'[a].state
                       /\ exec'[a].state = "waiting_confirmation" => turn'[a[1]] = "started"
    BY DEF TurnAgrees
  <2>1. CASE a[1] = r[1]
    <3>1. CASE a = r
      BY <3>1, ClaimRows
    <3>2. CASE a # r
      <4>1. exec'[r].state # "absent" /\ exec'[a].state # "absent"
        BY ClaimRows DEF LatestOf
      <4>2. ~(r[2] > a[2])
        <5>1. r[2] > a[2] => r[2] \in a[2] + 1 .. MaxGen
          BY BoundAssumption
        <5>2. r[2] \in a[2] + 1 .. MaxGen => exec'[<<a[1], r[2]>>].state = "absent"
          BY DEF LatestOf
        <5>3. r = <<a[1], r[2]>>
          BY <2>1
        <5>4. QED
          BY <4>1, <5>1, <5>2, <5>3, Zenon
      <4>3. Present(a)
        BY <3>2, <4>1, ClaimRows DEF Present
      <4>4. ~(a[2] >= r[2])
        BY <2>1, <4>3 DEF Claims
      <4>5. QED
        BY <4>2, <4>4
    <3>3. QED
      BY <3>1, <3>2
  <2>2. CASE a[1] # r[1]
    <3>1. LatestOf(a[1], a)
      <4>1. exec[a].state # "absent"
        BY <2>2, ClaimRows DEF LatestOf
      <4>2. ASSUME NEW g \in a[2] + 1 .. MaxGen PROVE exec[<<a[1], g>>].state = "absent"
        <5>1. <<a[1], g>> \in Rows /\ <<a[1], g>> # r
          BY <2>2, BoundAssumption DEF Rows
        <5>2. exec'[<<a[1], g>>].state = "absent"
          BY DEF LatestOf
        <5>3. QED
          BY <5>1, <5>2, ClaimRows
      <4>3. QED
        BY <4>1, <4>2 DEF LatestOf
    <3>2. turn'[a[1]] = turn[a[1]] /\ a # r
      BY <2>2, ClaimRows
    <3>3. exec'[a].state \in {exec[a].state, "result_unknown"}
      BY <3>2, ClaimRows
    <3>4. QED
      BY <3>1, <3>2, <3>3 DEF TurnInv, TurnAgrees
  <2>3. QED
    BY <2>1, <2>2
<1>6. NoOrphanPending'
  <2>. SUFFICES ASSUME NEW a \in Rows, exec'[a].state = "completed",
                       pending'[Conv(a)] # None, op'[pending'[Conv(a)]].turn = a[1]
                PROVE  FALSE
    BY DEF NoOrphanPending, Conv
  <2>1. exec[a].state = "completed"
    BY ClaimRows
  <2>2. a[1] # r[1]
    BY <2>1, ClaimAfterNoDone
  <2>3. pending'[Conv(a)] = pending[Conv(a)] /\ pending[Conv(a)] \in Operations
    BY DEF Claims, IInv, TypeOK
  <2>4. op'[pending[Conv(a)]].turn \in {op[pending[Conv(a)]].turn, r[1]}
    BY <2>3, Typed DEF Claims, ConfirmRow, OpRecord
  <2>5. QED
    BY <2>1, <2>2, <2>3, <2>4 DEF TurnInv, NoOrphanPending
<1>7. QED
  BY <1>1, <1>2, <1>3, <1>4, <1>5, <1>6 DEF TurnInv

LEMMA TurnInvStep ==
  ASSUME IInv, Beating, TurnInv, [Next]_vars
  PROVE  TurnInv'
<1>1. CASE Settles /\ Quiet
  BY <1>1, SettlesKeepsOrder, SettlesTurnAgrees, QuietKeepsPending DEF TurnInv
<1>2. CASE \E r \in Rows, e \in 0..MaxEpoch : Claims(r, e)
  BY <1>2, ClaimKeepsTurnInv
<1>3. CASE \E k \in Controls, kind \in Kinds : Commit(k, kind)
  BY <1>3, CommitSettles, SettlesKeepsOrder, SettlesTurnAgrees, CommitKeepsPending DEF TurnInv
<1>4. QED
  BY <1>1, <1>2, <1>3, WhatHappens

LEMMA TurnInvStarts == Init => TurnInv /\ Beating
<1>. SUFFICES ASSUME Init PROVE TurnInv /\ Beating
  OBVIOUS
<1>1. \A r \in Rows : exec[r].state = "absent"
  BY DEF Init
<1>2. TurnAgrees
  BY <1>1, LatestPresent DEF TurnAgrees, Present
<1>3. Beating
  BY DEF Init, Beating, FreeControl
<1>4. QED
  BY <1>1, <1>2, <1>3 DEF TurnInv, SingleOwner, Unclaimed, NewestRuns, DoneIsLast,
     NoOrphanPending, Present

\* The turn's own row and its executions stay in step in every reachable state.
THEOREM TurnInvariance == Spec => [](Beating /\ TurnInv)
<1>1. IInv /\ Beating /\ TurnInv /\ [Next]_vars => Beating' /\ TurnInv'
  BY BeatingStep, TurnInvStep
<1>2. QED
  BY <1>1, TurnInvStarts, Invariance, PTL DEF Spec

\* A turn whose newest execution ended with a definite result says the same
\* (_finish_in_session, _commit_fence), however many generations it went through.
THEOREM TurnsAgree == Spec => []TurnAgrees
<1>1. TurnInv => TurnAgrees
  BY DEF TurnInv
<1>2. QED
  BY <1>1, TurnInvariance, PTL

\* No execution is recorded as completed while an operation of its turn waits
\* for the user's confirmation (_finish_in_session against propose and confirm).
THEOREM NoPendingIsOrphaned == Spec => []NoOrphanPending
<1>1. TurnInv => NoOrphanPending
  BY DEF TurnInv
<1>2. QED
  BY <1>1, TurnInvariance, PTL

-----------------------------------------------------------------------------
(* The order of the executions of a conversation.                            *)

LEMMA SettlesKeepsRowsOf ==
  ASSUME IInv, Settles
  PROVE  /\ \A c : RowsOf(c)' = RowsOf(c)
         /\ \A r \in Rows : IsLatest(r)' <=> IsLatest(r)
<1>1. \A q \in Rows : (exec'[q].state # "absent" <=> exec[q].state # "absent")
                      /\ exec'[q].seq = exec[q].seq
  BY SettlesKeepsPresence DEF Present
<1>2. \A c : RowsOf(c)' = RowsOf(c)
  BY <1>1 DEF RowsOf, Conv
<1>3. \A c : RowsOf(c) \subseteq Rows
  BY DEF RowsOf
<1>4. QED
  BY <1>1, <1>2, <1>3 DEF IsLatest, Conv

LEMMA SettlesKeepsSeqInv ==
  ASSUME IInv, SeqInv, Settles
  PROVE  SeqInv'
<1>1. OneSeq'
  BY SettlesKeepsPresence DEF SeqInv, OneSeq, Conv
<1>2. LatestRuns'
  BY SettlesKeepsPresence, SettlesKeepsRowsOf DEF SeqInv, LatestRuns
<1>3. HasLatest'
  <2>. SUFFICES ASSUME NEW c \in Conversations, RowsOf(c)' # {}
                PROVE  \E r \in RowsOf(c)' : IsLatest(r)'
    BY DEF HasLatest
  <2>1. RowsOf(c)' = RowsOf(c)
    BY SettlesKeepsRowsOf
  <2>2. PICK r \in RowsOf(c) : IsLatest(r)
    BY <2>1 DEF SeqInv, HasLatest
  <2>3. r \in Rows
    BY DEF RowsOf
  <2>4. QED
    BY <2>1, <2>2, <2>3, SettlesKeepsRowsOf
<1>4. QED
  BY <1>1, <1>2, <1>3 DEF SeqInv

\* A claimed row comes after every other row of its conversation.
LEMMA ClaimIsNewest ==
  ASSUME IInv, NEW r \in Rows, NEW e \in 0..MaxEpoch, Claims(r, e)
  PROVE  /\ exec'[r].seq \in Int
         /\ \A q \in RowsOf(Conv(r)) : q # r /\ exec[q].seq \in Int /\ exec[q].seq < exec'[r].seq
         /\ RowsOf(Conv(r))' = RowsOf(Conv(r)) \cup {r}
         /\ \A c : c # Conv(r) => RowsOf(c)' = RowsOf(c)
<1>1. PICK s \in 1..MaxSeq :
        /\ NextSeq(Conv(r), s)
        /\ exec' = [q \in Rows |->
             IF q = r THEN [state |-> "running", seq |-> s, age |-> 0, epoch |-> e]
                      ELSE Release(Conv(r), q)]
  BY DEF Claims, Claim
<1>2. exec'[r].seq = s /\ s \in Int
  BY <1>1, BoundAssumption
<1>3. \A q \in Rows : exec[q].seq \in Int
  <2>1. 0..MaxSeq \subseteq Int
    BY BoundAssumption
  <2>2. QED
    BY <2>1, Typed DEF ExecRecord
<1>4. \A q \in RowsOf(Conv(r)) : q \in Rows /\ q # r /\ exec[q].seq < s
  BY <1>1, ClaimRows DEF RowsOf, NextSeq, Present
<1>5. \A q \in Rows : exec'[q].state # "absent" <=> q = r \/ exec[q].state # "absent"
  BY ClaimRows
<1>6. /\ RowsOf(Conv(r))' = RowsOf(Conv(r)) \cup {r}
      /\ \A c : c # Conv(r) => RowsOf(c)' = RowsOf(c)
  BY <1>5 DEF RowsOf, Conv
<1>7. QED
  BY <1>2, <1>3, <1>4, <1>6

LEMMA ClaimBecomesLatest ==
  ASSUME IInv, NEW r \in Rows, NEW e \in 0..MaxEpoch, Claims(r, e)
  PROVE  /\ r \in RowsOf(Conv(r))' /\ IsLatest(r)'
         /\ \A q \in Rows : Conv(q) # Conv(r) => (IsLatest(q)' <=> IsLatest(q))
<1>1. r \in RowsOf(Conv(r))'
  BY ClaimIsNewest
<1>2. IsLatest(r)'
  <2>. SUFFICES ASSUME NEW q \in RowsOf(Conv(r))' PROVE exec'[q].seq <= exec'[r].seq
    BY DEF IsLatest, Conv
  <2>1. CASE q = r
    BY <2>1, ClaimIsNewest
  <2>2. CASE q # r
    <3>1. q \in RowsOf(Conv(r)) /\ q \in Rows
      BY <2>2, ClaimIsNewest DEF RowsOf
    <3>2. exec'[q].seq = exec[q].seq
      BY <2>2, <3>1, ClaimRows
    <3>3. QED
      BY <3>1, <3>2, ClaimIsNewest
  <2>3. QED
    BY <2>1, <2>2
<1>3. ASSUME NEW q \in Rows, Conv(q) # Conv(r) PROVE IsLatest(q)' <=> IsLatest(q)
  <2>1. RowsOf(Conv(q))' = RowsOf(Conv(q)) /\ q # r
    BY <1>3, ClaimIsNewest
  <2>2. \A p \in RowsOf(Conv(q)) : p \in Rows /\ p # r
    BY <1>3 DEF RowsOf
  <2>3. exec'[q].seq = exec[q].seq /\ \A p \in RowsOf(Conv(q)) : exec'[p].seq = exec[p].seq
    BY <2>1, <2>2, ClaimRows
  <2>4. QED
    BY <2>1, <2>3 DEF IsLatest, Conv
<1>4. QED
  BY <1>1, <1>2, <1>3

LEMMA ClaimKeepsSeqInv ==
  ASSUME IInv, TurnInv, SeqInv, NEW r \in Rows, NEW e \in 0..MaxEpoch, Claims(r, e)
  PROVE  SeqInv'
<1>1. OneSeq'
  <2>. SUFFICES ASSUME NEW a \in Rows, NEW b \in Rows, exec'[a].state # "absent",
                       exec'[b].state # "absent", Conv(a) = Conv(b),
                       exec'[a].seq = exec'[b].seq
                PROVE  a = b
    BY DEF OneSeq, Present, Conv
  <2>1. ASSUME NEW q \in Rows, q # r, Conv(q) = Conv(r), exec'[q].state # "absent"
        PROVE  exec'[q].seq # exec'[r].seq
    <3>1. q \in RowsOf(Conv(r)) /\ exec'[q].seq = exec[q].seq
      BY <2>1, ClaimRows DEF RowsOf
    <3>2. exec[q].seq \in Int /\ exec[q].seq < exec'[r].seq /\ exec'[r].seq \in Int
      BY <3>1, ClaimIsNewest
    <3>3. QED
      BY <3>1, <3>2
  <2>2. CASE a = r \/ b = r
    BY <2>1, <2>2
  <2>3. CASE a # r /\ b # r
    <3>1. /\ Present(a) /\ Present(b)
          /\ exec[a].seq = exec[b].seq
      BY <2>3, ClaimRows DEF Present
    <3>2. QED
      BY <3>1 DEF SeqInv, OneSeq
  <2>4. QED
    BY <2>2, <2>3
<1>2. LatestRuns'
  <2>. SUFFICES ASSUME NEW q \in Rows, exec'[q].state = "running" PROVE IsLatest(q)'
    BY DEF LatestRuns
  <2>1. CASE q = r
    BY <2>1, ClaimBecomesLatest
  <2>2. CASE q # r
    BY <2>2, ClaimEndsOthers, ClaimBecomesLatest DEF SeqInv, LatestRuns
  <2>3. QED
    BY <2>1, <2>2
<1>3. HasLatest'
  <2>. SUFFICES ASSUME NEW c \in Conversations, RowsOf(c)' # {}
                PROVE  \E q \in RowsOf(c)' : IsLatest(q)'
    BY DEF HasLatest
  <2>1. CASE c = Conv(r)
    BY <2>1, ClaimBecomesLatest
  <2>2. CASE c # Conv(r)
    <3>1. RowsOf(c)' = RowsOf(c)
      BY <2>2, ClaimIsNewest
    <3>2. PICK q \in RowsOf(c) : IsLatest(q)
      BY <3>1 DEF SeqInv, HasLatest
    <3>3. q \in Rows /\ Conv(q) = c
      BY DEF RowsOf
    <3>4. QED
      BY <2>2, <3>1, <3>2, <3>3, ClaimBecomesLatest
  <2>3. QED
    BY <2>1, <2>2
<1>4. QED
  BY <1>1, <1>2, <1>3 DEF SeqInv

LEMMA SeqInvStep ==
  ASSUME IInv, Beating, TurnInv, SeqInv, [Next]_vars
  PROVE  SeqInv'
  BY WhatHappens, SettlesKeepsSeqInv, ClaimKeepsSeqInv, CommitSettles

LEMMA SeqInvStarts == Init => SeqInv
  BY DEF Init, SeqInv, OneSeq, LatestRuns, HasLatest, Present, RowsOf

-----------------------------------------------------------------------------
(* The lease implements TurnOwnership.                                       *)

\* The owner and the last owner of a conversation, before and after a step.
LEMMA OwnerIs ==
  ASSUME SingleOwner, NEW r \in Rows, exec[r].state = "running"
  PROVE  OwnerOf(Conv(r)) = r
<1>1. r \in RowsOf(Conv(r))
  BY DEF RowsOf
<1>2. \A q \in RowsOf(Conv(r)) : exec[q].state = "running" => q = r
  BY DEF RowsOf, SingleOwner
<1>3. QED
  BY <1>1, <1>2 DEF OwnerOf

LEMMA OwnerIsNext ==
  ASSUME SingleOwner', NEW r \in Rows, exec'[r].state = "running"
  PROVE  OwnerOf(Conv(r))' = r
<1>1. r \in RowsOf(Conv(r))'
  BY DEF RowsOf, Conv
<1>2. \A q \in RowsOf(Conv(r))' : exec'[q].state = "running" => q = r
  BY DEF RowsOf, SingleOwner, Conv
<1>3. Conv(r)' = Conv(r)
  BY DEF Conv
<1>4. QED
  BY <1>1, <1>2, <1>3 DEF OwnerOf

LEMMA NoOwner ==
  ASSUME NEW c, \A r \in Rows : Conv(r) = c => exec[r].state # "running"
  PROVE  OwnerOf(c) = None
  BY DEF OwnerOf, RowsOf

LEMMA NoOwnerNext ==
  ASSUME NEW c, \A r \in Rows : Conv(r) = c => exec'[r].state # "running"
  PROVE  OwnerOf(c)' = None
  BY DEF OwnerOf, RowsOf, Conv

LEMMA LastIs ==
  ASSUME IInv, OneSeq, NEW c, NEW r \in RowsOf(c), IsLatest(r)
  PROVE  LastOf(c) = r
<1>1. \A q \in RowsOf(c) : q \in Rows /\ Conv(q) = c /\ Present(q) /\ exec[q].seq \in Int
  <2>1. 0..MaxSeq \subseteq Int
    BY BoundAssumption
  <2>2. QED
    BY <2>1, Typed DEF RowsOf, Present, ExecRecord
<1>2. \A q \in RowsOf(c) : IsLatest(q) => exec[q].seq = exec[r].seq
  BY <1>1 DEF IsLatest
<1>3. \A q \in RowsOf(c) : IsLatest(q) => q = r
  BY <1>1, <1>2 DEF OneSeq
<1>4. QED
  BY <1>3 DEF LastOf

LEMMA LastIsNext ==
  ASSUME IInv', OneSeq', NEW r \in Rows, r \in RowsOf(Conv(r))', IsLatest(r)'
  PROVE  LastOf(Conv(r))' = r
<1>. DEFINE c == Conv(r)
<1>1. \A q \in RowsOf(c)' : /\ q \in Rows /\ Conv(q) = c
                            /\ exec'[q].state # "absent" /\ exec'[q].seq \in Int
  <2>1. 0..MaxSeq \subseteq Int
    BY BoundAssumption
  <2>2. exec' \in [Rows -> ExecRecord]
    BY DEF IInv, TypeOK, ExecRecord
  <2>3. QED
    BY <2>1, <2>2 DEF RowsOf, Conv, ExecRecord
<1>2. \A q \in RowsOf(c)' : IsLatest(q)' => exec'[q].seq = exec'[r].seq
  BY <1>1 DEF IsLatest, Conv
<1>3. \A q \in RowsOf(c)' : IsLatest(q)' => q = r
  BY <1>1, <1>2 DEF OneSeq, Present, Conv
<1>4. Conv(r)' = Conv(r)
  BY DEF Conv
<1>5. QED
  BY <1>3, <1>4 DEF LastOf

Inv == IInv /\ Beating /\ TurnInv /\ SeqInv

LEMMA InvStep ==
  ASSUME Inv, [Next]_vars
  PROVE  Inv'
  BY Steps, BeatingStep, TurnInvStep, SeqInvStep DEF Inv

\* The last owner stays while rows settle.
LEMMA SettlesKeepsLast ==
  ASSUME Inv, Inv', Settles, NEW c \in Conversations
  PROVE  LastOf(c)' = LastOf(c)
<1>1. RowsOf(c)' = RowsOf(c)
  BY SettlesKeepsRowsOf DEF Inv
<1>2. CASE RowsOf(c) = {}
  BY <1>1, <1>2 DEF LastOf
<1>3. CASE RowsOf(c) # {}
  <2>1. PICK r \in RowsOf(c) : IsLatest(r)
    BY <1>3 DEF Inv, SeqInv, HasLatest
  <2>2. r \in Rows /\ Conv(r) = c
    BY DEF RowsOf
  <2>3. IsLatest(r)' /\ r \in RowsOf(Conv(r))'
    BY <1>1, <2>1, <2>2, SettlesKeepsRowsOf DEF Inv
  <2>4. LastOf(c) = r
    BY <2>1, LastIs DEF Inv, SeqInv
  <2>5. LastOf(Conv(r))' = r
    BY <2>2, <2>3, LastIsNext DEF Inv, SeqInv
  <2>6. QED
    BY <2>2, <2>4, <2>5
<1>4. QED
  BY <1>2, <1>3

\* The conversations whose owner ends in a step.
Yields(c) == \E r \in Rows : Conv(r) = c /\ exec[r].state = "running" /\ exec'[r].state # "running"

LEMMA OwnerAfterSettling ==
  ASSUME Inv, Inv', Settles, NEW c \in Conversations
  PROVE  /\ Yields(c) => OwnerOf(c) # None
         /\ OwnerOf(c)' = IF Yields(c) THEN None ELSE OwnerOf(c)
<1>. USE DEF Inv, TurnInv
<1>1. CASE Yields(c)
  <2>1. PICK r \in Rows : Conv(r) = c /\ exec[r].state = "running" /\ exec'[r].state # "running"
    BY <1>1 DEF Yields
  <2>2. OwnerOf(c) = r /\ r # None
    BY <2>1, OwnerIs, NoneAssumption
  <2>3. \A q \in Rows : Conv(q) = c => exec'[q].state # "running"
    BY <2>1, SettlesKeepsPresence DEF SingleOwner
  <2>4. OwnerOf(c)' = None
    BY <2>3, NoOwnerNext
  <2>5. QED
    BY <1>1, <2>2, <2>4
<1>2. CASE ~Yields(c) /\ \E r \in Rows : Conv(r) = c /\ exec[r].state = "running"
  <2>1. PICK r \in Rows : Conv(r) = c /\ exec[r].state = "running"
    BY <1>2
  <2>2. exec'[r].state = "running"
    BY <1>2, <2>1 DEF Yields
  <2>3. OwnerOf(c) = r
    BY <2>1, OwnerIs
  <2>4. OwnerOf(Conv(r))' = r
    BY <2>2, OwnerIsNext
  <2>5. QED
    BY <1>2, <2>1, <2>3, <2>4
<1>3. CASE \A r \in Rows : Conv(r) = c => exec[r].state # "running"
  <2>1. \A r \in Rows : Conv(r) = c => exec'[r].state # "running"
    BY <1>3, SettlesKeepsPresence
  <2>2. OwnerOf(c) = None /\ OwnerOf(c)' = None
    BY <1>3, <2>1, NoOwner, NoOwnerNext
  <2>3. QED
    BY <1>3, <2>2 DEF Yields
<1>4. QED
  BY <1>1, <1>2, <1>3

\* The rows that ended are the owners of the conversations that yield.
LEMMA EndedAfterSettling ==
  ASSUME Inv, Inv', Settles
  PROVE  {r \in Rows : Ended(r)'} =
           {r \in Rows : Ended(r)} \cup {OwnerOf(c) : c \in {d \in Conversations : Yields(d)}}
<1>. USE DEF Inv, TurnInv
<1>1. ASSUME NEW r \in Rows
      PROVE  Ended(r)' <=> (Ended(r) \/ (exec[r].state = "running" /\ exec'[r].state # "running"))
  BY DEF Ended, Settles, RowKeeps, Ending
<1>2. ASSUME NEW r \in Rows, exec[r].state = "running", exec'[r].state # "running"
      PROVE  Conv(r) \in Conversations /\ Yields(Conv(r)) /\ OwnerOf(Conv(r)) = r
  BY <1>2, OwnerIs, RowParts DEF Yields
<1>3. ASSUME NEW c \in Conversations, Yields(c)
      PROVE  /\ OwnerOf(c) \in Rows /\ exec[OwnerOf(c)].state = "running"
             /\ exec'[OwnerOf(c)].state # "running"
  <2>1. PICK r \in Rows : Conv(r) = c /\ exec[r].state = "running" /\ exec'[r].state # "running"
    BY <1>3 DEF Yields
  <2>2. QED
    BY <2>1, OwnerIs
<1>4. QED
  BY <1>1, <1>2, <1>3


LEMMA SettlingYields ==
  ASSUME Inv, Inv', Settles, UNCHANGED lastWriter
  PROVE  Ownership!Yield({c \in Conversations : Yields(c)})
<1>. DEFINE C == {c \in Conversations : Yields(c)}
<1>1. \A c \in C : OwnerOf(c) # None
  BY OwnerAfterSettling
<1>2. \A c \in Conversations : OwnerOf(c)' = IF c \in C THEN None ELSE OwnerOf(c)
  BY OwnerAfterSettling
<1>3. {r \in Rows : Ended(r)'} = {r \in Rows : Ended(r)} \cup {OwnerOf(c) : c \in C}
  BY EndedAfterSettling
<1>4. \A c \in Conversations : LastOf(c)' = LastOf(c)
  BY SettlesKeepsLast
<1>5. C \subseteq Conversations
  OBVIOUS
<1>. HIDE DEF C
<1>6. Ownership!Yield(C)
  <2>1. \A c \in C : [d \in Conversations |-> OwnerOf(d)][c] # None
    BY <1>1, <1>5
  <2>2. [c \in Conversations |-> OwnerOf(c)'] =
          [c \in Conversations |->
             IF c \in C THEN None ELSE [d \in Conversations |-> OwnerOf(d)][c]]
    BY <1>2
  <2>3. {[d \in Conversations |-> OwnerOf(d)][c] : c \in C} = {OwnerOf(c) : c \in C}
    BY <1>5
  <2>4. [c \in Conversations |-> LastOf(c)'] = [c \in Conversations |-> LastOf(c)]
    BY <1>4
  <2>5. QED
    BY <1>3, <2>1, <2>2, <2>3, <2>4 DEF Ownership!Yield
<1>7. QED
  BY <1>6 DEF C

LEMMA ClaimTakes ==
  ASSUME Inv, Inv', NEW r \in Rows, NEW e \in 0..MaxEpoch, Claims(r, e)
  PROVE  Ownership!Take(r)
<1>. USE DEF Inv, TurnInv
<1>. DEFINE c == Conv(r)
<1>1. c \in Conversations /\ c' = c
  BY RowParts DEF Conv
<1>2. ~Ended(r) /\ OwnerOf(c) # r
  <2>1. ~Present(r)
    BY ClaimRows
  <2>2. CASE \E q \in Rows : Conv(q) = c /\ exec[q].state = "running"
    BY <2>1, <2>2, OwnerIs DEF Present, Ended
  <2>3. CASE ~\E q \in Rows : Conv(q) = c /\ exec[q].state = "running"
    BY <2>1, <2>3, NoOwner, NoneAssumption DEF Present, Ended
  <2>4. QED
    BY <2>2, <2>3
<1>3. \A d \in Conversations : OwnerOf(d)' = IF d = c THEN r ELSE OwnerOf(d)
  <2>. SUFFICES ASSUME NEW d \in Conversations
                PROVE  OwnerOf(d)' = IF d = c THEN r ELSE OwnerOf(d)
    OBVIOUS
  <2>1. CASE d = c
    <3>1. exec'[r].state = "running"
      BY ClaimRows
    <3>2. QED
      BY <1>1, <2>1, <3>1, OwnerIsNext
  <2>2. CASE d # c /\ \E q \in Rows : Conv(q) = d /\ exec[q].state = "running"
    <3>1. PICK q \in Rows : Conv(q) = d /\ exec[q].state = "running"
      BY <2>2
    <3>2. exec'[q].state = "running"
      BY <2>2, <3>1, ClaimRows
    <3>3. OwnerOf(d) = q /\ OwnerOf(Conv(q))' = q
      BY <3>1, <3>2, OwnerIs, OwnerIsNext
    <3>4. QED
      BY <2>2, <3>1, <3>3
  <2>3. CASE d # c /\ ~\E q \in Rows : Conv(q) = d /\ exec[q].state = "running"
    <3>1. \A q \in Rows : Conv(q) = d => exec'[q].state # "running"
      BY <2>3, ClaimRows
    <3>2. QED
      BY <2>3, <3>1, NoOwner, NoOwnerNext
  <2>4. QED
    BY <2>1, <2>2, <2>3
<1>4. \A d \in Conversations : LastOf(d)' = IF d = c THEN r ELSE LastOf(d)
  <2>. SUFFICES ASSUME NEW d \in Conversations
                PROVE  LastOf(d)' = IF d = c THEN r ELSE LastOf(d)
    OBVIOUS
  <2>1. CASE d = c
    <3>1. LastOf(Conv(r))' = r
      BY ClaimBecomesLatest, LastIsNext DEF SeqInv
    <3>2. QED
      BY <1>1, <2>1, <3>1
  <2>2. CASE d # c /\ RowsOf(d) = {}
    BY <2>2, ClaimIsNewest DEF LastOf
  <2>3. CASE d # c /\ RowsOf(d) # {}
    <3>1. PICK q \in RowsOf(d) : IsLatest(q)
      BY <2>3 DEF SeqInv, HasLatest
    <3>2. q \in Rows /\ Conv(q) = d
      BY DEF RowsOf
    <3>3. IsLatest(q)' /\ q \in RowsOf(Conv(q))'
      BY <2>3, <3>1, <3>2, ClaimBecomesLatest, ClaimIsNewest
    <3>4. LastOf(d) = q /\ LastOf(Conv(q))' = q
      BY <3>1, <3>2, <3>3, LastIs, LastIsNext DEF SeqInv
    <3>5. QED
      BY <2>3, <3>2, <3>4
  <2>4. QED
    BY <2>1, <2>2, <2>3
<1>5. {q \in Rows : Ended(q)'} = {q \in Rows : Ended(q)} \cup ({OwnerOf(c)} \ {None})
  <2>1. ASSUME NEW q \in Rows, Ended(q)', ~Ended(q) PROVE q = OwnerOf(c) /\ q # None
    <3>1. q # r
      BY <2>1, ClaimRows DEF Ended
    <3>2. exec[q].state = "running" /\ Conv(q) = c
      BY <2>1, <3>1, ClaimRows DEF Ended
    <3>3. QED
      BY <3>2, OwnerIs, NoneAssumption
  <2>2. ASSUME OwnerOf(c) # None PROVE \E q \in Rows : OwnerOf(c) = q /\ Ended(q)'
    <3>1. PICK q \in Rows : Conv(q) = c /\ exec[q].state = "running"
      BY <2>2, NoOwner
    <3>2. OwnerOf(c) = q
      BY <3>1, OwnerIs
    <3>3. q # r /\ exec'[q].state # "absent"
      BY <3>1, ClaimRows DEF Present
    <3>4. exec'[q].state # "running"
      BY <3>1, <3>3, ClaimEndsOthers
    <3>5. QED
      BY <3>2, <3>3, <3>4 DEF Ended
  <2>3. ASSUME NEW q \in Rows, Ended(q) PROVE Ended(q)'
    BY <2>3, ClaimRows DEF Ended, Present
  <2>4. QED
    BY <2>1, <2>2, <2>3
<1>6. UNCHANGED lastWriter
  BY DEF Claims
<1>. HIDE DEF c
<1>7. [q \in Rows |-> Conv(q)][r] = c
  BY DEF c
<1>8. [d \in Conversations |-> OwnerOf(d)][c] = OwnerOf(c)
  BY <1>1
<1>9. /\ [d \in Conversations |-> OwnerOf(d)'] = [[d \in Conversations |-> OwnerOf(d)] EXCEPT ![c] = r]
      /\ [d \in Conversations |-> LastOf(d)'] = [[d \in Conversations |-> LastOf(d)] EXCEPT ![c] = r]
  BY <1>1, <1>3, <1>4
<1>10. QED
  BY <1>2, <1>5, <1>6, <1>7, <1>8, <1>9 DEF Ownership!Take


\* A commit is a write of the last owner; the recovery of a timed-out worker
\* ends its own execution with it.
LEMMA CommitWrites ==
  ASSUME Inv, Inv', NEW k \in Controls, NEW kind \in Kinds, Commit(k, kind)
  PROVE  \E c \in Conversations : Ownership!Write(c)
<1>. USE DEF Inv, TurnInv
<1>. DEFINE r == ctl[k].lease
            c == Conv(r)
<1>1. Settles /\ r \in Rows /\ c \in Conversations
  BY CommitSettles, RowParts
<1>2. Present(r) /\ IsLatest(r)
  <2>1. CASE kind \in {"plain", "fenced"}
    BY <1>1, <2>1 DEF Commit, FencePasses, Active, SeqInv, LatestRuns, Present
  <2>2. CASE kind = "recovery"
    BY <2>2 DEF Commit, FencePasses, Recovered, Present
  <2>3. CASE kind = "title"
    BY <2>3 DEF Commit, FencePasses, Present
  <2>4. QED
    BY <2>1, <2>2, <2>3 DEF Kinds
<1>3. LastOf(c) = r /\ r # None
  <2>1. r \in RowsOf(c)
    BY <1>1, <1>2 DEF RowsOf, Present
  <2>2. QED
    BY <1>1, <1>2, <2>1, LastIs, NoneAssumption DEF SeqInv
<1>4. lastWriter' = [lastWriter EXCEPT ![c] = r]
  BY DEF Commit
<1>5. \A d \in Conversations : LastOf(d)' = LastOf(d)
  BY <1>1, SettlesKeepsLast
<1>6. \A d \in Conversations : Yields(d) => d = c
  <2>1. \A q \in Rows : q # r => exec'[q] = exec[q]
    BY Typed DEF Commit
  <2>2. QED
    BY <2>1 DEF Yields
<1>7. /\ \A d \in Conversations : OwnerOf(d)' = IF Yields(d) THEN None ELSE OwnerOf(d)
      /\ Yields(c) => OwnerOf(c) # None
  BY <1>1, OwnerAfterSettling
<1>8. {q \in Rows : Ended(q)'} =
        {q \in Rows : Ended(q)} \cup {OwnerOf(d) : d \in {b \in Conversations : Yields(b)}}
  BY <1>1, EndedAfterSettling
<1>. HIDE DEF r, c
<1>. DEFINE own == [d \in Conversations |-> OwnerOf(d)]
            lst == [d \in Conversations |-> LastOf(d)]
            done == {q \in Rows : Ended(q)}
<1>9. /\ lst[c] # None
      /\ lastWriter' = [lastWriter EXCEPT ![c] = lst[c]]
      /\ [d \in Conversations |-> LastOf(d)'] = lst
  BY <1>1, <1>3, <1>4, <1>5
<1>10. CASE Yields(c)
  <2>1. own[c] # None /\ [d \in Conversations |-> OwnerOf(d)'] = [own EXCEPT ![c] = None]
    BY <1>1, <1>6, <1>7, <1>10
  <2>2. {b \in Conversations : Yields(b)} = {c}
    BY <1>1, <1>6, <1>10
  <2>3. {q \in Rows : Ended(q)'} = done \cup {own[c]}
    BY <1>1, <1>8, <2>2
  <2>4. Ownership!Write(c)
    BY <1>9, <2>1, <2>3 DEF Ownership!Write
  <2>5. QED
    BY <1>1, <2>4
<1>11. CASE ~Yields(c)
  <2>1. [d \in Conversations |-> OwnerOf(d)'] = own
    BY <1>6, <1>7, <1>11
  <2>2. {b \in Conversations : Yields(b)} = {}
    BY <1>6, <1>11
  <2>3. {q \in Rows : Ended(q)'} = done
    BY <1>8, <2>2
  <2>4. Ownership!Write(c)
    BY <1>9, <2>1, <2>3 DEF Ownership!Write
  <2>5. QED
    BY <1>1, <2>4
<1>12. QED
  BY <1>10, <1>11

LEMMA OwnershipStep ==
  ASSUME Inv, Inv', [Next]_vars
  PROVE  Ownership!ONext
<1>1. CASE Settles /\ Quiet
  BY <1>1, SettlingYields DEF Quiet, Ownership!ONext
<1>2. CASE \E r \in Rows, e \in 0..MaxEpoch : Claims(r, e)
  BY <1>2, ClaimTakes DEF Ownership!ONext
<1>3. CASE \E k \in Controls, kind \in Kinds : Commit(k, kind)
  BY <1>3, CommitWrites DEF Ownership!ONext
<1>4. QED
  BY <1>1, <1>2, <1>3, WhatHappens DEF Inv

LEMMA OwnershipStarts == Init => Ownership!OInit
<1>. SUFFICES ASSUME Init PROVE Ownership!OInit
  OBVIOUS
<1>1. \A r \in Rows : exec[r].state = "absent"
  BY DEF Init
<1>2. \A c \in Conversations : OwnerOf(c) = None /\ LastOf(c) = None
  BY <1>1 DEF OwnerOf, LastOf, RowsOf
<1>3. {r \in Rows : Ended(r)} = {}
  BY <1>1 DEF Ended
<1>4. lastWriter = [c \in Conversations |-> None]
  BY DEF Init
<1>5. [c \in Conversations |-> OwnerOf(c)] = [c \in Conversations |-> None]
  BY <1>2
<1>6. [c \in Conversations |-> LastOf(c)] = [c \in Conversations |-> None]
  BY <1>2
<1>7. QED
  BY <1>3, <1>4, <1>5, <1>6 DEF Ownership!OInit

\* The durable lease implements exclusive ownership of a conversation: a claim
\* takes it from nobody who may still write, an execution owns it once, and only
\* the owner, or the last owner after its end, leaves protected writes behind
\* (_claim, _release_expired, _finish_in_session, _commit_fence).
THEOREM LeaseImplementsOwnership == Spec => ImplementsOwnership
<1>1. Init => Ownership!OInit
  BY OwnershipStarts
<1>2. Inv /\ Inv' /\ [Next]_vars => [Ownership!ONext]_(Ownership!ovars)
  BY OwnershipStep
<1>3. Init => SeqInv
  BY SeqInvStarts
<1>4. IInv /\ Beating /\ TurnInv /\ SeqInv /\ [Next]_vars => SeqInv'
  BY SeqInvStep
<1>5. Spec => []SeqInv
  BY <1>3, <1>4, Invariance, TurnInvariance, PTL DEF Spec
<1>6. Spec => []Inv
  BY <1>5, Invariance, TurnInvariance, PTL DEF Inv
<1>7. QED
  BY <1>1, <1>2, <1>6, PTL DEF Spec, ImplementsOwnership, Ownership!OSpec

==============================================================================
