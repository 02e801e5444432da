------------------------ MODULE PilotControl_proofs ------------------------
(***************************************************************************)
(* Proofs about PilotControl, for every number of conversations, turns,    *)
(* controls and commands and every value of the bounds.                    *)
(***************************************************************************)
EXTENDS PilotControl, TLAPS

-----------------------------------------------------------------------------
(* The inductive invariant behind TypeOK: a control that may end its         *)
(* execution or hold the writer lock has one, and a process that is down may  *)
(* start again within the bound.                                             *)

Working == {"claimed", "claiming", "live", "finished", "titling"}
Leased == \A k \in Controls : /\ ctl[k].phase \in Working => ctl[k].lease \in Rows
                              /\ InTransaction(k) => ctl[k].phase \in Working
Down == proc.up \/ proc.epoch < MaxEpoch
IInv == TypeOK /\ Leased /\ Down

ExecRecord == [state : RowStates \cup {"absent"}, seq : 0..MaxSeq,
               age : Ages, epoch : 0..MaxEpoch]
CtlRecord == [phase : {"free", "claimed", "unleased", "claiming", "live", "finished",
                       "titling", "dead"},
              lease : Rows \cup {None}, op : Operations \cup {None},
              inner : {"ACTIVE", "CANCELLED", "TIMED_OUT", "COMPLETED"},
              revoked : BOOLEAN, age : 0..LeaseMs, seen : BOOLEAN,
              hb : {"off", "idle", "renewing"}, stop : BOOLEAN]
OpRecord == [status : {"absent", "proposed", "settled"}, turn : Turns \cup {None}]
Ending == {"completed", "waiting_confirmation", "failed", "interrupted",
           "result_unknown", "stopped"}

\* A row keeps its state or, once, ends.
RowKeeps(q) == \/ exec'[q].state = exec[q].state
               \/ exec[q].state = "running" /\ exec'[q].state \in Ending

LEMMA InStateType ==
  ASSUME NEW r \in Rows, exec \in [Rows -> ExecRecord], NEW s \in RowStates
  PROVE  /\ InState(r, s) \in ExecRecord
         /\ InState(r, s).state = s
<1>1. 0 \in Ages
  BY BoundAssumption DEF Ages
<1>2. exec[r] \in ExecRecord
  OBVIOUS
<1>3. QED
  BY <1>1, <1>2 DEF InState, ExecRecord

LEMMA FinishRowStep ==
  ASSUME exec \in [Rows -> ExecRecord], turn \in [Turns -> TurnStates],
         NEW r, NEW s \in Ending \ {"stopped"}, FinishRow(r, s)
  PROVE  /\ exec' \in [Rows -> ExecRecord]
         /\ turn' \in [Turns -> TurnStates]
         /\ \A q \in Rows : RowKeeps(q)
<1>1. FinishState(r, s) \in Ending \ {"stopped"}
  BY DEF FinishState, Ending
<1>2. TurnStateOf(FinishState(r, s)) \in TurnStates
  BY <1>1 DEF TurnStateOf, TurnStates, Ending
<1>3. CASE exec[r].state = "running"
  <2>1. exec' = [exec EXCEPT ![r] = InState(r, FinishState(r, s))]
    BY <1>3 DEF FinishRow
  <2>2. turn' = [turn EXCEPT ![r[1]] = TurnStateOf(FinishState(r, s))]
    BY <1>3 DEF FinishRow
  <2>3. CASE r \in Rows
    <3>1. InState(r, FinishState(r, s)) \in ExecRecord
          /\ InState(r, FinishState(r, s)).state = FinishState(r, s)
      BY <1>1, <2>3, InStateType DEF Ending, RowStates
    <3>2. QED
      BY <1>1, <1>2, <1>3, <2>1, <2>2, <3>1 DEF RowKeeps
  <2>4. CASE r \notin Rows
    BY <1>2, <2>1, <2>2, <2>4 DEF RowKeeps
  <2>5. QED
    BY <2>3, <2>4
<1>4. CASE exec[r].state # "running"
  BY <1>4 DEF FinishRow, RowKeeps
<1>5. QED
  BY <1>3, <1>4

RowsKept == \A q \in Rows : RowKeeps(q)
Claimed == \E r \in Rows, e \in 0..MaxEpoch : Claim(r, e) /\ exec[r].state = "absent"

LEMMA ClaimType ==
  ASSUME TypeOK, NEW r \in Rows, NEW e \in 0..MaxEpoch, Claim(r, e)
  PROVE  exec' \in [Rows -> ExecRecord] /\ turn' \in [Turns -> TurnStates]
<1>. USE DEF TypeOK
<1>1. \A q \in Rows : Release(Conv(r), q) \in ExecRecord
  BY InStateType DEF Release, RowStates, ExecRecord
<1>2. PICK s \in 1..MaxSeq :
        exec' = [q \in Rows |->
            IF q = r THEN [state |-> "running", seq |-> s, age |-> 0, epoch |-> e]
                     ELSE Release(Conv(r), q)]
  BY DEF Claim
<1>3. [state |-> "running", seq |-> s, age |-> 0, epoch |-> e] \in ExecRecord
  BY BoundAssumption DEF ExecRecord, RowStates, Ages
<1>4. turn' \in [Turns -> TurnStates]
  BY DEF Claim, TurnStates
<1>5. QED
  BY <1>1, <1>2, <1>3, <1>4


LEMMA Typed ==
  ASSUME IInv
  PROVE  /\ exec \in [Rows -> ExecRecord] /\ turn \in [Turns -> TurnStates]
         /\ ctl \in [Controls -> CtlRecord] /\ op \in [Operations -> OpRecord]
         /\ proc.epoch \in 0..MaxEpoch
  BY DEF IInv, TypeOK, ExecRecord, CtlRecord, OpRecord

\* The frame of every action that leaves the writer lock alone and updates one
\* control: c is what becomes of it.
LEMMA ControlUpdate ==
  ASSUME IInv, NEW k \in Controls, NEW c \in CtlRecord,
         c.phase \in Working => c.lease \in Rows,
         InTransaction(k) => c.phase \in Working,
         ctl' = [ctl EXCEPT ![k] = c],
         exec' \in [Rows -> ExecRecord], turn' \in [Turns -> TurnStates],
         op' \in [Operations -> OpRecord],
         UNCHANGED <<pending, receipt, lastWriter, writer, proc, jumps>>
  PROVE  IInv'
<1>1. ctl' \in [Controls -> CtlRecord]
  BY Typed
<1>2. Leased'
  <2>. SUFFICES ASSUME NEW j \in Controls
                PROVE  /\ ctl'[j].phase \in Working => ctl'[j].lease \in Rows
                       /\ InTransaction(j)' => ctl'[j].phase \in Working
    BY DEF Leased
  <2>1. ctl'[j] = IF j = k THEN c ELSE ctl[j]
    BY Typed
  <2>2. InTransaction(j)' => InTransaction(j)
    BY DEF InTransaction
  <2>3. QED
    BY <2>1, <2>2 DEF IInv, Leased
<1>3. TypeOK'
  BY <1>1 DEF IInv, TypeOK, ExecRecord, CtlRecord, OpRecord
<1>4. QED
  BY <1>2, <1>3 DEF IInv, Down

\* A control that keeps its place and its lease keeps what Leased says of it.
LEMMA SamePlace ==
  ASSUME IInv, NEW k \in Controls, NEW c, c.phase = ctl[k].phase, c.lease = ctl[k].lease
  PROVE  /\ c.phase \in Working => c.lease \in Rows
         /\ InTransaction(k) => c.phase \in Working
  BY DEF IInv, Leased

-----------------------------------------------------------------------------
(* One lemma per action. *)

LEMMA ClaimStartStep ==
  ASSUME IInv, NEW k \in Controls, NEW t \in Turns, ClaimStart(k, t)
  PROVE  IInv' /\ Claimed
<1>. DEFINE c == [ctl[k] EXCEPT !.phase = "claimed", !.lease = <<t, 1>>]
<1>1. <<t, 1>> \in Rows
  BY BoundAssumption DEF Rows
<1>2. exec[<<t, 1>>].state = "absent"
  BY BoundAssumption DEF ClaimStart, NoRowOf
<1>3. Claimed
  BY <1>1, <1>2, Typed DEF Claimed, ClaimStart
<1>4. exec' \in [Rows -> ExecRecord] /\ turn' \in [Turns -> TurnStates]
  BY <1>1, Typed, ClaimType DEF IInv, ClaimStart
<1>5. c \in CtlRecord /\ ctl' = [ctl EXCEPT ![k] = c] /\ c.phase = "claimed" /\ c.lease \in Rows
  <2>1. ctl[k] \in CtlRecord /\ 0 \in 0..LeaseMs
    BY Typed, BoundAssumption
  <2>2. c \in CtlRecord /\ c.phase = "claimed" /\ c.lease \in Rows
    BY <1>1, <2>1 DEF CtlRecord, ClaimStart
  <2>3. ctl' = [ctl EXCEPT ![k] = c]
    BY <2>1, Typed DEF ClaimStart
  <2>4. QED
    BY <2>2, <2>3
<1>6. IInv'
  <2>. HIDE DEF c
  <2>. QED
    BY <1>4, <1>5, Typed, ControlUpdate DEF ClaimStart, Working
<1>7. QED
  BY <1>3, <1>6

LEMMA AttachStep ==
  ASSUME IInv, NEW k \in Controls, Attach(k)
  PROVE  IInv' /\ RowsKept
<1>. DEFINE c == [ctl[k] EXCEPT !.phase = "live", !.age = 0, !.hb = "idle"]
<1>1. c \in CtlRecord /\ ctl' = [ctl EXCEPT ![k] = c] /\ c.phase = "live" /\ c.lease = ctl[k].lease
  <2>1. ctl[k] \in CtlRecord /\ 0 \in 0..LeaseMs
    BY Typed, BoundAssumption
  <2>2. c \in CtlRecord /\ c.phase = "live" /\ c.lease = ctl[k].lease
    BY <2>1 DEF CtlRecord
  <2>3. ctl' = [ctl EXCEPT ![k] = c]
    BY <2>1, Typed DEF Attach
  <2>4. QED
    BY <2>2, <2>3
<1>2. ctl[k].lease \in Rows
  BY DEF Attach, IInv, Leased, Working
<1>3. IInv'
  <2>. HIDE DEF c
  <2>. QED
    BY <1>1, <1>2, Typed, ControlUpdate DEF Attach, durable, Working
<1>4. RowsKept
  BY DEF Attach, durable, RowsKept, RowKeeps
<1>5. QED
  BY <1>3, <1>4

LEMMA FinishStep ==
  ASSUME IInv, NEW k \in Controls, NEW s \in Ending \ {"stopped"}, Finish(k, s)
  PROVE  IInv' /\ RowsKept
<1>. DEFINE c == [ctl[k] EXCEPT !.phase = "finished", !.stop = TRUE, !.seen = FALSE,
                    !.inner = IF ClaimsInner(k) /\ exec' # exec THEN "COMPLETED" ELSE @]
<1>1. c \in CtlRecord /\ ctl' = [ctl EXCEPT ![k] = c] /\ c.phase = "finished" /\ c.lease = ctl[k].lease
  <2>1. ctl[k] \in CtlRecord /\ 0 \in 0..LeaseMs
    BY Typed, BoundAssumption
  <2>2. c \in CtlRecord /\ c.phase = "finished" /\ c.lease = ctl[k].lease
    BY <2>1 DEF CtlRecord
  <2>3. ctl' = [ctl EXCEPT ![k] = c]
    BY <2>1, Typed DEF Finish
  <2>4. QED
    BY <2>2, <2>3
<1>2. ctl[k].lease \in Rows
  BY DEF Finish, IInv, Leased, Working
<1>3. exec' \in [Rows -> ExecRecord] /\ turn' \in [Turns -> TurnStates] /\ RowsKept
  <2>1. Resolved(k, s) \in Ending \ {"stopped"}
    BY DEF Resolved, Ending
  <2>2. QED
    BY <2>1, Typed, FinishRowStep DEF Finish, FinishDurably, RowsKept, RowKeeps
<1>4. IInv'
  <2>. HIDE DEF c
  <2>. QED
    BY <1>1, <1>2, <1>3, Typed, ControlUpdate DEF Finish, Working
<1>5. QED
  BY <1>3, <1>4

LEMMA ConfirmRowType ==
  ASSUME IInv, NEW o \in Operations, NEW r \in Rows, ConfirmRow(o, r)
  PROVE  exec[r].state = "absent" /\ op' \in [Operations -> OpRecord]
<1>1. r[1] \in Turns /\ r[2] \in 1..MaxGen /\ r = <<r[1], r[2]>>
  BY DEF Rows
<1>2. exec[<<r[1], r[2]>>].state = "absent"
  <2>1. CASE r[2] = 1
    BY <1>1, <2>1 DEF ConfirmRow, NoRowOf
  <2>2. CASE r[2] # 1
    BY <1>1, <2>2 DEF ConfirmRow, LatestOf
  <2>3. QED
    BY <2>1, <2>2
<1>3. exec[r].state = "absent"
  BY <1>1, <1>2, Zenon
<1>4. op' \in [Operations -> OpRecord]
  BY <1>1, Typed DEF ConfirmRow, OpRecord
<1>5. QED
  BY <1>3, <1>4

LEMMA ClaimConfirmationStep ==
  ASSUME IInv, NEW k \in Controls, NEW o \in Operations, NEW r \in Rows,
         ClaimConfirmation(k, o, r)
  PROVE  IInv' /\ Claimed
<1>. DEFINE c == [ctl[k] EXCEPT !.phase = "claimed", !.lease = r, !.op = o]
<1>1. exec[r].state = "absent" /\ op' \in [Operations -> OpRecord]
  BY ConfirmRowType DEF ClaimConfirmation
<1>2. exec' \in [Rows -> ExecRecord] /\ turn' \in [Turns -> TurnStates]
  BY Typed, ClaimType DEF IInv, ClaimConfirmation
<1>3. c \in CtlRecord /\ ctl' = [ctl EXCEPT ![k] = c] /\ c.phase = "claimed" /\ c.lease \in Rows
  <2>1. ctl[k] \in CtlRecord /\ 0 \in 0..LeaseMs
    BY Typed, BoundAssumption
  <2>2. c \in CtlRecord /\ c.phase = "claimed" /\ c.lease \in Rows
    BY <2>1 DEF CtlRecord, ClaimConfirmation
  <2>3. ctl' = [ctl EXCEPT ![k] = c]
    BY <2>1, Typed DEF ClaimConfirmation
  <2>4. QED
    BY <2>2, <2>3
<1>4. IInv'
  <2>. HIDE DEF c
  <2>. QED
    BY <1>1, <1>2, <1>3, Typed, ControlUpdate DEF ClaimConfirmation, Working
<1>5. QED
  BY <1>1, <1>4, Typed DEF ClaimConfirmation, Claimed

LEMMA ClaimLateStep ==
  ASSUME IInv, NEW k \in Controls, NEW o \in Operations, NEW r \in Rows, ClaimLate(k, o, r)
  PROVE  IInv' /\ Claimed
<1>. DEFINE c == [ctl[k] EXCEPT !.phase = "claiming", !.lease = r, !.op = o]
<1>1. exec[r].state = "absent" /\ op' \in [Operations -> OpRecord]
  BY ConfirmRowType DEF ClaimLate
<1>2. exec' \in [Rows -> ExecRecord] /\ turn' \in [Turns -> TurnStates]
  <2>1. 0 \in 0..MaxEpoch
    BY BoundAssumption
  <2>2. QED
    BY <2>1, ClaimType DEF IInv, ClaimLate
<1>3. c \in CtlRecord /\ ctl' = [ctl EXCEPT ![k] = c] /\ c.phase = "claiming" /\ c.lease \in Rows
  <2>1. ctl[k] \in CtlRecord /\ 0 \in 0..LeaseMs
    BY Typed, BoundAssumption
  <2>2. c \in CtlRecord /\ c.phase = "claiming" /\ c.lease \in Rows
    BY <2>1 DEF CtlRecord, ClaimLate
  <2>3. ctl' = [ctl EXCEPT ![k] = c]
    BY <2>1, Typed DEF ClaimLate
  <2>4. QED
    BY <2>2, <2>3
<1>4. IInv'
  <2>. HIDE DEF c
  <2>. QED
    BY <1>1, <1>2, <1>3, Typed, ControlUpdate DEF ClaimLate, Working
<1>5. 0 \in 0..MaxEpoch
  BY BoundAssumption
<1>6. QED
  BY <1>1, <1>4, <1>5 DEF ClaimLate, Claimed

LEMMA OpenUnleasedStep ==
  ASSUME IInv, NEW k \in Controls, OpenUnleased(k)
  PROVE  IInv' /\ RowsKept
<1>. DEFINE c == [ctl[k] EXCEPT !.phase = "unleased"]
<1>1. c \in CtlRecord /\ ctl' = [ctl EXCEPT ![k] = c] /\ c.phase = "unleased"
  <2>1. ctl[k] \in CtlRecord /\ 0 \in 0..LeaseMs
    BY Typed, BoundAssumption
  <2>2. c \in CtlRecord /\ c.phase = "unleased"
    BY <2>1 DEF CtlRecord
  <2>3. ctl' = [ctl EXCEPT ![k] = c]
    BY <2>1, Typed DEF OpenUnleased
  <2>4. QED
    BY <2>2, <2>3
<1>2. ~InTransaction(k)
  BY DEF OpenUnleased, IInv, Leased, Working
<1>3. IInv'
  <2>. HIDE DEF c
  <2>. QED
    BY <1>1, <1>2, Typed, ControlUpdate DEF OpenUnleased, durable, Working
<1>4. RowsKept
  BY DEF OpenUnleased, durable, RowsKept, RowKeeps
<1>5. QED
  BY <1>3, <1>4

LEMMA AdmissionFailedStep ==
  ASSUME IInv, NEW k \in Controls, AdmissionFailed(k)
  PROVE  IInv' /\ RowsKept
<1>. DEFINE c == [ctl[k] EXCEPT !.phase = "finished"]
<1>1. c \in CtlRecord /\ ctl' = [ctl EXCEPT ![k] = c] /\ c.phase = "finished" /\ c.lease = ctl[k].lease
  <2>1. ctl[k] \in CtlRecord /\ 0 \in 0..LeaseMs
    BY Typed, BoundAssumption
  <2>2. c \in CtlRecord /\ c.phase = "finished" /\ c.lease = ctl[k].lease
    BY <2>1 DEF CtlRecord
  <2>3. ctl' = [ctl EXCEPT ![k] = c]
    BY <2>1, Typed DEF AdmissionFailed
  <2>4. QED
    BY <2>2, <2>3
<1>2. ctl[k].lease \in Rows
  BY DEF AdmissionFailed, IInv, Leased, Working
<1>3. exec' \in [Rows -> ExecRecord] /\ turn' \in [Turns -> TurnStates] /\ RowsKept
  BY Typed, FinishRowStep DEF AdmissionFailed, RowsKept, RowKeeps, Ending
<1>4. IInv'
  <2>. HIDE DEF c
  <2>. QED
    BY <1>1, <1>2, <1>3, Typed, ControlUpdate DEF AdmissionFailed, Working
<1>5. QED
  BY <1>3, <1>4

LEMMA CloseFinishStep ==
  ASSUME IInv, NEW k \in Controls, CloseFinish(k)
  PROVE  IInv' /\ RowsKept
<1>. DEFINE c == [ctl[k] EXCEPT !.stop = TRUE]
<1>1. c \in CtlRecord /\ ctl' = [ctl EXCEPT ![k] = c]
      /\ c.phase = ctl[k].phase /\ c.lease = ctl[k].lease
  <2>1. ctl[k] \in CtlRecord /\ 0 \in 0..LeaseMs
    BY Typed, BoundAssumption
  <2>2. c \in CtlRecord /\ c.phase = ctl[k].phase /\ c.lease = ctl[k].lease
    BY <2>1 DEF CtlRecord
  <2>3. ctl' = [ctl EXCEPT ![k] = c]
    BY <2>1, Typed DEF CloseFinish
  <2>4. QED
    BY <2>2, <2>3
<1>2. exec' \in [Rows -> ExecRecord] /\ turn' \in [Turns -> TurnStates] /\ RowsKept
  <2>1. Resolved(k, "interrupted") \in Ending \ {"stopped"}
    BY DEF Resolved, Ending
  <2>2. QED
    BY <2>1, Typed, FinishRowStep DEF CloseFinish, FinishDurably, RowsKept, RowKeeps
<1>3. IInv'
  <2>. HIDE DEF c
  <2>. QED
    BY <1>1, <1>2, Typed, SamePlace, ControlUpdate DEF CloseFinish
<1>4. QED
  BY <1>2, <1>3

LEMMA FinishSafelyStep ==
  ASSUME IInv, NEW k \in Controls, NEW s \in Ending \ {"stopped"}, FinishSafely(k, s)
  PROVE  exec' \in [Rows -> ExecRecord] /\ turn' \in [Turns -> TurnStates] /\ RowsKept
  BY Typed, FinishRowStep DEF FinishSafely, RowsKept, RowKeeps

LEMMA EndInnerStep ==
  ASSUME IInv, NEW k \in Controls, NEW how \in {"CANCELLED", "TIMED_OUT"}, EndInner(k, how)
  PROVE  IInv' /\ RowsKept
<1>. DEFINE c == [ctl[k] EXCEPT !.inner = how, !.revoked = TRUE, !.stop = TRUE]
<1>1. c \in CtlRecord /\ ctl' = [ctl EXCEPT ![k] = c]
      /\ c.phase = ctl[k].phase /\ c.lease = ctl[k].lease
  <2>1. ctl[k] \in CtlRecord /\ 0 \in 0..LeaseMs
    BY Typed, BoundAssumption
  <2>2. c \in CtlRecord /\ c.phase = ctl[k].phase /\ c.lease = ctl[k].lease
    BY <2>1 DEF CtlRecord
  <2>3. ctl' = [ctl EXCEPT ![k] = c]
    BY <2>1, Typed DEF EndInner
  <2>4. QED
    BY <2>2, <2>3
<1>2. exec' \in [Rows -> ExecRecord] /\ turn' \in [Turns -> TurnStates] /\ RowsKept
  BY FinishSafelyStep DEF EndInner, Ending
<1>3. IInv'
  <2>. HIDE DEF c
  <2>. QED
    BY <1>1, <1>2, Typed, SamePlace, ControlUpdate DEF EndInner
<1>4. QED
  BY <1>2, <1>3

LEMMA ObserveStep ==
  ASSUME IInv, NEW k \in Controls, Observe(k)
  PROVE  IInv' /\ RowsKept
<1>. DEFINE seen == [ctl[k] EXCEPT !.seen = TRUE]
            gone == [ctl[k] EXCEPT !.revoked = TRUE]
<1>1. PICK c \in CtlRecord : /\ ctl' = [ctl EXCEPT ![k] = c]
                             /\ c.phase = ctl[k].phase /\ c.lease = ctl[k].lease
  <2>. ctl[k] \in CtlRecord
    BY Typed
  <2>1. seen \in CtlRecord /\ seen.phase = ctl[k].phase /\ seen.lease = ctl[k].lease
    BY DEF CtlRecord
  <2>2. gone \in CtlRecord /\ gone.phase = ctl[k].phase /\ gone.lease = ctl[k].lease
    BY DEF CtlRecord
  <2>3. ctl' = [ctl EXCEPT ![k] = seen] \/ ctl' = [ctl EXCEPT ![k] = gone]
    BY DEF Observe
  <2>4. QED
    BY <2>1, <2>2, <2>3
<1>2. exec' \in [Rows -> ExecRecord] /\ turn' \in [Turns -> TurnStates] /\ RowsKept
  BY Typed, FinishSafelyStep DEF Observe, Ending, RowsKept, RowKeeps
<1>3. IInv'
  BY <1>1, <1>2, Typed, SamePlace, ControlUpdate DEF Observe
<1>4. QED
  BY <1>2, <1>3

LEMMA MarkCompletedStep ==
  ASSUME IInv, NEW k \in Controls, MarkCompleted(k)
  PROVE  IInv' /\ RowsKept
<1>. DEFINE c == [ctl[k] EXCEPT !.inner = "COMPLETED", !.seen = FALSE]
<1>1. c \in CtlRecord /\ ctl' = [ctl EXCEPT ![k] = c]
      /\ c.phase = ctl[k].phase /\ c.lease = ctl[k].lease
  <2>1. ctl[k] \in CtlRecord /\ 0 \in 0..LeaseMs
    BY Typed, BoundAssumption
  <2>2. c \in CtlRecord /\ c.phase = ctl[k].phase /\ c.lease = ctl[k].lease
    BY <2>1 DEF CtlRecord
  <2>3. ctl' = [ctl EXCEPT ![k] = c]
    BY <2>1, Typed DEF MarkCompleted
  <2>4. QED
    BY <2>2, <2>3
<1>2. IInv'
  <2>. HIDE DEF c
  <2>. QED
    BY <1>1, Typed, SamePlace, ControlUpdate DEF MarkCompleted, durable
<1>3. QED
  BY <1>2 DEF MarkCompleted, durable, RowsKept, RowKeeps

LEMMA RenewBeginStep ==
  ASSUME IInv, NEW k \in Controls, RenewBegin(k)
  PROVE  IInv' /\ RowsKept
<1>. DEFINE c == [ctl[k] EXCEPT !.hb =
                    IF ~ctl[k].stop /\ LocallyActive(k) THEN "renewing" ELSE "off"]
<1>1. c \in CtlRecord /\ ctl' = [ctl EXCEPT ![k] = c]
      /\ c.phase = ctl[k].phase /\ c.lease = ctl[k].lease
  <2>1. ctl[k] \in CtlRecord /\ 0 \in 0..LeaseMs
    BY Typed, BoundAssumption
  <2>2. c \in CtlRecord /\ c.phase = ctl[k].phase /\ c.lease = ctl[k].lease
    BY <2>1 DEF CtlRecord
  <2>3. ctl' = [ctl EXCEPT ![k] = c]
    BY <2>1, Typed DEF RenewBegin
  <2>4. QED
    BY <2>2, <2>3
<1>2. IInv'
  <2>. HIDE DEF c
  <2>. QED
    BY <1>1, Typed, SamePlace, ControlUpdate DEF RenewBegin, durable
<1>3. QED
  BY <1>2 DEF RenewBegin, durable, RowsKept, RowKeeps

\* Renewing or aging a running row leaves its state alone.
LEMMA AgeStep ==
  ASSUME IInv, NEW r, exec' = [exec EXCEPT ![r].age = 0]
  PROVE  exec' \in [Rows -> ExecRecord] /\ RowsKept
<1>1. 0 \in Ages
  BY BoundAssumption DEF Ages
<1>2. \A q \in Rows : exec'[q] = IF q = r THEN [exec[q] EXCEPT !.age = 0] ELSE exec[q]
  BY Typed
<1>3. \A q \in Rows : exec'[q] \in ExecRecord /\ exec'[q].state = exec[q].state
  BY <1>1, <1>2, Typed DEF ExecRecord
<1>4. QED
  BY <1>3, Typed DEF RowsKept, RowKeeps

LEMMA RenewSucceedsStep ==
  ASSUME IInv, NEW k \in Controls, RenewSucceeds(k)
  PROVE  IInv' /\ RowsKept
<1>. DEFINE c == [ctl[k] EXCEPT !.hb = IF ctl[k].stop THEN "off" ELSE "idle", !.age = 0]
<1>1. c \in CtlRecord /\ ctl' = [ctl EXCEPT ![k] = c]
      /\ c.phase = ctl[k].phase /\ c.lease = ctl[k].lease
  <2>1. ctl[k] \in CtlRecord /\ 0 \in 0..LeaseMs
    BY Typed, BoundAssumption
  <2>2. c \in CtlRecord /\ c.phase = ctl[k].phase /\ c.lease = ctl[k].lease
    BY <2>1 DEF CtlRecord
  <2>3. ctl' = [ctl EXCEPT ![k].hb = IF ctl[k].stop THEN "off" ELSE "idle", ![k].age = 0]
    BY DEF RenewSucceeds
  <2>4. QED
    BY <2>2, <2>3, Typed
<1>2. exec' \in [Rows -> ExecRecord] /\ RowsKept
  BY AgeStep DEF RenewSucceeds
<1>3. IInv'
  <2>. HIDE DEF c
  <2>. QED
    BY <1>1, <1>2, Typed, SamePlace, ControlUpdate DEF RenewSucceeds
<1>4. QED
  BY <1>2, <1>3

LEMMA EndRow ==
  ASSUME IInv, NEW r, NEW s \in Ending, exec' = [exec EXCEPT ![r] = InState(r, s)],
         exec[r].state \in {"running", s}
  PROVE  exec' \in [Rows -> ExecRecord] /\ RowsKept
<1>1. CASE r \in Rows
  <2>1. InState(r, s) \in ExecRecord /\ InState(r, s).state = s
    BY <1>1, Typed, InStateType DEF Ending, RowStates
  <2>2. QED
    BY <2>1, Typed DEF RowsKept, RowKeeps
<1>2. CASE r \notin Rows
  BY <1>2, Typed DEF RowsKept, RowKeeps
<1>3. QED
  BY <1>1, <1>2

LEMMA RenewFailsStep ==
  ASSUME IInv, NEW k \in Controls, RenewFails(k)
  PROVE  IInv' /\ RowsKept
<1>. DEFINE c == [ctl[k] EXCEPT !.hb = "off", !.revoked = TRUE]
            r == ctl[k].lease
<1>1. c \in CtlRecord /\ ctl' = [ctl EXCEPT ![k] = c]
      /\ c.phase = ctl[k].phase /\ c.lease = ctl[k].lease
  <2>. ctl[k] \in CtlRecord
    BY Typed
  <2>1. c \in CtlRecord /\ c.phase = ctl[k].phase /\ c.lease = ctl[k].lease
    BY DEF CtlRecord
  <2>2. ctl' = [ctl EXCEPT ![k].hb = "off", ![k].revoked = TRUE]
    BY DEF RenewFails
  <2>3. QED
    BY <2>1, <2>2, Typed
<1>2. exec' \in [Rows -> ExecRecord] /\ turn' \in [Turns -> TurnStates] /\ RowsKept
  <2>1. CASE UNCHANGED <<exec, turn>>
    BY <2>1, Typed DEF RowsKept, RowKeeps
  <2>2. CASE /\ exec[r].state = "running" /\ UNCHANGED turn
             /\ exec' = [exec EXCEPT ![r] = InState(r, "result_unknown")]
    BY <2>2, Typed, EndRow DEF Ending
  <2>3. CASE FinishRow(r, "result_unknown")
    BY <2>3, Typed, FinishRowStep DEF Ending, RowsKept
  <2>4. CASE exec' = [exec EXCEPT ![r].age = 0] /\ UNCHANGED turn
    BY <2>4, Typed, AgeStep
  <2>5. QED
    BY <2>1, <2>2, <2>3, <2>4 DEF RenewFails
<1>3. IInv'
  <2>. HIDE DEF c
  <2>. QED
    BY <1>1, <1>2, Typed, SamePlace, ControlUpdate DEF RenewFails
<1>4. QED
  BY <1>2, <1>3

LEMMA StartTitleStep ==
  ASSUME IInv, NEW k \in Controls, StartTitle(k)
  PROVE  IInv' /\ RowsKept
<1>. DEFINE c == [ctl[k] EXCEPT !.phase = "titling"]
<1>1. c \in CtlRecord /\ ctl' = [ctl EXCEPT ![k] = c] /\ c.phase = "titling" /\ c.lease = ctl[k].lease
  <2>1. ctl[k] \in CtlRecord /\ 0 \in 0..LeaseMs
    BY Typed, BoundAssumption
  <2>2. c \in CtlRecord /\ c.phase = "titling" /\ c.lease = ctl[k].lease
    BY <2>1 DEF CtlRecord
  <2>3. ctl' = [ctl EXCEPT ![k] = c]
    BY <2>1, Typed DEF StartTitle
  <2>4. QED
    BY <2>2, <2>3
<1>2. ctl[k].lease \in Rows
  BY DEF StartTitle, IInv, Leased, Working
<1>3. IInv'
  <2>. HIDE DEF c
  <2>. QED
    BY <1>1, <1>2, Typed, ControlUpdate DEF StartTitle, durable, Working
<1>4. QED
  BY <1>3 DEF StartTitle, durable, RowsKept, RowKeeps

\* The frame of the worker's transaction, which takes and returns the lock.
LEMMA TransactionUpdate ==
  ASSUME IInv, NEW k \in Controls, NEW c \in CtlRecord,
         c.phase \in Working => c.lease \in Rows,
         ctl' = [ctl EXCEPT ![k] = c],
         \/ writer' = None
         \/ c.phase \in Working /\ \E kind \in Kinds : writer' = <<k, kind>>,
         exec' \in [Rows -> ExecRecord], turn' \in [Turns -> TurnStates],
         op' \in [Operations -> OpRecord],
         pending' \in [Conversations -> Operations \cup {None}],
         lastWriter' \in [Conversations -> Rows \cup {None}],
         UNCHANGED <<receipt, proc, jumps>>
  PROVE  IInv'
<1>1. ctl' \in [Controls -> CtlRecord]
  BY Typed
<1>2. Leased'
  <2>. SUFFICES ASSUME NEW j \in Controls
                PROVE  /\ ctl'[j].phase \in Working => ctl'[j].lease \in Rows
                       /\ InTransaction(j)' => ctl'[j].phase \in Working
    BY DEF Leased
  <2>1. ctl'[j] = IF j = k THEN c ELSE ctl[j]
    BY Typed
  <2>2. InTransaction(j)' => j = k /\ c.phase \in Working
    BY NoneAssumption DEF InTransaction
  <2>3. QED
    BY <2>1, <2>2 DEF IInv, Leased
<1>3. writer' \in (Controls \X Kinds) \cup {None}
  OBVIOUS
<1>4. TypeOK'
  BY <1>1, <1>3 DEF IInv, TypeOK, ExecRecord, CtlRecord, OpRecord
<1>5. QED
  BY <1>2, <1>4 DEF IInv, Down

LEMMA BeginStep ==
  ASSUME IInv, NEW k \in Controls, NEW kind \in Kinds, Begin(k, kind)
  PROVE  IInv' /\ RowsKept
<1>. DEFINE c == [ctl[k] EXCEPT !.seen = FALSE]
<1>1. c \in CtlRecord /\ ctl' = [ctl EXCEPT ![k] = c]
      /\ c.phase = ctl[k].phase /\ c.lease = ctl[k].lease
  <2>1. ctl[k] \in CtlRecord /\ 0 \in 0..LeaseMs
    BY Typed, BoundAssumption
  <2>2. c \in CtlRecord /\ c.phase = ctl[k].phase /\ c.lease = ctl[k].lease
    BY <2>1 DEF CtlRecord
  <2>3. ctl' = [ctl EXCEPT ![k] = c]
    BY <2>1, Typed DEF Begin
  <2>4. QED
    BY <2>2, <2>3
<1>2. ctl[k].phase \in Working
  BY DEF Begin, MayBegin, Kinds, Working
<1>3. IInv'
  <2>. HIDE DEF c
  <2>1. /\ pending' \in [Conversations -> Operations \cup {None}]
        /\ lastWriter' \in [Conversations -> Rows \cup {None}]
    BY DEF Begin, durable, IInv, TypeOK
  <2>2. QED
    BY <1>1, <1>2, <2>1, Typed, SamePlace, TransactionUpdate DEF Begin, durable
<1>4. QED
  BY <1>3 DEF Begin, durable, RowsKept, RowKeeps

LEMMA FencedStep ==
  ASSUME IInv, NEW k \in Controls, NEW kind \in Kinds, Fenced(k, kind)
  PROVE  IInv' /\ RowsKept
<1>. DEFINE c == [ctl[k] EXCEPT !.phase = AfterTitle(k),
                    !.revoked = @ \/ kind \in {"plain", "fenced"}]
<1>1. c \in CtlRecord /\ ctl' = [ctl EXCEPT ![k] = c]
      /\ c.phase = AfterTitle(k) /\ c.lease = ctl[k].lease
  <2>1. ctl[k] \in CtlRecord /\ 0 \in 0..LeaseMs
    BY Typed, BoundAssumption
  <2>2. c \in CtlRecord /\ c.phase = AfterTitle(k) /\ c.lease = ctl[k].lease
    BY <2>1 DEF CtlRecord, AfterTitle
  <2>3. ctl' = [ctl EXCEPT ![k] = c]
    BY <2>1, Typed DEF Fenced
  <2>4. QED
    BY <2>2, <2>3
<1>2. ctl[k].lease \in Rows
  BY DEF Fenced, IInv, Leased, InTransaction
<1>3. IInv'
  <2>. HIDE DEF c
  <2>1. /\ pending' \in [Conversations -> Operations \cup {None}]
        /\ lastWriter' \in [Conversations -> Rows \cup {None}]
    BY DEF Fenced, durable, IInv, TypeOK
  <2>2. QED
    BY <1>1, <1>2, <2>1, Typed, TransactionUpdate DEF Fenced, durable
<1>4. QED
  BY <1>3 DEF Fenced, durable, RowsKept, RowKeeps

LEMMA CommitStep ==
  ASSUME IInv, NEW k \in Controls, NEW kind \in Kinds, Commit(k, kind)
  PROVE  IInv' /\ RowsKept
<1>. DEFINE c == [ctl[k] EXCEPT !.phase = AfterTitle(k)]
            r == ctl[k].lease
<1>1. c \in CtlRecord /\ ctl' = [ctl EXCEPT ![k] = c]
      /\ c.phase = AfterTitle(k) /\ c.lease = ctl[k].lease
  <2>1. ctl[k] \in CtlRecord /\ 0 \in 0..LeaseMs
    BY Typed, BoundAssumption
  <2>2. c \in CtlRecord /\ c.phase = AfterTitle(k) /\ c.lease = ctl[k].lease
    BY <2>1 DEF CtlRecord, AfterTitle
  <2>3. ctl' = [ctl EXCEPT ![k] = c]
    BY <2>1, Typed DEF Commit
  <2>4. QED
    BY <2>2, <2>3
<1>2. r \in Rows /\ r[1] \in Turns
  BY DEF Commit, IInv, Leased, InTransaction, Rows
<1>3. \/ Recovered(k, kind) = exec[r].state
      \/ exec[r].state = "running" /\ Recovered(k, kind) \in {"interrupted", "result_unknown"}
  BY DEF Recovered
<1>4. exec' \in [Rows -> ExecRecord] /\ RowsKept
  <2>1. exec' = [exec EXCEPT ![r] = InState(r, Recovered(k, kind))]
    BY DEF Commit
  <2>2. exec[r].state # "absent" => exec[r].state \in RowStates
    BY <1>2, Typed DEF ExecRecord
  <2>3. CASE Recovered(k, kind) = exec[r].state
    <3>1. InState(r, exec[r].state) \in ExecRecord
          /\ InState(r, exec[r].state).state = exec[r].state
      <4>1. 0 \in Ages /\ exec[r] \in ExecRecord
        BY <1>2, Typed, BoundAssumption DEF Ages
      <4>2. QED
        BY <4>1 DEF InState, ExecRecord
    <3>2. QED
      BY <1>2, <2>1, <2>3, <3>1, Typed DEF RowsKept, RowKeeps
  <2>4. CASE exec[r].state = "running" /\ Recovered(k, kind) \in {"interrupted", "result_unknown"}
    BY <2>1, <2>4, EndRow DEF Ending
  <2>5. QED
    BY <1>3, <2>3, <2>4
<1>5. turn' \in [Turns -> TurnStates]
  <2>1. CASE Recovered(k, kind) = exec[r].state
    BY <2>1, Typed DEF Commit
  <2>2. CASE Recovered(k, kind) \in {"interrupted", "result_unknown"}
    BY <2>2, Typed DEF Commit, TurnStateOf, TurnStates
  <2>3. QED
    BY <1>3, <2>1, <2>2
<1>6. /\ pending' \in [Conversations -> Operations \cup {None}]
      /\ op' \in [Operations -> OpRecord]
  <2>1. pending \in [Conversations -> Operations \cup {None}]
    BY DEF IInv, TypeOK
  <2>2. QED
    BY <1>2, <2>1, Typed DEF Commit, OperationEffect, OpRecord
<1>7. lastWriter' \in [Conversations -> Rows \cup {None}]
  BY <1>2 DEF Commit, IInv, TypeOK
<1>8. IInv'
  <2>. HIDE DEF c
  <2>. QED
    BY <1>1, <1>2, <1>4, <1>5, <1>6, <1>7, TransactionUpdate DEF Commit
<1>9. QED
  BY <1>4, <1>8

LEMMA InterruptStatusMeans ==
  ASSUME NEW r \in Rows, exec \in [Rows -> ExecRecord], exec[r].state # "absent"
  PROVE  /\ InterruptStatus(r) \in Statuses
         /\ InterruptStatus(r) = "stopped" => exec[r].state \in {"running", "stopped"}
         /\ InterruptStatus(r) = "result_unknown" => exec[r].state \in {"running", "result_unknown"}
<1>1. exec[r].state \in RowStates
  BY DEF ExecRecord
<1>2. CASE Active(r) \/ exec[r].state = "stopped"
  BY <1>2 DEF InterruptStatus, Statuses, Active
<1>3. CASE ~(Active(r) \/ exec[r].state = "stopped")
           /\ (exec[r].state = "result_unknown" \/ (exec[r].state = "running" /\ ~Fresh(r)))
  BY <1>3 DEF InterruptStatus, Statuses
<1>4. CASE exec[r].state \in {"waiting_confirmation", "completed", "failed", "interrupted"}
  BY <1>4 DEF InterruptStatus, Statuses, Active
<1>5. QED
  BY <1>1, <1>2, <1>3, <1>4 DEF RowStates, Active

LEMMA InterruptStep ==
  ASSUME IInv, NEW m \in Commands, NEW r \in Rows, Interrupt(m, r)
  PROVE  /\ IInv' /\ RowsKept
         /\ \A n \in Commands : n # m => receipt'[n] = receipt[n]
         /\ receipt'[m].status = "stopped" =>
              receipt'[m].target = r /\ exec'[r].state = "stopped"
<1>. DEFINE status == IF NoRowOf(r[1]) THEN "no_active_execution"
                      ELSE IF ~LatestOf(r[1], r) THEN "generation_changed"
                      ELSE InterruptStatus(r)
<1>1. /\ receipt' = [receipt EXCEPT ![m] = [status |-> status, target |-> r]]
      /\ exec' = IF status \in {"stopped", "result_unknown"}
                 THEN [exec EXCEPT ![r] = InState(r, status)] ELSE exec
  BY DEF Interrupt
<1>2. /\ status \in Statuses
      /\ status \in {"stopped", "result_unknown"} => exec[r].state \in {"running", status}
  <2>1. CASE NoRowOf(r[1]) \/ ~LatestOf(r[1], r)
    BY <2>1 DEF Statuses
  <2>2. CASE ~NoRowOf(r[1]) /\ LatestOf(r[1], r)
    <3>1. exec[r].state # "absent"
      BY <2>2 DEF LatestOf
    <3>2. status = InterruptStatus(r)
      BY <2>2
    <3>3. QED
      BY <3>1, <3>2, Typed, InterruptStatusMeans
  <2>3. QED
    BY <2>1, <2>2
<1>. HIDE DEF status
<1>3. exec' \in [Rows -> ExecRecord] /\ RowsKept
  BY <1>1, <1>2, Typed, EndRow DEF Ending, RowsKept, RowKeeps
<1>4. status = "stopped" => exec'[r].state = "stopped"
  BY <1>1, Typed, InStateType DEF RowStates
<1>5. receipt' \in [Commands -> [status : Statuses, target : Rows \cup {None}]]
  BY <1>1, <1>2 DEF IInv, TypeOK
<1>6. Leased'
  BY DEF IInv, Leased, Interrupt, InTransaction
<1>7. IInv'
  BY <1>3, <1>5, <1>6 DEF IInv, TypeOK, Down, Interrupt, ExecRecord
<1>8. /\ receipt'[m] = [status |-> status, target |-> r]
      /\ \A n \in Commands : n # m => receipt'[n] = receipt[n]
  BY <1>1 DEF IInv, TypeOK
<1>9. QED
  BY <1>3, <1>4, <1>7, <1>8

LEMMA ObserveExpiryStep ==
  ASSUME IInv, NEW r \in Rows, ObserveExpiry(r)
  PROVE  IInv' /\ RowsKept
<1>1. exec' \in [Rows -> ExecRecord] /\ RowsKept
  BY EndRow DEF ObserveExpiry, Ending
<1>2. Leased'
  BY DEF IInv, Leased, ObserveExpiry, InTransaction
<1>3. QED
  BY <1>1, <1>2 DEF IInv, TypeOK, Down, ObserveExpiry, ExecRecord

LEMMA CloseStep ==
  ASSUME IInv, Close
  PROVE  IInv' /\ RowsKept
<1>1. Leased' /\ RowsKept
  BY DEF IInv, Leased, Close, durable, InTransaction, RowsKept, RowKeeps
<1>2. TypeOK'
  BY DEF IInv, TypeOK, Close, durable
<1>3. QED
  BY <1>1, <1>2 DEF IInv, Down, Close, TypeOK

LEMMA CrashStep ==
  ASSUME IInv, Crash
  PROVE  IInv' /\ RowsKept
<1>1. \A k \in Controls : ctl'[k] \in CtlRecord /\ ctl'[k].phase \notin Working
  <2>. SUFFICES ASSUME NEW k \in Controls
                PROVE  ctl'[k] \in CtlRecord /\ ctl'[k].phase \notin Working
    OBVIOUS
  <2>1. CASE ctl[k].phase = "free"
    BY <2>1, Typed DEF Crash, Working
  <2>2. CASE ctl[k].phase # "free"
    <3>1. ctl[k].lease \in Rows \cup {None} /\ 0 \in 0..LeaseMs
      BY Typed, BoundAssumption DEF CtlRecord
    <3>2. ctl'[k] = [FreeControl EXCEPT !.phase = "dead", !.lease = ctl[k].lease]
      BY <2>2 DEF Crash
    <3>3. QED
      BY <3>1, <3>2 DEF FreeControl, CtlRecord, Working
  <2>3. QED
    BY <2>1, <2>2
<1>2. ctl' \in [Controls -> CtlRecord]
  BY <1>1 DEF Crash
<1>3. Leased'
  <2>1. \A k \in Controls, kind \in Kinds : <<k, kind>> \in Controls \X Kinds
    OBVIOUS
  <2>2. \A k \in Controls : ~InTransaction(k)'
    BY <2>1, NoneAssumption, Zenon DEF Crash, InTransaction
  <2>3. QED
    BY <1>1, <2>2 DEF Leased
<1>4. TypeOK'
  BY <1>2 DEF IInv, TypeOK, Crash, durable, CtlRecord
<1>5. RowsKept
  BY DEF Crash, durable, RowsKept, RowKeeps
<1>6. Down'
  BY DEF Crash, Down, IInv, TypeOK
<1>7. QED
  BY <1>3, <1>4, <1>5, <1>6 DEF IInv

LEMMA ReconcileStep ==
  ASSUME IInv, ReconcileRuntimeEpoch
  PROVE  IInv' /\ RowsKept
<1>1. \A q \in Rows : exec'[q] \in ExecRecord /\ RowKeeps(q)
  <2>. SUFFICES ASSUME NEW q \in Rows
                PROVE  exec'[q] \in ExecRecord /\ RowKeeps(q)
    OBVIOUS
  <2>1. exec'[q] = IF Orphaned(q) THEN InState(q, "result_unknown") ELSE exec[q]
    BY DEF ReconcileRuntimeEpoch
  <2>2. InState(q, "result_unknown") \in ExecRecord
        /\ InState(q, "result_unknown").state = "result_unknown"
    BY Typed, InStateType DEF RowStates
  <2>3. Orphaned(q) => exec[q].state = "running"
    BY DEF Orphaned
  <2>4. QED
    BY <2>1, <2>2, <2>3, Typed DEF RowKeeps, Ending
<1>2. exec' \in [Rows -> ExecRecord]
  BY <1>1 DEF ReconcileRuntimeEpoch
<1>3. turn' \in [Turns -> TurnStates]
  BY Typed DEF ReconcileRuntimeEpoch, TurnStates
<1>4. Leased'
  BY DEF IInv, Leased, ReconcileRuntimeEpoch, InTransaction
<1>5. proc' \in [up : BOOLEAN, closed : BOOLEAN, epoch : 0..MaxEpoch] /\ proc'.up
  BY BoundAssumption DEF IInv, TypeOK, Down, ReconcileRuntimeEpoch
<1>6. TypeOK'
  BY <1>2, <1>3, <1>5 DEF IInv, TypeOK, ReconcileRuntimeEpoch, ExecRecord
<1>7. QED
  BY <1>1, <1>4, <1>5, <1>6 DEF IInv, Down, RowsKept

LEMMA TickStep ==
  ASSUME IInv, Tick
  PROVE  IInv' /\ RowsKept
<1>1. \A q \in Rows : exec'[q] \in ExecRecord /\ exec'[q].state = exec[q].state
  <2>. SUFFICES ASSUME NEW q \in Rows
                PROVE  exec'[q] \in ExecRecord /\ exec'[q].state = exec[q].state
    OBVIOUS
  <2>1. CASE exec[q].state = "running" /\ exec[q].age < LeaseMs + MaxJumps
    <3>1. exec[q].age + 1 \in Ages
      BY <2>1, Typed, BoundAssumption DEF ExecRecord, Ages
    <3>2. exec'[q] = [exec[q] EXCEPT !.age = exec[q].age + 1]
      BY <2>1 DEF Tick
    <3>3. QED
      BY <3>1, <3>2, Typed DEF ExecRecord
  <2>2. CASE ~(exec[q].state = "running" /\ exec[q].age < LeaseMs + MaxJumps)
    BY <2>2, Typed DEF Tick
  <2>3. QED
    BY <2>1, <2>2
<1>2. \A k \in Controls : /\ ctl'[k] \in CtlRecord
                          /\ ctl'[k].phase = ctl[k].phase /\ ctl'[k].lease = ctl[k].lease
  <2>. SUFFICES ASSUME NEW k \in Controls
                PROVE  /\ ctl'[k] \in CtlRecord
                       /\ ctl'[k].phase = ctl[k].phase /\ ctl'[k].lease = ctl[k].lease
    OBVIOUS
  <2>1. CASE ctl[k].phase \in {"live", "finished"} /\ ctl[k].age < LeaseMs
    <3>1. ctl[k].age + 1 \in 0..LeaseMs
      BY <2>1, Typed, BoundAssumption DEF CtlRecord
    <3>2. ctl'[k] = [ctl[k] EXCEPT !.age = ctl[k].age + 1]
      BY <2>1 DEF Tick
    <3>3. QED
      BY <3>1, <3>2, Typed DEF CtlRecord
  <2>2. CASE ~(ctl[k].phase \in {"live", "finished"} /\ ctl[k].age < LeaseMs)
    BY <2>2, Typed DEF Tick
  <2>3. QED
    BY <2>1, <2>2
<1>3. exec' \in [Rows -> ExecRecord] /\ ctl' \in [Controls -> CtlRecord]
  BY <1>1, <1>2 DEF Tick
<1>4. Leased'
  BY <1>2 DEF IInv, Leased, Tick, InTransaction
<1>5. TypeOK'
  BY <1>3 DEF IInv, TypeOK, Tick, ExecRecord, CtlRecord
<1>6. QED
  BY <1>1, <1>4, <1>5 DEF IInv, Down, Tick, ClockBack, RowsKept, RowKeeps

LEMMA ClockBackStep ==
  ASSUME IInv, ClockBack
  PROVE  IInv' /\ RowsKept
<1>1. \A q \in Rows : exec'[q] \in ExecRecord /\ exec'[q].state = exec[q].state
  <2>. SUFFICES ASSUME NEW q \in Rows
                PROVE  exec'[q] \in ExecRecord /\ exec'[q].state = exec[q].state
    OBVIOUS
  <2>1. CASE exec[q].state = "running" /\ exec[q].age > -MaxJumps
    <3>1. exec[q].age - 1 \in Ages
      BY <2>1, Typed, BoundAssumption DEF ExecRecord, Ages
    <3>2. exec'[q] = [exec[q] EXCEPT !.age = exec[q].age - 1]
      BY <2>1 DEF ClockBack
    <3>3. QED
      BY <3>1, <3>2, Typed DEF ExecRecord
  <2>2. CASE ~(exec[q].state = "running" /\ exec[q].age > -MaxJumps)
    BY <2>2, Typed DEF ClockBack
  <2>3. QED
    BY <2>1, <2>2
<1>2. exec' \in [Rows -> ExecRecord]
  BY <1>1 DEF ClockBack
<1>3. jumps' \in 0..MaxJumps
  BY BoundAssumption DEF IInv, TypeOK, ClockBack
<1>4. Leased'
  BY DEF IInv, Leased, ClockBack, InTransaction
<1>5. TypeOK'
  BY <1>2, <1>3 DEF IInv, TypeOK, ClockBack, ExecRecord
<1>6. QED
  BY <1>1, <1>4, <1>5 DEF IInv, Down, Tick, ClockBack, RowsKept, RowKeeps

-----------------------------------------------------------------------------
(* The steps of the whole system. *)

LEMMA Steps ==
  ASSUME IInv, [Next]_vars
  PROVE  IInv' /\ (Claimed \/ RowsKept)
<1>1. CASE \E k \in Controls : WorkerStep(k)
  <2>. PICK k \in Controls : WorkerStep(k)
    BY <1>1
  <2>1. CASE \E s \in WorkerResults : Finish(k, s)
    BY <2>1, FinishStep, BoundAssumption DEF Ending, Results
  <2>2. CASE \E kind \in WorkerKinds : Begin(k, kind) \/ Commit(k, kind) \/ Fenced(k, kind)
    BY <2>2, BoundAssumption, BeginStep, CommitStep, FencedStep
  <2>3. QED
    BY <2>1, <2>2, AttachStep, AdmissionFailedStep, ObserveStep, MarkCompletedStep,
       StartTitleStep DEF WorkerStep
<1>2. CASE \E k \in Controls : ControlStep(k)
  BY <1>2, EndInnerStep, CloseFinishStep DEF ControlStep, RequestCancel, RequestTimeout
<1>3. CASE \E k \in Controls : HeartbeatStep(k)
  BY <1>3, RenewBeginStep, RenewSucceedsStep, RenewFailsStep DEF HeartbeatStep
<1>4. CASE \E k \in Controls : ClaimStep(k)
  BY <1>4, ClaimStartStep, OpenUnleasedStep, ClaimConfirmationStep, ClaimLateStep DEF ClaimStep
<1>5. CASE ControlPlaneStep
  BY <1>5, InterruptStep, ObserveExpiryStep, CloseStep, CrashStep, ReconcileStep
     DEF ControlPlaneStep
<1>6. CASE Tick \/ ClockBack
  BY <1>6, TickStep, ClockBackStep
<1>7. CASE UNCHANGED vars
  BY <1>7 DEF vars, IInv, TypeOK, Leased, Down, InTransaction, RowsKept, RowKeeps
<1>8. QED
  BY <1>1, <1>2, <1>3, <1>4, <1>5, <1>6, <1>7 DEF Next

LEMMA Start == Init => IInv
<1>. SUFFICES ASSUME Init PROVE IInv
  OBVIOUS
<1>1. exec \in [Rows -> ExecRecord]
  BY BoundAssumption DEF Init, ExecRecord, Ages
<1>2. FreeControl \in CtlRecord
  BY BoundAssumption DEF FreeControl, CtlRecord
<1>3. TypeOK
  BY <1>1, <1>2, BoundAssumption, ConvAssumption
     DEF Init, TypeOK, TurnStates, Statuses, ExecRecord, CtlRecord
<1>4. Leased /\ Down
  BY NoneAssumption DEF Init, Leased, Down, Working, InTransaction, FreeControl
<1>5. QED
  BY <1>3, <1>4 DEF IInv

\* The invariant that the proofs share holds in every reachable state.
THEOREM Invariance == Spec => []IInv
<1>1. IInv /\ [Next]_vars => IInv'
  BY Steps
<1>2. QED
  BY <1>1, Start, PTL DEF Spec

\* Every variable keeps its type, and with it: TypeOK of the runs.
THEOREM TypeCorrect == Spec => []TypeOK
<1>1. IInv => TypeOK
  BY DEF IInv
<1>2. QED
  BY <1>1, Invariance, PTL

-----------------------------------------------------------------------------
(* One owner. *)

\* A claim starts the only running execution of its conversation: it was
\* refused beside a valid one and ended the expired ones.
LEMMA ClaimIsAlone ==
  ASSUME IInv, SingleOwner, NEW r \in Rows, NEW e \in 0..MaxEpoch, Claim(r, e),
         NEW q \in Rows, q # r, exec'[q].state = "running"
  PROVE  exec[q].state = "running" /\ Conv(q) # Conv(r)
<1>1. exec'[q] = Release(Conv(r), q)
  BY DEF Claim
<1>2. InState(q, "result_unknown").state = "result_unknown"
  BY Typed, InStateType DEF RowStates
<1>3. exec[q].state = "running" /\ ~(Conv(q) = Conv(r) /\ ~Fresh(q))
  BY <1>1, <1>2 DEF Release
<1>4. Conv(q) = Conv(r) => ~Active(q)
  BY <1>3 DEF Claim, NoActiveIn, RowsOf
<1>5. QED
  BY <1>3, <1>4 DEF Active

LEMMA SingleOwnerStep ==
  ASSUME IInv, SingleOwner, [Next]_vars
  PROVE  SingleOwner'
<1>. SUFFICES ASSUME NEW a \in Rows, NEW b \in Rows, exec'[a].state = "running",
                     exec'[b].state = "running", Conv(a) = Conv(b)
              PROVE  a = b
  BY DEF SingleOwner, Conv
<1>1. CASE Claimed
  <2>1. PICK r \in Rows, e \in 0..MaxEpoch : Claim(r, e)
    BY <1>1 DEF Claimed
  <2>2. CASE a = r \/ b = r
    BY <2>1, <2>2, ClaimIsAlone
  <2>3. CASE a # r /\ b # r
    <3>1. exec[a].state = "running" /\ exec[b].state = "running"
      BY <2>1, <2>3, ClaimIsAlone
    <3>2. QED
      BY <3>1 DEF SingleOwner
  <2>4. QED
    BY <2>2, <2>3
<1>2. CASE RowsKept
  <2>1. exec[a].state = "running" /\ exec[b].state = "running"
    BY <1>2 DEF RowsKept, RowKeeps, Ending
  <2>2. QED
    BY <2>1 DEF SingleOwner
<1>3. QED
  BY <1>1, <1>2, Steps

\* A conversation never has two executions in state running: the claims of
\* pilot_control.py end what has expired and refuse beside what has not, and
\* nothing else starts an execution.
THEOREM OneOwner == Spec => []SingleOwner
<1>1. Init => SingleOwner
  BY DEF Init, SingleOwner
<1>2. IInv /\ SingleOwner /\ [Next]_vars => SingleOwner'
  BY SingleOwnerStep
<1>3. QED
  BY <1>1, <1>2, Invariance, PTL DEF Spec

-----------------------------------------------------------------------------
(* Results are final. *)

LEMMA EndedStays ==
  ASSUME IInv, [Next]_vars, NEW q \in Rows, exec[q].state \notin {"absent", "running"}
  PROVE  exec'[q].state = exec[q].state
<1>1. CASE Claimed
  <2>1. PICK r \in Rows, e \in 0..MaxEpoch : Claim(r, e) /\ exec[r].state = "absent"
    BY <1>1 DEF Claimed
  <2>2. exec'[q] = Release(Conv(r), q)
    BY <2>1 DEF Claim
  <2>3. QED
    BY <2>2 DEF Release
<1>2. CASE RowsKept
  BY <1>2 DEF RowsKept, RowKeeps
<1>3. QED
  BY <1>1, <1>2, Steps

\* No late finish, renewal, interrupt, expiry, reconciliation or recovery commit
\* changes the result of an execution that has ended.
THEOREM ResultsAreFinal == Spec => TerminalIsFinal
<1>1. IInv /\ [Next]_vars =>
        [\A r \in Rows : exec[r].state \notin {"absent", "running"} =>
           exec'[r].state = exec[r].state]_vars
  BY EndedStays
<1>2. QED
  BY <1>1, Invariance, PTL DEF Spec, TerminalIsFinal

-----------------------------------------------------------------------------
(* A stop is respected. *)

\* What the receipt of an interrupt command says is still true of the row.
ReceiptTruth == \A m \in Commands :
  receipt[m].status = "stopped" => /\ receipt[m].target \in Rows
                                   /\ exec[receipt[m].target].state = "stopped"

LEMMA ReceiptKept ==
  ASSUME IInv, ReceiptTruth, [Next]_vars, UNCHANGED receipt
  PROVE  ReceiptTruth'
<1>. SUFFICES ASSUME NEW m \in Commands, receipt[m].status = "stopped"
              PROVE  /\ receipt[m].target \in Rows
                     /\ exec'[receipt[m].target].state = "stopped"
  BY DEF ReceiptTruth
<1>1. receipt[m].target \in Rows /\ exec[receipt[m].target].state = "stopped"
  BY DEF ReceiptTruth
<1>2. QED
  BY <1>1, EndedStays

\* Nothing but an interrupt command writes its receipt.
LEMMA OnlyInterrupt ==
  ASSUME [Next]_vars, ~\E m \in Commands, r \in Rows : Interrupt(m, r)
  PROVE  UNCHANGED receipt
<1>1. ASSUME NEW k \in Controls, WorkerStep(k) PROVE UNCHANGED receipt
  <2>1. CASE Attach(k) \/ AdmissionFailed(k) \/ Observe(k) \/ MarkCompleted(k) \/ StartTitle(k)
    BY <2>1 DEF Attach, AdmissionFailed, Observe, MarkCompleted, StartTitle, durable
  <2>2. ASSUME NEW s, Finish(k, s) PROVE UNCHANGED receipt
    BY <2>2 DEF Finish
  <2>3. ASSUME NEW kind, Begin(k, kind) \/ Commit(k, kind) \/ Fenced(k, kind)
        PROVE  UNCHANGED receipt
    BY <2>3 DEF Begin, Commit, Fenced, durable
  <2>4. QED
    BY <1>1, <2>1, <2>2, <2>3 DEF WorkerStep
<1>2. ASSUME NEW k \in Controls, ControlStep(k) \/ HeartbeatStep(k) PROVE UNCHANGED receipt
  BY <1>2 DEF ControlStep, RequestCancel, RequestTimeout, EndInner, CloseFinish, HeartbeatStep,
     RenewBegin, RenewSucceeds, RenewFails, durable
<1>3. ASSUME NEW k \in Controls, ClaimStep(k) PROVE UNCHANGED receipt
  BY <1>3 DEF ClaimStep, ClaimStart, OpenUnleased, ClaimConfirmation, ClaimLate, durable
<1>4. CASE ControlPlaneStep
  BY <1>4 DEF ControlPlaneStep, ObserveExpiry, Close, Crash, ReconcileRuntimeEpoch, durable
<1>5. CASE Tick \/ ClockBack \/ UNCHANGED vars
  BY <1>5 DEF Tick, ClockBack, vars
<1>6. QED
  BY <1>1, <1>2, <1>3, <1>4, <1>5 DEF Next

LEMMA ReceiptStep ==
  ASSUME IInv, ReceiptTruth, [Next]_vars
  PROVE  ReceiptTruth'
<1>1. CASE \E m \in Commands, r \in Rows : Interrupt(m, r)
  <2>1. PICK m \in Commands, r \in Rows : Interrupt(m, r)
    BY <1>1
  <2>. SUFFICES ASSUME NEW n \in Commands, receipt'[n].status = "stopped"
                PROVE  /\ receipt'[n].target \in Rows
                       /\ exec'[receipt'[n].target].state = "stopped"
    BY DEF ReceiptTruth
  <2>2. CASE n = m
    BY <2>1, <2>2, InterruptStep
  <2>3. CASE n # m
    <3>1. receipt'[n] = receipt[n]
      BY <2>1, <2>3, InterruptStep
    <3>2. receipt[n].target \in Rows /\ exec[receipt[n].target].state = "stopped"
      BY <3>1 DEF ReceiptTruth
    <3>3. QED
      BY <3>1, <3>2, EndedStays
  <2>4. QED
    BY <2>2, <2>3
<1>2. CASE ~\E m \in Commands, r \in Rows : Interrupt(m, r)
  <2>1. UNCHANGED receipt
    BY <1>2, OnlyInterrupt
  <2>2. QED
    BY <2>1, ReceiptKept
<1>3. QED
  BY <1>1, <1>2

\* The fence refuses every kind of transaction of a stopped execution.
LEMMA StoppedIsFenced ==
  ASSUME NEW k \in Controls, NEW kind \in Kinds, exec[ctl[k].lease].state = "stopped"
  PROVE  ~FencePasses(k, kind)
  BY DEF FencePasses, Recovered, Active, Kinds

\* Once an interrupt was answered "stopped", no protected write of that
\* execution commits.
THEOREM StopsAreRespected == Spec => StopIsRespected
<1>1. Init => ReceiptTruth
  BY DEF Init, ReceiptTruth
<1>2. IInv /\ ReceiptTruth /\ [Next]_vars => ReceiptTruth'
  BY ReceiptStep
<1>3. IInv /\ ReceiptTruth /\ [Next]_vars =>
        [\A m \in Commands, k \in Controls, kind \in Kinds :
           Commit(k, kind) => receipt[m] # [status |-> "stopped", target |-> ctl[k].lease]]_vars
  <2>. SUFFICES ASSUME ReceiptTruth, NEW m \in Commands, NEW k \in Controls, NEW kind \in Kinds,
                       Commit(k, kind), receipt[m] = [status |-> "stopped", target |-> ctl[k].lease]
                PROVE  FALSE
    OBVIOUS
  <2>1. exec[ctl[k].lease].state = "stopped"
    BY DEF ReceiptTruth
  <2>2. QED
    BY <2>1, StoppedIsFenced DEF Commit
<1>4. QED
  BY <1>1, <1>2, <1>3, Invariance, PTL DEF Spec, StopIsRespected
=============================================================================
