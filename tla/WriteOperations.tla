-------------------------- MODULE WriteOperations --------------------------
(***************************************************************************)
(* The write-operation ledger (ai/write_operations.py) and the coordinator *)
(* that drives it for one conversation (pilot_runtime/continuation.py):    *)
(* a write the model proposes, the user's confirmation executed at most    *)
(* once, the delivery of its outcome into the conversation under a leased  *)
(* owner, the takeover of an expired delivery, and the undo.               *)
(*                                                                         *)
(* Every action that writes is one transaction (BEGIN IMMEDIATE .. COMMIT). *)
(* What a request keeps in memory between its transactions is in "request"; *)
(* a crash loses it.  The answer of a COMMIT may be lost.  The lease of a   *)
(* delivery (120 s) is live or expired, and the clock that says so may be   *)
(* set back MaxRewinds times.  How a write is computed, its fingerprints    *)
(* and the authority checks are left out: they can only make a transaction  *)
(* roll back, which Leave covers.                                           *)
(***************************************************************************)
EXTENDS Integers

CONSTANTS
  Operations,   \* the write operations of a conversation
  Requests,     \* confirmation requests served at the same time
  Approvals,    \* fingerprints of the ways to approve: as proposed, edited
  None,
  MaxRewinds    \* how often the wall clock is set back

ASSUME NoneAssumption == None \notin Operations \cup Requests
ASSUME ApprovalAssumption == "reject" \notin Approvals
ASSUME RewindAssumption == MaxRewinds \in Nat

VARIABLES
  op,       \* write_operations: the primary row of each operation
  comp,     \* status of the compensation row of each operation
  conv,     \* the conversation: pending pointer, its claim, last write, open
  request,  \* what each request holds in memory
  history,  \* by operation: domain writes, undos, bundles that were committed
  rewinds

vars == <<op, comp, conv, request, history, rewinds>>

Decisions == Approvals \cup {"reject"}
Terminal == {"committed", "failed", "rejected"}   \* _TERMINAL_STATUSES
NoOperation == [status |-> "absent", decision |-> None, undo |-> FALSE,
                delivery |-> "pending", generation |-> 0, owner |-> None,
                lease |-> "none", next |-> None]
Idle == [at |-> "idle", op |-> None, decision |-> None,
         cancelled |-> FALSE, timedOut |-> FALSE]

TypeOK ==
  /\ op \in [Operations -> [status : {"absent", "proposed"} \cup Terminal,
                            decision : Decisions \cup {None}, undo : BOOLEAN,
                            delivery : {"pending", "completed", "failed"},
                            generation : 0..2, owner : Requests \cup {None},
                            lease : {"none", "live", "expired"},
                            next : Operations \cup {None}]]
  /\ comp \in [Operations -> {"absent", "proposed", "committed", "failed"}]
  /\ conv \in [pending : Operations \cup {None}, claimed : BOOLEAN,
               lastWrite : Operations \cup {None}, open : BOOLEAN]
  /\ request \in [Requests -> [at : {"idle", "entered", "owning", "fenced"},
                               op : Operations \cup {None},
                               decision : Decisions \cup {None},
                               cancelled : BOOLEAN, timedOut : BOOLEAN]]
  /\ history \in [Operations -> [applied : Nat, undone : Nat, told : Nat]]
  /\ rewinds \in 0..MaxRewinds

Init ==
  /\ op = [o \in Operations |-> NoOperation]
  /\ comp = [o \in Operations |-> "absent"]
  /\ conv = [pending |-> None, claimed |-> FALSE, lastWrite |-> None, open |-> TRUE]
  /\ request = [q \in Requests |-> Idle]
  /\ history = [o \in Operations |-> [applied |-> 0, undone |-> 0, told |-> 0]]
  /\ rewinds = 0

-----------------------------------------------------------------------------
(* A proposal sets the conversation's pointer and the row in one             *)
(* transaction (persist_pending_action, create_primary).                     *)

Proposed == [NoOperation EXCEPT !.status = "proposed"]

Propose(o) ==
  /\ conv.open /\ conv.pending = None /\ ~conv.claimed
  /\ op[o].status = "absent"
  /\ op' = [op EXCEPT ![o] = Proposed]
  /\ conv' = [conv EXCEPT !.pending = o]
  /\ UNCHANGED <<comp, request, history, rewinds>>

-----------------------------------------------------------------------------
(* A confirmation request, up to its transaction. *)

\* The pointer names o, nobody has claimed it, and o is not decided: the
\* condition of the first read, and again of the claim inside the transaction.
Claimable_Unclaimed(o) == op[o].status # "absent" /\ conv.pending = o  \* mutant: a claimed one too
Claimable(o) ==
  /\ conv.open /\ conv.pending = o /\ ~conv.claimed
  /\ op[o].status = "proposed"

Begin(q, o, d) ==
  /\ request[q].at = "idle" /\ Claimable(o)
  /\ request' = [request EXCEPT ![q] = [Idle EXCEPT !.at = "entered", !.op = o,
                                                    !.decision = d]]
  /\ UNCHANGED <<op, comp, conv, history, rewinds>>

\* Past its last look at the flags the executor cannot be stopped; it learns of
\* a cancellation when it wants to keep the ownership, of a timeout at COMMIT.
Cancel(q) ==
  /\ request[q].at = "entered" /\ ~request[q].cancelled
  /\ request' = [request EXCEPT ![q].cancelled = TRUE]
  /\ UNCHANGED <<op, comp, conv, history, rewinds>>

TimeOut(q) ==
  /\ request[q].at = "entered" /\ ~request[q].timedOut /\ ~request[q].cancelled
  /\ request' = [request EXCEPT ![q].timedOut = TRUE]
  /\ UNCHANGED <<op, comp, conv, history, rewinds>>

\* The request ends and has written nothing: it was refused, was answered from
\* the ledger, was cancelled while it owned a delivery, lost its fence, found the
\* bundle there, or its transaction was rolled back.
Leave(q) ==
  /\ request[q].at # "idle"
  /\ request' = [request EXCEPT ![q] = Idle]
  /\ UNCHANGED <<op, comp, conv, history, rewinds>>

-----------------------------------------------------------------------------
(* Deciding: execute_primary and reject_primary. *)

\* The terminal row, with its delivery pending and owned (_set_terminal).
Decided(q, status, undo) ==
  [Proposed EXCEPT !.status = status, !.decision = request[q].decision,
                   !.undo = undo, !.generation = 1, !.owner = q, !.lease = "live"]

\* The row once its bundle is in the conversation (complete_delivery).
Delivered(row, how, next) ==
  [row EXCEPT !.delivery = how, !.owner = None, !.lease = "none", !.next = next]

\* A timed-out request that is still active has its outcome delivered inside the
\* transaction of the write itself (_AtomicTimeoutDelivery).
AtCommit(q) == request[q].timedOut /\ ~request[q].cancelled

\* That delivery replaces the undo pointer, or leaves it alone.
LastWriteAtCommit(o, undo) == IF undo THEN o ELSE conv.lastWrite

\* Nothing of a domain write that failed survives its savepoint.
Written(o, status) ==
  IF status = "committed" THEN [history[o] EXCEPT !.applied = @ + 1] ELSE history[o]

\* COMMIT of the write, or of its failure.  If the answer is lost the request
\* reads the ledger and goes: its delivery has no owner left.
Execute(q, status, undo, answered) ==
  LET o == request[q].op
      row == Decided(q, status, undo)
      written == Written(o, status)
  IN  /\ request[q].at = "entered" /\ request[q].decision \in Approvals
      /\ Claimable(o)
      /\ undo => status = "committed"
      /\ IF AtCommit(q)
         THEN /\ op' = [op EXCEPT ![o] = Delivered(row, "completed", None)]
              /\ conv' = [conv EXCEPT !.pending = None,
                                      !.lastWrite = LastWriteAtCommit(o, undo)]
              /\ history' = [history EXCEPT ![o] = [written EXCEPT !.told = @ + 1]]
         ELSE /\ op' = [op EXCEPT ![o] = row]
              /\ conv' = [conv EXCEPT !.claimed = TRUE]
              /\ history' = [history EXCEPT ![o] = written]
      /\ request' = [request EXCEPT ![q] =
                       IF answered /\ ~AtCommit(q) /\ ~@.cancelled
                       THEN [@ EXCEPT !.at = "owning"] ELSE Idle]
      /\ UNCHANGED <<comp, rewinds>>

\* A rejection decides and delivers in one transaction, and keeps the undo.
Reject(q) ==
  LET o == request[q].op
  IN  /\ request[q].at = "entered" /\ request[q].decision = "reject"
      /\ Claimable(o)
      /\ op' = [op EXCEPT ![o] = Delivered(Decided(q, "rejected", FALSE), "completed", None)]
      /\ conv' = [conv EXCEPT !.pending = None]
      /\ history' = [history EXCEPT ![o].told = @ + 1]
      /\ request' = [request EXCEPT ![q] = Idle]
      /\ UNCHANGED <<comp, rewinds>>

-----------------------------------------------------------------------------
(* Delivery by the owner: the fence, then the transaction that adds the      *)
(* messages, closes the delivery and moves the pointers.                     *)

Holds(q, o) ==
  /\ op[o].delivery = "pending" /\ op[o].generation = 1
  /\ op[o].owner = q /\ op[o].lease = "live"

Fence(q) ==
  /\ request[q].at = "owning" /\ Holds(q, request[q].op)
  /\ request' = [request EXCEPT ![q].at = "fenced"]
  /\ UNCHANGED <<op, comp, conv, history, rewinds>>

\* A write with an undo becomes the last write; any other one clears it.
LastWrite_Any(o) == o   \* mutant: an undo is offered of whatever was delivered
LastWrite(o) == IF op[o].undo THEN o ELSE None

\* The bundle may end in the proposal of the next write, its row and the
\* pointer to it included (chained_pending).
Deliver(q, how, next) ==
  LET o == request[q].op
  IN  /\ request[q].at = "fenced" /\ Holds(q, o)
      /\ conv.open /\ conv.pending = o /\ conv.claimed
      /\ next # None => how = "completed" /\ next # o /\ op[next].status = "absent"
      /\ op' = [x \in Operations |-> IF x = o THEN Delivered(op[o], how, next)
                                     ELSE IF x = next THEN Proposed ELSE op[x]]
      /\ conv' = [conv EXCEPT !.pending = next, !.claimed = FALSE,
                              !.lastWrite = LastWrite(o)]
      /\ history' = [history EXCEPT ![o].told = @ + 1]
      /\ request' = [request EXCEPT ![q] = Idle]
      /\ UNCHANGED <<comp, rewinds>>

-----------------------------------------------------------------------------
(* A delivery nobody finished: a client that repeats its confirmation after  *)
(* the lease has run out takes it over (converge_expired_delivery).          *)

Expire(o) ==
  /\ op[o].lease = "live"
  /\ op' = [op EXCEPT ![o].lease = "expired"]
  /\ UNCHANGED <<comp, conv, request, history, rewinds>>

Rewind(o) ==
  /\ op[o].lease = "expired" /\ rewinds < MaxRewinds
  /\ op' = [op EXCEPT ![o].lease = "live"]
  /\ rewinds' = rewinds + 1
  /\ UNCHANGED <<comp, conv, request, history>>

Abandoned_Never(o) == FALSE   \* mutant: the takeover is never due
Abandoned_Live(o) ==          \* mutant: it does not look at the lease
  op[o].status \in Terminal /\ op[o].delivery = "pending"
Abandoned_Delivered(o) ==     \* mutant: nor at the delivery
  op[o].status \in Terminal /\ op[o].lease # "live"
Abandoned(o) ==
  /\ op[o].status \in Terminal /\ op[o].delivery = "pending"
  /\ op[o].lease = "expired" /\ history[o].told = 0

TakenOver(row) == Delivered([row EXCEPT !.generation = @ + 1], "failed", None)

Converge(o) ==
  /\ conv.open /\ Abandoned(o)
  /\ op' = [op EXCEPT ![o] = TakenOver(op[o])]
  /\ conv' = IF conv.pending = o
             THEN [conv EXCEPT !.pending = None, !.claimed = FALSE,
                               !.lastWrite = LastWrite(o)]
             ELSE conv
  /\ history' = [history EXCEPT ![o].told = @ + 1]
  /\ UNCHANGED <<comp, request, rewinds>>

-----------------------------------------------------------------------------
(* Undo (execute_compensation): the deterministic row first, in a            *)
(* transaction of its own, then the reversal with its terminal status.       *)

Undoable(o) == op[o].status = "committed" /\ op[o].undo

ProposeUndo(o) ==
  /\ conv.open /\ Undoable(o) /\ comp[o] = "absent"
  /\ comp' = [comp EXCEPT ![o] = "proposed"]
  /\ UNCHANGED <<op, conv, request, history, rewinds>>

\* A compensation that is terminal is answered from the ledger.
UndoDue_Again(o) == comp[o] # "absent"   \* mutant: it is run again
UndoDue(o) == comp[o] = "proposed"

Undo(o) ==
  /\ conv.open /\ Undoable(o) /\ UndoDue(o)
  /\ comp' = [comp EXCEPT ![o] = "committed"]
  /\ history' = [history EXCEPT ![o].undone = @ + 1]
  /\ conv' = [conv EXCEPT !.lastWrite = IF @ = o THEN None ELSE @]
  /\ UNCHANGED <<op, request, rewinds>>

\* The record has changed since: the compensation fails for good.
UndoConflict(o) ==
  /\ conv.open /\ Undoable(o) /\ UndoDue(o)
  /\ comp' = [comp EXCEPT ![o] = "failed"]
  /\ UNCHANGED <<op, conv, request, history, rewinds>>

-----------------------------------------------------------------------------
(* The conversation and the process. *)

\* The ledger's rows stay, without a conversation.
Delete ==
  /\ conv.open
  /\ conv' = [pending |-> None, claimed |-> FALSE, lastWrite |-> None, open |-> FALSE]
  /\ UNCHANGED <<op, comp, request, history, rewinds>>

Crash ==
  /\ \E q \in Requests : request[q].at # "idle"
  /\ request' = [q \in Requests |-> Idle]
  /\ UNCHANGED <<op, comp, conv, history, rewinds>>

RequestStep(q) ==
  \/ \E o \in Operations, d \in Decisions : Begin(q, o, d)
  \/ Cancel(q) \/ TimeOut(q) \/ Leave(q)
  \/ \E status \in {"committed", "failed"}, undo, answered \in BOOLEAN :
       Execute(q, status, undo, answered)
  \/ Reject(q)
  \/ Fence(q)
  \/ \E how \in {"completed", "failed"}, next \in Operations \cup {None} :
       Deliver(q, how, next)

OperationStep(o) ==
  \/ Propose(o)
  \/ Expire(o) \/ Rewind(o) \/ Converge(o)
  \/ ProposeUndo(o) \/ Undo(o) \/ UndoConflict(o)

Next ==
  \/ \E q \in Requests : RequestStep(q)
  \/ \E o \in Operations : OperationStep(o)
  \/ Delete \/ Crash

\* Time passes, and an owner's renewals end with its request, which has a
\* deadline; the client repeats a confirmation it has no outcome for.
Fairness == \A o \in Operations : WF_vars(Expire(o)) /\ WF_vars(Converge(o))

Spec == Init /\ [][Next]_vars
FairSpec == Spec /\ Fairness

-----------------------------------------------------------------------------
(* Properties. *)

\* Whatever is retried, lost or crashes, a confirmed write is in the database
\* exactly once when the ledger says it was committed and not at all when it says
\* anything else; and it is reversed once, when its compensation was committed.
AppliedOnce ==
  \A o \in Operations :
    /\ history[o].applied = IF op[o].status = "committed" THEN 1 ELSE 0
    /\ history[o].undone = IF comp[o] = "committed" THEN 1 ELSE 0
    /\ history[o].undone <= history[o].applied

\* The conversation has one bundle of messages about an operation exactly when
\* its delivery is over, whichever of the owner, the takeover, the rejection and
\* the timed-out commit delivered it; a late owner adds none.
ToldOnce ==
  \A o \in Operations :
    history[o].told = IF op[o].delivery = "pending" THEN 0 ELSE 1

\* The pending pointer and the ledger never disagree: the card on screen is the
\* one operation that waits for a decision or for its delivery, it reads as
\* claimed only when it is decided, and there is no second one without a card.
PointerConsistent ==
  conv.open =>
    /\ \A o \in Operations :
         conv.pending = o <=> \/ op[o].status = "proposed"
                              \/ op[o].status \in Terminal /\ op[o].delivery = "pending"
    /\ conv.claimed <=> conv.pending # None /\ op[conv.pending].status \in Terminal

\* The undo offered to the user is of a write that was committed, has an undo and
\* has been told; never of one that failed, was rejected or is still in the air.
UndoOffered ==
  conv.lastWrite # None =>
    /\ Undoable(conv.lastWrite)
    /\ op[conv.lastWrite].delivery # "pending"

\* A decision is final and a delivery that is over stays as it was; until then its
\* generation never goes back, and a takeover is the only step that raises it.
TerminalFrozen ==
  [][\A o \in Operations : op[o].status \in Terminal =>
       /\ op'[o].status = op[o].status /\ op'[o].decision = op[o].decision
       /\ op'[o].undo = op[o].undo
       /\ op[o].delivery # "pending" => op'[o] = op[o]
       /\ op'[o].generation # op[o].generation => op[o].lease = "expired"]_vars

\* A delivery ends: an approved write with an undo becomes the one the user may
\* undo, and one without it clears the offer of an earlier write, as the comment
\* in _hydrate_terminal_undo has it.
DeliverySettlesUndo ==
  [][\A o \in Operations :
       (op'[o].delivery # "pending" /\ op[o].delivery = "pending"
          /\ op'[o].status \in {"committed", "failed"})
       => conv'.lastWrite = IF op'[o].undo THEN o ELSE None]_vars

\* A decided write is told in the end, unless its conversation is deleted, though
\* its owner may crash, lose the answer of its COMMIT or be cancelled.
DeliveryConverges ==
  \A o \in Operations :
    op[o].status \in Terminal ~> (op[o].delivery # "pending" \/ ~conv.open)

-----------------------------------------------------------------------------
(* Refinement. *)

Fate(o) ==
  CASE op[o].status = "absent" -> "unasked"
    [] op[o].status = "proposed" -> "asked"
    [] op[o].status = "committed" -> "done"
    [] OTHER -> "not_done"

Promise == INSTANCE ConfirmedOnce WITH
  fate <- [o \in Operations |-> Fate(o)],
  told <- {o \in Operations : history[o].told > 0},
  undone <- {o \in Operations : history[o].undone > 0},
  open <- conv.open

\* The ledger, with its transactions, its leases and its failures, does no more
\* than ask, decide, tell and take back one write after the other, each once.
PromiseKept == Promise!Spec
=============================================================================
