----------------------- MODULE WriteOperations_proofs -----------------------
(***************************************************************************)
(* Proofs about WriteOperations, for every set of operations, requests and *)
(* approvals and every bound on backward clock steps.                      *)
(***************************************************************************)
EXTENDS WriteOperations, TLAPS

-----------------------------------------------------------------------------
(* The inductive invariant. *)

Row == [status : {"absent", "proposed"} \cup Terminal,
        decision : Decisions \cup {None}, undo : BOOLEAN,
        delivery : {"pending", "completed", "failed"},
        generation : 0..2, owner : Requests \cup {None},
        lease : {"none", "live", "expired"}, next : Operations \cup {None}]
Comp == {"absent", "proposed", "committed", "failed"}
Past == [applied : Nat, undone : Nat, told : Nat]
Pointers == [pending : Operations \cup {None}, claimed : BOOLEAN,
             lastWrite : Operations \cup {None}, open : BOOLEAN]
Memory == [at : {"idle", "entered", "owning", "fenced"}, op : Operations \cup {None},
           decision : Decisions \cup {None}, cancelled : BOOLEAN, timedOut : BOOLEAN]

\* What an operation's row, its compensation and its past say of each other.
Tale(row, c, h) ==
  /\ row.status \notin Terminal => /\ row.delivery = "pending" /\ row.generation = 0
                                   /\ row.lease = "none" /\ ~row.undo
  /\ row.status \in Terminal /\ row.delivery = "pending" => row.generation = 1
  /\ row.delivery # "pending" => row.lease = "none"
  /\ row.undo => row.status = "committed"
  /\ c # "absent" => row.status = "committed" /\ row.undo
  /\ h.applied = IF row.status = "committed" THEN 1 ELSE 0
  /\ h.undone = IF c = "committed" THEN 1 ELSE 0
  /\ h.told = IF row.delivery = "pending" THEN 0 ELSE 1

Tales == \A o \in Operations : Tale(op[o], comp[o], history[o])

\* A request that is at work has an operation and a decision.
Engaged == \A q \in Requests : request[q].at # "idle" =>
             request[q].op \in Operations /\ request[q].decision \in Decisions

IInv == TypeOK /\ Tales /\ Engaged /\ PointerConsistent /\ UndoOffered

\* The operation that the conversation is about, by its row.
Waiting(row) == \/ row.status = "proposed"
                \/ row.status \in Terminal /\ row.delivery = "pending"

LEMMA Typed ==
  TypeOK <=> /\ op \in [Operations -> Row] /\ comp \in [Operations -> Comp]
             /\ conv \in Pointers /\ request \in [Requests -> Memory]
             /\ history \in [Operations -> Past] /\ rewinds \in 0..MaxRewinds
  BY DEF TypeOK, Row, Comp, Past, Pointers, Memory

LEMMA TypedNext ==
  TypeOK' <=> /\ op' \in [Operations -> Row] /\ comp' \in [Operations -> Comp]
              /\ conv' \in Pointers /\ request' \in [Requests -> Memory]
              /\ history' \in [Operations -> Past] /\ rewinds' \in 0..MaxRewinds
  BY DEF TypeOK, Row, Comp, Past, Pointers, Memory

-----------------------------------------------------------------------------
(* Steps that only a request remembers. *)

LEMMA MemoryOnly ==
  ASSUME IInv, UNCHANGED <<op, comp, conv, history>>, rewinds' \in 0..MaxRewinds,
         request' \in [Requests -> Memory], Engaged'
  PROVE  IInv'
<1>1. TypeOK'
  BY Typed, TypedNext DEF IInv
<1>2. Tales' /\ PointerConsistent' /\ UndoOffered'
  BY DEF IInv, Tales, PointerConsistent, UndoOffered, Undoable
<1>3. QED
  BY <1>1, <1>2 DEF IInv

\* One request changes what it remembers.
LEMMA Remembers ==
  ASSUME IInv, NEW q \in Requests, NEW m \in Memory,
         m.at # "idle" => m.op \in Operations /\ m.decision \in Decisions,
         request' = [request EXCEPT ![q] = m]
  PROVE  request' \in [Requests -> Memory] /\ Engaged'
<1>1. request \in [Requests -> Memory]
  BY Typed DEF IInv
<1>2. request' \in [Requests -> Memory]
  BY <1>1
<1>3. \A p \in Requests : request'[p] = IF p = q THEN m ELSE request[p]
  BY <1>1
<1>4. QED
  BY <1>2, <1>3 DEF IInv, Engaged

LEMMA IdleMemory == Idle \in Memory /\ Idle.at = "idle"
  BY DEF Idle, Memory

LEMMA RequestSteps ==
  ASSUME IInv, NEW q \in Requests,
         \/ \E o \in Operations, d \in Decisions : Begin(q, o, d)
         \/ Cancel(q) \/ TimeOut(q) \/ Leave(q) \/ Fence(q)
  PROVE  IInv'
<1>0. request[q] \in Memory /\ rewinds \in 0..MaxRewinds
  BY Typed DEF IInv
<1>1. request[q].at # "idle" => request[q].op \in Operations /\ request[q].decision \in Decisions
  BY DEF IInv, Engaged
<1>2. ASSUME NEW o \in Operations, NEW d \in Decisions, Begin(q, o, d)
      PROVE  IInv'
  <2>. DEFINE m == [Idle EXCEPT !.at = "entered", !.op = o, !.decision = d]
  <2>1. m \in Memory /\ m.op \in Operations /\ m.decision \in Decisions
    BY DEF Idle, Memory
  <2>2. request' = [request EXCEPT ![q] = m]
    BY <1>2 DEF Begin
  <2>3. QED
    BY <1>0, <1>2, <2>1, <2>2, MemoryOnly, Remembers DEF Begin
<1>3. CASE Cancel(q)
  <2>. DEFINE m == [request[q] EXCEPT !.cancelled = TRUE]
  <2>1. m \in Memory /\ m.at = request[q].at /\ m.op = request[q].op
        /\ m.decision = request[q].decision
    BY <1>0 DEF Memory
  <2>2. request' = [request EXCEPT ![q] = m]
    BY <1>3 DEF Cancel
  <2>3. QED
    BY <1>0, <1>1, <1>3, <2>1, <2>2, MemoryOnly, Remembers DEF Cancel
<1>4. CASE TimeOut(q)
  <2>. DEFINE m == [request[q] EXCEPT !.timedOut = TRUE]
  <2>1. m \in Memory /\ m.at = request[q].at /\ m.op = request[q].op
        /\ m.decision = request[q].decision
    BY <1>0 DEF Memory
  <2>2. request' = [request EXCEPT ![q] = m]
    BY <1>4 DEF TimeOut
  <2>3. QED
    BY <1>0, <1>1, <1>4, <2>1, <2>2, MemoryOnly, Remembers DEF TimeOut
<1>5. CASE Leave(q)
  BY <1>0, <1>5, IdleMemory, MemoryOnly, Remembers DEF Leave
<1>6. CASE Fence(q)
  <2>. DEFINE m == [request[q] EXCEPT !.at = "fenced"]
  <2>1. m \in Memory /\ m.op = request[q].op /\ m.decision = request[q].decision
    BY <1>0 DEF Memory
  <2>2. request' = [request EXCEPT ![q] = m] /\ request[q].at # "idle"
    BY <1>6 DEF Fence
  <2>3. QED
    BY <1>0, <1>1, <1>6, <2>1, <2>2, MemoryOnly, Remembers DEF Fence
<1>7. QED
  BY <1>2, <1>3, <1>4, <1>5, <1>6

LEMMA CrashStep == ASSUME IInv, Crash PROVE IInv'
<1>1. request' \in [Requests -> Memory] /\ Engaged'
  BY IdleMemory DEF Crash, Engaged
<1>2. QED
  BY <1>1, MemoryOnly, Typed DEF IInv, Crash

-----------------------------------------------------------------------------
(* Steps that change the record of one operation. *)

LEMMA OneTale ==
  ASSUME IInv, NEW o \in Operations, NEW row \in Row, NEW c \in Comp, NEW h \in Past,
         Tale(row, c, h),
         op' = [op EXCEPT ![o] = row], comp' = [comp EXCEPT ![o] = c],
         history' = [history EXCEPT ![o] = h]
  PROVE  /\ op' \in [Operations -> Row] /\ comp' \in [Operations -> Comp]
         /\ history' \in [Operations -> Past] /\ Tales'
         /\ \A x \in Operations : op'[x] = IF x = o THEN row ELSE op[x]
<1>1. /\ op \in [Operations -> Row] /\ comp \in [Operations -> Comp]
      /\ history \in [Operations -> Past]
  BY Typed DEF IInv
<1>2. \A x \in Operations : /\ op'[x] = IF x = o THEN row ELSE op[x]
                            /\ comp'[x] = IF x = o THEN c ELSE comp[x]
                            /\ history'[x] = IF x = o THEN h ELSE history[x]
  BY <1>1
<1>3. Tales'
  BY <1>2 DEF IInv, Tales
<1>4. QED
  BY <1>1, <1>2, <1>3

-----------------------------------------------------------------------------
(* The rows the actions write. *)

LEMMA ProposedRow ==
  Proposed \in Row /\ Proposed.status = "proposed" /\ Proposed.delivery = "pending"
<1>1. NoOperation \in Row
  BY DEF NoOperation, Row
<1>2. Proposed \in Row
  BY <1>1 DEF Proposed, Row
<1>3. QED
  BY <1>2 DEF Proposed, NoOperation

LEMMA DecidedRow ==
  ASSUME NEW q \in Requests, request[q].decision \in Decisions,
         NEW status \in Terminal, NEW undo \in BOOLEAN
  PROVE  LET row == Decided(q, status, undo)
         IN  /\ row \in Row /\ row.status = status /\ (row.undo <=> undo)
             /\ row.delivery = "pending" /\ row.generation = 1
<1>. DEFINE row1 == [Proposed EXCEPT !.status = status, !.decision = request[q].decision,
                                     !.undo = undo]
            row2 == [row1 EXCEPT !.generation = 1]
            row3 == [row2 EXCEPT !.owner = q, !.lease = "live"]
<1>1. row1 \in Row /\ row1.status = status /\ (row1.undo <=> undo) /\ row1.delivery = "pending"
  BY ProposedRow DEF Row
<1>. HIDE DEF row1
<1>2. row2 \in Row /\ row2.status = status /\ (row2.undo <=> undo) /\ row2.delivery = "pending"
      /\ row2.generation = 1
  BY <1>1 DEF Row
<1>. HIDE DEF row2
<1>3. row3 \in Row /\ row3.status = status /\ (row3.undo <=> undo) /\ row3.delivery = "pending"
      /\ row3.generation = 1
  BY <1>2 DEF Row
<1>4. Decided(q, status, undo) = row3
  BY DEF Decided, row1, row2
<1>5. QED
  BY <1>3, <1>4

LEMMA DeliveredRow ==
  ASSUME NEW row \in Row, NEW how \in {"completed", "failed"}, NEW next \in Operations \cup {None}
  PROVE  LET new == Delivered(row, how, next)
         IN  /\ new \in Row /\ new.status = row.status /\ (new.undo <=> row.undo)
             /\ new.generation = row.generation /\ new.delivery = how
             /\ new.lease = "none"
<1>1. Delivered(row, how, next) \in Row
  BY DEF Delivered, Row
<1>2. QED
  BY <1>1 DEF Delivered, Row

-----------------------------------------------------------------------------
(* The pointers. *)

\* The pointers agree with the records when the operation they are about is the only
\* one that waits, and the write on offer may be undone.
Pointed == \A o \in Operations : conv.pending = o <=> Waiting(op[o])
Claim == conv.claimed <=> conv.pending # None /\ op[conv.pending].status \in Terminal
Offer == conv.lastWrite # None => Undoable(conv.lastWrite) /\ op[conv.lastWrite].delivery # "pending"

LEMMA PointerParts ==
  /\ PointerConsistent <=> (conv.open => Pointed /\ Claim)
  /\ UndoOffered <=> Offer
  BY DEF PointerConsistent, Pointed, Claim, Waiting, UndoOffered, Offer

LEMMA PointerPartsNext ==
  /\ PointerConsistent' <=> (conv'.open => Pointed' /\ Claim')
  /\ UndoOffered' <=> Offer'
  BY DEF PointerConsistent, Pointed, Claim, Waiting, UndoOffered, Offer, Undoable

\* Only o changes, it no longer waits, or goes on to, and nothing else does.
LEMMA StillPointed ==
  ASSUME NEW o \in Operations, NEW row,
         \A x \in Operations : op'[x] = IF x = o THEN row ELSE op[x],
         Pointed, Waiting(row) <=> Waiting(op[o]), conv'.pending = conv.pending
  PROVE  Pointed'
  BY DEF Pointed, Waiting

LEMMA NoLongerPointed ==
  ASSUME NEW o \in Operations, NEW row,
         \A x \in Operations : op'[x] = IF x = o THEN row ELSE op[x],
         Pointed, conv.pending = o, ~Waiting(row), conv'.pending = None
  PROVE  Pointed'
  BY NoneAssumption DEF Pointed, Waiting

\* The write on offer is not one whose delivery is pending.
LEMMA StillOffered ==
  ASSUME NEW o \in Operations, NEW row,
         \A x \in Operations : op'[x] = IF x = o THEN row ELSE op[x],
         Offer, op[o].delivery = "pending", conv.lastWrite \in Operations \cup {None},
         conv'.lastWrite = conv.lastWrite
  PROVE  Offer'
  BY DEF Offer, Undoable

LEMMA ProposeStep ==
  ASSUME IInv, NEW o \in Operations, Propose(o)
  PROVE  IInv'
<1>1. /\ op \in [Operations -> Row] /\ comp \in [Operations -> Comp] /\ conv \in Pointers
      /\ history \in [Operations -> Past] /\ op[o].status = "absent"
      /\ Tale(op[o], comp[o], history[o])
  BY Typed DEF IInv, Propose, Tales
<1>2. Proposed \in Row /\ Proposed.status = "proposed" /\ Waiting(Proposed)
  BY ProposedRow DEF Waiting
<1>3. Tale(Proposed, comp[o], history[o])
  BY <1>1 DEF Tale, Proposed, NoOperation, Terminal
<1>4. /\ op' = [op EXCEPT ![o] = Proposed] /\ conv' = [conv EXCEPT !.pending = o]
      /\ comp' = [comp EXCEPT ![o] = comp[o]] /\ history' = [history EXCEPT ![o] = history[o]]
      /\ UNCHANGED <<request, rewinds>>
  BY <1>1 DEF Propose
<1>5. /\ op' \in [Operations -> Row] /\ comp' \in [Operations -> Comp]
      /\ history' \in [Operations -> Past] /\ Tales'
      /\ \A x \in Operations : op'[x] = IF x = o THEN Proposed ELSE op[x]
  BY <1>1, <1>2, <1>3, <1>4, OneTale
<1>6. /\ conv' \in Pointers /\ conv'.pending = o /\ conv'.claimed = conv.claimed
      /\ conv'.lastWrite = conv.lastWrite /\ ~conv.claimed /\ conv.open /\ conv.pending = None
  BY <1>1, <1>4 DEF Pointers, Propose
<1>7. Pointed' /\ Claim'
  <2>1. \A x \in Operations : ~Waiting(op[x])
    BY <1>6, NoneAssumption, PointerParts DEF IInv, Pointed
  <2>2. Pointed'
    BY <1>2, <1>5, <1>6, <2>1 DEF Pointed, Waiting
  <2>3. Claim'
    BY <1>2, <1>5, <1>6 DEF Claim, Terminal
  <2>4. QED
    BY <2>2, <2>3
<1>8. Offer'
  BY <1>1, <1>5, <1>6, StillOffered, PointerParts DEF IInv, Pointers, Tale, Terminal
<1>9. TypeOK' /\ Engaged'
  BY <1>4, <1>5, <1>6, Typed, TypedNext DEF IInv, Engaged
<1>10. QED
  BY <1>5, <1>7, <1>8, <1>9, PointerPartsNext DEF IInv

\* A step that changes one operation keeps the invariant when its new record tells a
\* tale of its own and the pointers agree with it.
LEMMA OneOperation ==
  ASSUME IInv, NEW o \in Operations, NEW row \in Row, NEW c \in Comp, NEW h \in Past,
         Tale(row, c, h),
         op' = [op EXCEPT ![o] = row], comp' = [comp EXCEPT ![o] = c],
         history' = [history EXCEPT ![o] = h],
         conv' \in Pointers, request' \in [Requests -> Memory], rewinds' \in 0..MaxRewinds,
         Engaged', Pointed', Claim', Offer'
  PROVE  IInv'
<1>1. /\ op' \in [Operations -> Row] /\ comp' \in [Operations -> Comp]
      /\ history' \in [Operations -> Past] /\ Tales'
  BY OneTale
<1>2. TypeOK'
  BY <1>1, TypedNext
<1>3. QED
  BY <1>1, <1>2, PointerPartsNext DEF IInv

\* A request that ends forgets.
LEMMA Forgets ==
  ASSUME IInv, NEW q \in Requests, request' = [request EXCEPT ![q] = Idle]
  PROVE  request' \in [Requests -> Memory] /\ Engaged'
  BY IdleMemory, Remembers

\* What holds of an operation in a conversation that is open.
LEMMA Parts ==
  ASSUME IInv, NEW o \in Operations
  PROVE  /\ op[o] \in Row /\ comp[o] \in Comp /\ history[o] \in Past /\ conv \in Pointers
         /\ op \in [Operations -> Row] /\ comp \in [Operations -> Comp]
         /\ history \in [Operations -> Past]
         /\ rewinds \in 0..MaxRewinds /\ request \in [Requests -> Memory]
         /\ Tale(op[o], comp[o], history[o]) /\ Offer /\ Engaged
         /\ conv.open => Pointed /\ Claim
  BY Typed, PointerParts DEF IInv, Tales

-----------------------------------------------------------------------------
(* The decision. *)

\* What a request that may still decide finds.
LEMMA Undecided ==
  ASSUME IInv, NEW q \in Requests, NEW o, o = request[q].op,
         request[q].at = "entered", Claimable(o)
  PROVE  /\ o \in Operations /\ request[q].decision \in Decisions
         /\ op[o].status = "proposed" /\ op[o].delivery = "pending"
         /\ conv.open /\ conv.pending = o /\ ~conv.claimed
         /\ history[o].applied = 0 /\ history[o].undone = 0
         /\ history[o].told = 0 /\ comp[o] = "absent"
<1>1. o \in Operations /\ request[q].decision \in Decisions
  BY DEF IInv, Engaged
<1>2. conv.open /\ conv.pending = o /\ ~conv.claimed /\ op[o].status = "proposed"
  BY DEF Claimable
<1>3. Tale(op[o], comp[o], history[o])
  BY <1>1, Parts
<1>4. /\ op[o].delivery = "pending" /\ history[o].applied = 0
      /\ history[o].told = 0 /\ comp[o] = "absent"
  BY <1>2, <1>3 DEF Tale, Terminal
<1>5. history[o].undone = 0
  BY <1>3, <1>4 DEF Tale
<1>6. QED
  BY <1>1, <1>2, <1>4, <1>5

\* The decision is told with it: a rejection, or a write that timed out.
LEMMA DecidedAndTold ==
  ASSUME IInv, NEW q \in Requests, NEW o, o = request[q].op,
         request[q].at = "entered", Claimable(o),
         NEW status \in Terminal, NEW undo \in BOOLEAN, undo => status = "committed",
         NEW h \in Past, h.applied = IF status = "committed" THEN 1 ELSE 0,
         h.undone = 0, h.told = 1,
         op' = [op EXCEPT ![o] =
                  Delivered(Decided(q, status, undo), "completed", None)],
         conv' = [conv EXCEPT !.pending = None,
                              !.lastWrite = LastWriteAtCommit(o, undo)],
         history' = [history EXCEPT ![o] = h],
         request' = [request EXCEPT ![q] = Idle], UNCHANGED <<comp, rewinds>>
  PROVE  IInv'
<1>. DEFINE row == Delivered(Decided(q, status, undo), "completed", None)
<1>1. /\ o \in Operations /\ request[q].decision \in Decisions
      /\ op[o].status = "proposed" /\ op[o].delivery = "pending" /\ comp[o] = "absent"
      /\ conv.open /\ conv.pending = o /\ ~conv.claimed
  BY Undecided
<1>2. /\ row \in Row /\ row.status = status /\ (row.undo <=> undo)
      /\ row.delivery = "completed" /\ row.lease = "none"
  BY <1>1, DecidedRow, DeliveredRow
<1>3. Tale(row, comp[o], h)
  BY <1>1, <1>2 DEF Tale
<1>4. op' = [op EXCEPT ![o] = row] /\ history' = [history EXCEPT ![o] = h]
      /\ comp' = [comp EXCEPT ![o] = comp[o]]
  BY <1>1, Parts
<1>. HIDE DEF row
<1>5. \A x \in Operations : op'[x] = IF x = o THEN row ELSE op[x]
  BY <1>1, <1>4, Parts
<1>6. /\ conv' \in Pointers /\ conv'.pending = None /\ conv'.claimed = FALSE
      /\ conv'.lastWrite = IF undo THEN o ELSE conv.lastWrite
  BY <1>1, Parts DEF Pointers, LastWriteAtCommit
<1>7. Pointed' /\ Claim'
  <2>1. ~Waiting(row)
    BY <1>2 DEF Waiting, Terminal
  <2>2. Pointed
    BY <1>1, Parts
  <2>3. Pointed'
    BY <1>1, <1>5, <1>6, <2>1, <2>2, NoLongerPointed
  <2>4. QED
    BY <1>6, <2>3 DEF Claim
<1>8. Offer'
  <2>1. CASE undo
    <3>1. status = "committed" /\ conv'.lastWrite = o
      BY <1>6, <2>1
    <3>2. op'[o].status = "committed" /\ op'[o].undo /\ op'[o].delivery # "pending"
      BY <1>1, <1>2, <1>5, <2>1, <3>1
    <3>3. QED
      BY <3>1, <3>2 DEF Offer, Undoable
  <2>2. CASE ~undo
    <3>1. Offer /\ conv.lastWrite \in Operations \cup {None}
      BY <1>1, Parts DEF Pointers
    <3>2. conv'.lastWrite = conv.lastWrite
      BY <1>6, <2>2
    <3>3. QED
      BY <1>1, <1>5, <3>1, <3>2, StillOffered
  <2>3. QED
    BY <2>1, <2>2
<1>9. comp[o] \in Comp /\ rewinds' \in 0..MaxRewinds
  BY <1>1, Parts
<1>10. request' \in [Requests -> Memory] /\ Engaged'
  BY Forgets
<1>11. QED
  BY <1>1, <1>2, <1>3, <1>4, <1>6, <1>7, <1>8, <1>9, <1>10, OneOperation

\* The decision is taken, and its delivery has an owner.
LEMMA DecidedOnly ==
  ASSUME IInv, NEW q \in Requests, NEW o, o = request[q].op,
         request[q].at = "entered", Claimable(o),
         NEW status \in Terminal, NEW undo \in BOOLEAN, undo => status = "committed",
         NEW h \in Past, h.applied = IF status = "committed" THEN 1 ELSE 0,
         h.undone = 0, h.told = 0,
         op' = [op EXCEPT ![o] = Decided(q, status, undo)],
         conv' = [conv EXCEPT !.claimed = TRUE],
         history' = [history EXCEPT ![o] = h],
         request' \in [Requests -> Memory], Engaged', UNCHANGED <<comp, rewinds>>
  PROVE  IInv'
<1>. DEFINE row == Decided(q, status, undo)
<1>1. /\ o \in Operations /\ request[q].decision \in Decisions
      /\ op[o].status = "proposed" /\ op[o].delivery = "pending" /\ comp[o] = "absent"
      /\ conv.open /\ conv.pending = o /\ ~conv.claimed
  BY Undecided
<1>2. /\ row \in Row /\ row.status = status /\ (row.undo <=> undo)
      /\ row.delivery = "pending" /\ row.generation = 1
  BY <1>1, DecidedRow
<1>3. Tale(row, comp[o], h)
  BY <1>1, <1>2 DEF Tale
<1>4. op' = [op EXCEPT ![o] = row] /\ comp' = [comp EXCEPT ![o] = comp[o]]
  BY <1>1, Parts
<1>. HIDE DEF row
<1>5. \A x \in Operations : op'[x] = IF x = o THEN row ELSE op[x]
  BY <1>1, <1>4, Parts
<1>6. /\ conv' \in Pointers /\ conv'.pending = o /\ conv'.claimed = TRUE
      /\ conv'.lastWrite = conv.lastWrite
  BY <1>1, Parts DEF Pointers
<1>7. Pointed' /\ Claim'
  <2>1. Waiting(row) /\ Waiting(op[o])
    BY <1>1, <1>2 DEF Waiting
  <2>2. Pointed
    BY <1>1, Parts
  <2>3. Pointed'
    BY <1>1, <1>5, <1>6, <2>1, <2>2, StillPointed
  <2>4. op'[o].status \in Terminal /\ o # None
    BY <1>1, <1>2, <1>5, NoneAssumption
  <2>5. QED
    BY <1>6, <2>3, <2>4 DEF Claim
<1>8. Offer'
  <2>1. Offer /\ conv.lastWrite \in Operations \cup {None}
    BY <1>1, Parts DEF Pointers
  <2>2. QED
    BY <1>1, <1>5, <1>6, <2>1, StillOffered
<1>9. comp[o] \in Comp /\ rewinds' \in 0..MaxRewinds
  BY <1>1, Parts
<1>10. QED
  BY <1>1, <1>2, <1>3, <1>4, <1>6, <1>7, <1>8, <1>9, OneOperation

\* The past of an operation after its write, and after it has been told.
LEMMA WrittenPast ==
  ASSUME NEW o \in Operations, history[o] \in Past, history[o].applied = 0,
         history[o].undone = 0, history[o].told = 0, NEW status
  PROVE  /\ Written(o, status) \in Past
         /\ Written(o, status).applied = IF status = "committed" THEN 1 ELSE 0
         /\ Written(o, status).undone = 0 /\ Written(o, status).told = 0
  BY DEF Written, Past

LEMMA ToldPast ==
  ASSUME NEW h \in Past, h.told = 0
  PROVE  LET new == [h EXCEPT !.told = @ + 1]
         IN  new \in Past /\ new.applied = h.applied /\ new.undone = h.undone /\ new.told = 1
  BY DEF Past

LEMMA ExecuteStep ==
  ASSUME IInv, NEW q \in Requests, NEW status \in {"committed", "failed"},
         NEW undo \in BOOLEAN, NEW answered \in BOOLEAN, Execute(q, status, undo, answered)
  PROVE  IInv'
<1>. DEFINE o == request[q].op
            h == Written(o, status)
            told == [h EXCEPT !.told = @ + 1]
<1>1. /\ request[q].at = "entered" /\ Claimable(o) /\ (undo => status = "committed")
      /\ UNCHANGED <<comp, rewinds>> /\ status \in Terminal
  BY DEF Execute, Terminal
<1>2. /\ o \in Operations /\ request[q].decision \in Decisions
      /\ history[o] \in Past /\ history[o].applied = 0 /\ history[o].undone = 0
      /\ history[o].told = 0
  BY <1>1, Undecided, Parts
<1>3. /\ h \in Past /\ h.applied = IF status = "committed" THEN 1 ELSE 0
      /\ h.undone = 0 /\ h.told = 0
  BY <1>2, WrittenPast
<1>4. CASE AtCommit(q)
  <2>1. /\ op' = [op EXCEPT ![o] = Delivered(Decided(q, status, undo), "completed", None)]
        /\ conv' = [conv EXCEPT !.pending = None, !.lastWrite = LastWriteAtCommit(o, undo)]
        /\ history' = [history EXCEPT ![o] = told]
        /\ request' = [request EXCEPT ![q] = Idle]
    BY <1>4 DEF Execute
  <2>. HIDE DEF o, h
  <2>2. told \in Past /\ told.applied = h.applied /\ told.undone = 0 /\ told.told = 1
    BY <1>3, ToldPast
  <2>. HIDE DEF told
  <2>3. QED
    BY <1>1, <1>3, <2>1, <2>2, DecidedAndTold DEF o
<1>5. CASE ~AtCommit(q)
  <2>. DEFINE m == IF answered /\ ~request[q].cancelled
                   THEN [request[q] EXCEPT !.at = "owning"] ELSE Idle
  <2>1. /\ op' = [op EXCEPT ![o] = Decided(q, status, undo)]
        /\ conv' = [conv EXCEPT !.claimed = TRUE]
        /\ history' = [history EXCEPT ![o] = h]
        /\ request' = [request EXCEPT ![q] = m]
    BY <1>5 DEF Execute
  <2>2. m \in Memory /\ (m.at # "idle" => m.op \in Operations /\ m.decision \in Decisions)
    <3>1. request[q] \in Memory
      BY <1>2, Parts
    <3>2. QED
      BY <1>2, <3>1, IdleMemory DEF Memory
  <2>. HIDE DEF o, h, m
  <2>3. request' \in [Requests -> Memory] /\ Engaged'
    BY <2>1, <2>2, Remembers
  <2>4. QED
    BY <1>1, <1>3, <2>1, <2>3, DecidedOnly DEF o
<1>6. QED
  BY <1>4, <1>5

LEMMA RejectStep ==
  ASSUME IInv, NEW q \in Requests, Reject(q)
  PROVE  IInv'
<1>. DEFINE o == request[q].op
            told == [history[o] EXCEPT !.told = @ + 1]
<1>1. /\ request[q].at = "entered" /\ Claimable(o) /\ UNCHANGED <<comp, rewinds>>
      /\ request' = [request EXCEPT ![q] = Idle]
      /\ op' = [op EXCEPT ![o] = Delivered(Decided(q, "rejected", FALSE), "completed", None)]
      /\ conv' = [conv EXCEPT !.pending = None]
  BY DEF Reject
<1>2. /\ o \in Operations /\ history[o] \in Past /\ history[o].applied = 0
      /\ history[o].undone = 0 /\ history[o].told = 0 /\ conv \in Pointers
      /\ history \in [Operations -> Past]
  BY <1>1, Undecided, Parts
<1>3. /\ told \in Past /\ told.applied = IF "rejected" = "committed" THEN 1 ELSE 0
      /\ told.undone = 0 /\ told.told = 1
  BY <1>2, ToldPast
<1>4. history' = [history EXCEPT ![o] = told]
  BY <1>2 DEF Reject
<1>5. conv' = [conv EXCEPT !.pending = None, !.lastWrite = LastWriteAtCommit(o, FALSE)]
  BY <1>1, <1>2 DEF LastWriteAtCommit, Pointers
<1>6. "rejected" \in Terminal /\ FALSE \in BOOLEAN
  BY DEF Terminal
<1>. HIDE DEF o, told
<1>7. QED
  BY <1>1, <1>3, <1>4, <1>5, <1>6, DecidedAndTold DEF o

-----------------------------------------------------------------------------
(* The delivery. *)

\* The tale of a decided operation that is now told, and of the next proposal.
LEMMA ToldTale ==
  ASSUME NEW row, NEW c, NEW h, NEW new, NEW told, Tale(row, c, h), row.status \in Terminal,
         new.status = row.status, new.undo <=> row.undo, new.lease = "none",
         new.delivery \in {"completed", "failed"},
         told.applied = h.applied, told.undone = h.undone, told.told = 1
  PROVE  Tale(new, c, told)
  BY DEF Tale

LEMMA ProposedTale ==
  ASSUME NEW row, NEW c, NEW h, Tale(row, c, h), row.status = "absent"
  PROVE  Tale(Proposed, c, h)
  BY DEF Tale, Proposed, NoOperation, Terminal

LEMMA DeliverStep ==
  ASSUME IInv, NEW q \in Requests, NEW how \in {"completed", "failed"},
         NEW next \in Operations \cup {None}, Deliver(q, how, next)
  PROVE  IInv'
<1>. DEFINE o == request[q].op
            row == Delivered(op[o], how, next)
            told == [history[o] EXCEPT !.told = @ + 1]
<1>1. /\ request[q].at = "fenced" /\ op[o].delivery = "pending" /\ conv.open
      /\ conv.pending = o /\ conv.claimed
      /\ next # None => next # o /\ op[next].status = "absent"
      /\ op' = [x \in Operations |-> IF x = o THEN row
                                     ELSE IF x = next THEN Proposed ELSE op[x]]
      /\ conv' = [conv EXCEPT !.pending = next, !.claimed = FALSE, !.lastWrite = LastWrite(o)]
      /\ request' = [request EXCEPT ![q] = Idle] /\ UNCHANGED <<comp, rewinds>>
  BY DEF Deliver, Holds
<1>2. o \in Operations
  BY <1>1 DEF IInv, Engaged
<1>3. history' = [history EXCEPT ![o] = told]
  BY <1>2, Parts DEF Deliver
<1>. HIDE DEF o
<1>4. /\ op[o].status \in Terminal /\ o # None /\ Pointed
      /\ Tale(op[o], comp[o], history[o]) /\ history[o].told = 0
      /\ op[o] \in Row /\ history[o] \in Past
  BY <1>1, <1>2, Parts, NoneAssumption DEF Claim, Tale
<1>5. /\ row \in Row /\ row.status = op[o].status /\ (row.undo <=> op[o].undo)
      /\ row.delivery = how /\ row.lease = "none"
  BY <1>4, DeliveredRow
<1>6. told \in Past /\ told.applied = history[o].applied /\ told.undone = history[o].undone
      /\ told.told = 1
  BY <1>4, ToldPast
<1>. HIDE DEF row, told
<1>7. Tale(row, comp[o], told)
  BY <1>4, <1>5, <1>6, ToldTale
<1>8. \A x \in Operations : op[x].status = "absent" => Tale(Proposed, comp[x], history[x])
  BY Parts, ProposedTale
<1>9. /\ op' \in [Operations -> Row] /\ history' \in [Operations -> Past]
      /\ comp' \in [Operations -> Comp]
  BY <1>1, <1>2, <1>3, <1>5, <1>6, Parts, ProposedRow
<1>10. \A x \in Operations : /\ op'[x] = IF x = o THEN row ELSE IF x = next THEN Proposed ELSE op[x]
                             /\ history'[x] = IF x = o THEN told ELSE history[x]
                             /\ comp'[x] = comp[x]
  BY <1>1, <1>3, <1>2, Parts
<1>11. Tales'
  <2>1. ASSUME NEW x \in Operations PROVE Tale(op'[x], comp'[x], history'[x])
    <3>1. CASE x = o
      BY <1>7, <1>10, <3>1
    <3>2. CASE x # o /\ x = next
      BY <1>1, <1>8, <1>10, <3>2, NoneAssumption
    <3>3. CASE x # o /\ x # next
      BY <1>10, <3>3, Parts
    <3>4. QED
      BY <3>1, <3>2, <3>3
  <2>2. QED
    BY <2>1 DEF Tales
<1>12. /\ conv' \in Pointers /\ conv'.pending = next /\ conv'.claimed = FALSE
       /\ conv'.lastWrite = LastWrite(o)
  BY <1>1, <1>2, Parts DEF Pointers, LastWrite
<1>13. Pointed'
  <2>1. ~Waiting(row)
    BY <1>4, <1>5 DEF Waiting, Terminal
  <2>2. Waiting(Proposed)
    BY ProposedRow DEF Waiting
  <2>3. ASSUME NEW x \in Operations PROVE next = x <=> Waiting(op'[x])
    <3>1. CASE x = o
      BY <1>1, <1>10, <2>1, <3>1, NoneAssumption
    <3>2. CASE x # o /\ x = next
      BY <1>10, <2>2, <3>2
    <3>3. CASE x # o /\ x # next
      BY <1>1, <1>4, <1>10, <3>3 DEF Pointed
    <3>4. QED
      BY <3>1, <3>2, <3>3
  <2>4. QED
    BY <1>12, <2>3 DEF Pointed, Waiting
<1>14. Claim'
  <2>1. next # None => op'[next].status \notin Terminal
    BY <1>1, <1>10, ProposedRow DEF Terminal
  <2>2. QED
    BY <1>12, <2>1 DEF Claim
<1>15. Offer'
  <2>1. CASE op[o].undo
    <3>1. conv'.lastWrite = o /\ op[o].status = "committed"
      BY <1>4, <1>12, <2>1 DEF LastWrite, Tale
    <3>2. op'[o].status = "committed" /\ op'[o].undo /\ op'[o].delivery # "pending"
      BY <1>2, <1>5, <1>10, <2>1, <3>1
    <3>3. QED
      BY <3>1, <3>2 DEF Offer, Undoable
  <2>2. CASE ~op[o].undo
    BY <1>12, <2>2 DEF Offer, LastWrite
  <2>3. QED
    BY <2>1, <2>2
<1>16. request' \in [Requests -> Memory] /\ Engaged' /\ rewinds' \in 0..MaxRewinds
  BY <1>1, <1>2, Forgets, Parts
<1>17. TypeOK'
  BY <1>9, <1>12, <1>16, TypedNext
<1>18. QED
  BY <1>11, <1>13, <1>14, <1>15, <1>16, <1>17, PointerPartsNext DEF IInv

\* The clock changes the lease of a delivery that is pending, and nothing else.
LEMMA LeaseStep ==
  ASSUME IInv, NEW o \in Operations, NEW lease \in {"live", "expired"},
         op[o].lease # "none", op' = [op EXCEPT ![o].lease = lease],
         UNCHANGED <<comp, conv, request, history>>, rewinds' \in 0..MaxRewinds
  PROVE  IInv'
<1>. DEFINE row == [op[o] EXCEPT !.lease = lease]
<1>1. /\ op[o] \in Row /\ op[o].delivery = "pending" /\ op[o].status \in Terminal
      /\ Tale(op[o], comp[o], history[o]) /\ comp[o] \in Comp /\ history[o] \in Past
  BY Parts DEF Tale
<1>2. /\ row \in Row /\ row.status = op[o].status /\ (row.undo <=> op[o].undo)
      /\ row.delivery = op[o].delivery /\ row.generation = op[o].generation
  BY <1>1 DEF Row
<1>3. op' = [op EXCEPT ![o] = row]
  OBVIOUS
<1>. HIDE DEF row
<1>4. Tale(row, comp[o], history[o])
  BY <1>1, <1>2 DEF Tale
<1>5. conv' \in Pointers /\ request' \in [Requests -> Memory] /\ Engaged'
  BY Parts DEF Engaged
<1>6. \A x \in Operations : op'[x] = IF x = o THEN row ELSE op[x]
  BY <1>3, Parts
<1>7. Offer'
  <2>1. Offer /\ conv.lastWrite \in Operations \cup {None}
    BY Parts DEF Pointers
  <2>2. QED
    BY <1>1, <1>6, <2>1, StillOffered
<1>8. conv.open => Pointed' /\ Claim'
  <2>1. Waiting(row) <=> Waiting(op[o])
    BY <1>2 DEF Waiting
  <2>2. SUFFICES ASSUME conv.open PROVE Pointed' /\ Claim'
    OBVIOUS
  <2>3. Pointed /\ Claim /\ conv.pending \in Operations \cup {None}
    BY <2>2, Parts DEF Pointers
  <2>4. QED
    BY <1>2, <1>6, <2>1, <2>3, StillPointed DEF Claim
<1>9. /\ op' \in [Operations -> Row] /\ comp' \in [Operations -> Comp]
      /\ history' \in [Operations -> Past] /\ Tales'
  <2>1. op' \in [Operations -> Row]
    BY <1>2, <1>3, Parts
  <2>2. comp' \in [Operations -> Comp] /\ history' \in [Operations -> Past]
    BY Parts
  <2>3. Tales'
    BY <1>4, <1>6 DEF IInv, Tales
  <2>4. QED
    BY <2>1, <2>2, <2>3
<1>10. QED
  BY <1>5, <1>7, <1>8, <1>9, TypedNext, PointerPartsNext DEF IInv

LEMMA ExpireStep == ASSUME IInv, NEW o \in Operations, Expire(o) PROVE IInv'
<1>1. rewinds' \in 0..MaxRewinds
  BY Parts DEF Expire
<1>2. QED
  BY <1>1, LeaseStep DEF Expire

LEMMA RewindStep == ASSUME IInv, NEW o \in Operations, Rewind(o) PROVE IInv'
<1>1. rewinds' \in 0..MaxRewinds
  BY Parts, RewindAssumption DEF Rewind
<1>2. QED
  BY <1>1, LeaseStep DEF Rewind

LEMMA ConvergeStep ==
  ASSUME IInv, NEW o \in Operations, Converge(o)
  PROVE  IInv'
<1>. DEFINE raised == [op[o] EXCEPT !.generation = @ + 1]
            row == Delivered(raised, "failed", None)
            told == [history[o] EXCEPT !.told = @ + 1]
<1>0. history' = [history EXCEPT ![o] = told] /\ op' = [op EXCEPT ![o] = row]
  BY DEF Converge, TakenOver
<1>1. /\ conv.open /\ op[o].status \in Terminal /\ op[o].delivery = "pending"
      /\ UNCHANGED <<comp, request, rewinds>>
  BY DEF Converge, Abandoned
<1>2. /\ op[o] \in Row /\ history[o] \in Past /\ Tale(op[o], comp[o], history[o])
      /\ op[o].generation = 1 /\ history[o].told = 0 /\ conv \in Pointers
      /\ comp[o] \in Comp /\ Pointed
  BY <1>1, Parts DEF Tale
<1>3. /\ raised \in Row /\ raised.status = op[o].status /\ (raised.undo <=> op[o].undo)
  BY <1>2 DEF Row
<1>4. /\ row \in Row /\ row.status = op[o].status /\ (row.undo <=> op[o].undo)
      /\ row.delivery = "failed" /\ row.lease = "none"
  <2>. HIDE DEF raised
  <2>1. QED
    BY <1>3, DeliveredRow
<1>5. told \in Past /\ told.applied = history[o].applied /\ told.undone = history[o].undone
      /\ told.told = 1
  BY <1>2, ToldPast
<1>. HIDE DEF row, told
<1>6. Tale(row, comp[o], told)
  BY <1>1, <1>2, <1>4, <1>5, ToldTale
<1>7. conv.pending = o
  BY <1>1, <1>2 DEF Pointed, Waiting
<1>8. /\ conv' \in Pointers /\ conv'.pending = None /\ conv'.claimed = FALSE
      /\ conv'.lastWrite = LastWrite(o)
  BY <1>2, <1>7 DEF Converge, Pointers, LastWrite
<1>9. comp' = [comp EXCEPT ![o] = comp[o]]
  BY <1>1, Parts
<1>10. \A x \in Operations : op'[x] = IF x = o THEN row ELSE op[x]
  BY <1>0, Parts
<1>11. Pointed' /\ Claim'
  <2>1. ~Waiting(row)
    BY <1>1, <1>4 DEF Waiting, Terminal
  <2>2. Pointed'
    BY <1>2, <1>7, <1>8, <1>10, <2>1, NoLongerPointed
  <2>3. QED
    BY <1>8, <2>2 DEF Claim
<1>12. Offer'
  <2>1. CASE op[o].undo
    <3>1. conv'.lastWrite = o /\ op[o].status = "committed"
      BY <1>2, <1>8, <2>1 DEF LastWrite, Tale
    <3>2. op'[o].status = "committed" /\ op'[o].undo /\ op'[o].delivery # "pending"
      BY <1>4, <1>10, <2>1, <3>1
    <3>3. QED
      BY <3>1, <3>2 DEF Offer, Undoable
  <2>2. CASE ~op[o].undo
    BY <1>8, <2>2 DEF Offer, LastWrite
  <2>3. QED
    BY <2>1, <2>2
<1>13. request' \in [Requests -> Memory] /\ Engaged' /\ rewinds' \in 0..MaxRewinds
  BY <1>1, Parts DEF Engaged
<1>14. QED
  BY <1>0, <1>2, <1>4, <1>5, <1>6, <1>8, <1>9, <1>11, <1>12, <1>13, OneOperation

-----------------------------------------------------------------------------
(* The undo, and the end of the conversation. *)

\* A step that changes no primary row, and no pointer but the write on offer.
LEMMA CompensationStep ==
  ASSUME IInv, NEW o \in Operations, NEW c \in Comp, NEW h \in Past, Tale(op[o], c, h),
         comp' = [comp EXCEPT ![o] = c], history' = [history EXCEPT ![o] = h],
         conv' \in Pointers, conv'.pending = conv.pending, conv'.claimed = conv.claimed,
         conv'.lastWrite \in {conv.lastWrite, None}, conv.open,
         UNCHANGED <<op, request, rewinds>>
  PROVE  IInv'
<1>1. /\ op[o] \in Row /\ op \in [Operations -> Row] /\ request \in [Requests -> Memory]
      /\ rewinds \in 0..MaxRewinds /\ Engaged /\ Pointed /\ Claim /\ Offer
  BY Parts
<1>2. op' = [op EXCEPT ![o] = op[o]]
  BY <1>1
<1>3. Pointed' /\ Claim' /\ Engaged'
  BY <1>1 DEF Pointed, Claim, Engaged
<1>4. Offer'
  BY <1>1 DEF Offer, Undoable
<1>5. QED
  BY <1>1, <1>2, <1>3, <1>4, OneOperation

LEMMA ProposeUndoStep == ASSUME IInv, NEW o \in Operations, ProposeUndo(o) PROVE IInv'
<1>1. /\ Tale(op[o], comp[o], history[o]) /\ history[o] \in Past /\ conv \in Pointers
      /\ history \in [Operations -> Past]
  BY Parts
<1>2. /\ conv.open /\ Undoable(o) /\ comp[o] = "absent"
      /\ comp' = [comp EXCEPT ![o] = "proposed"] /\ UNCHANGED <<op, conv, request, history, rewinds>>
  BY DEF ProposeUndo
<1>3. "proposed" \in Comp /\ Tale(op[o], "proposed", history[o])
  BY <1>1, <1>2 DEF Tale, Undoable, Comp
<1>4. history' = [history EXCEPT ![o] = history[o]]
  BY <1>1, <1>2
<1>5. QED
  BY <1>1, <1>2, <1>3, <1>4, CompensationStep

LEMMA UndoConflictStep == ASSUME IInv, NEW o \in Operations, UndoConflict(o) PROVE IInv'
<1>1. /\ Tale(op[o], comp[o], history[o]) /\ history[o] \in Past /\ conv \in Pointers
      /\ history \in [Operations -> Past]
  BY Parts
<1>2. /\ conv.open /\ Undoable(o) /\ comp[o] = "proposed"
      /\ comp' = [comp EXCEPT ![o] = "failed"] /\ UNCHANGED <<op, conv, request, history, rewinds>>
  BY DEF UndoConflict, UndoDue
<1>3. "failed" \in Comp /\ Tale(op[o], "failed", history[o])
  BY <1>1, <1>2 DEF Tale, Undoable, Comp
<1>4. history' = [history EXCEPT ![o] = history[o]]
  BY <1>1, <1>2
<1>5. QED
  BY <1>1, <1>2, <1>3, <1>4, CompensationStep

LEMMA UndoStep == ASSUME IInv, NEW o \in Operations, Undo(o) PROVE IInv'
<1>. DEFINE h == [history[o] EXCEPT !.undone = @ + 1]
<1>1. /\ Tale(op[o], comp[o], history[o]) /\ history[o] \in Past /\ conv \in Pointers
      /\ history \in [Operations -> Past]
  BY Parts
<1>2. /\ conv.open /\ Undoable(o) /\ comp[o] = "proposed"
      /\ comp' = [comp EXCEPT ![o] = "committed"] /\ UNCHANGED <<op, request, rewinds>>
      /\ conv' = [conv EXCEPT !.lastWrite = IF conv.lastWrite = o THEN None ELSE conv.lastWrite]
      /\ history' = [history EXCEPT ![o] = h]
  BY <1>1 DEF Undo, UndoDue
<1>3. h \in Past /\ h.applied = history[o].applied /\ h.undone = 1 /\ h.told = history[o].told
  BY <1>1, <1>2 DEF Past, Tale
<1>. HIDE DEF h
<1>4. "committed" \in Comp /\ Tale(op[o], "committed", h)
  BY <1>1, <1>2, <1>3 DEF Tale, Undoable, Comp
<1>5. /\ conv' \in Pointers /\ conv'.pending = conv.pending /\ conv'.claimed = conv.claimed
      /\ conv'.lastWrite \in {conv.lastWrite, None}
  BY <1>1, <1>2 DEF Pointers
<1>6. QED
  BY <1>2, <1>3, <1>4, <1>5, CompensationStep

LEMMA DeleteStep == ASSUME IInv, Delete PROVE IInv'
<1>1. /\ conv' \in Pointers /\ conv'.open = FALSE /\ conv'.lastWrite = None
      /\ UNCHANGED <<op, comp, request, history, rewinds>>
  BY DEF Delete, Pointers
<1>2. TypeOK'
  BY <1>1, Typed, TypedNext DEF IInv
<1>3. Tales' /\ Engaged'
  BY <1>1 DEF IInv, Tales, Engaged
<1>4. PointerConsistent' /\ UndoOffered'
  BY <1>1, PointerPartsNext DEF Offer
<1>5. QED
  BY <1>2, <1>3, <1>4 DEF IInv

-----------------------------------------------------------------------------
(* Every behaviour. *)

LEMMA Initially == Init => IInv
<1>. SUFFICES ASSUME Init PROVE IInv
  OBVIOUS
<1>1. NoOperation \in Row /\ Idle \in Memory /\ Idle.at = "idle"
  BY IdleMemory DEF NoOperation, Row
<1>2. TypeOK
  BY <1>1, Typed, RewindAssumption DEF Init, Comp, Past, Pointers
<1>3. Tales /\ Engaged
  BY <1>1 DEF Init, Tales, Engaged, Tale, NoOperation, Terminal
<1>4. PointerConsistent /\ UndoOffered
  BY NoneAssumption DEF Init, PointerConsistent, UndoOffered, NoOperation, Terminal
<1>5. QED
  BY <1>2, <1>3, <1>4 DEF IInv

LEMMA NextStep == IInv /\ [Next]_vars => IInv'
<1>. SUFFICES ASSUME IInv, [Next]_vars PROVE IInv'
  OBVIOUS
<1>1. ASSUME NEW q \in Requests, RequestStep(q) PROVE IInv'
  <2>1. CASE \/ \E o \in Operations, d \in Decisions : Begin(q, o, d)
             \/ Cancel(q) \/ TimeOut(q) \/ Leave(q) \/ Fence(q)
    BY <2>1, RequestSteps
  <2>2. CASE \E status \in {"committed", "failed"}, undo, answered \in BOOLEAN :
               Execute(q, status, undo, answered)
    BY <2>2, ExecuteStep
  <2>3. CASE Reject(q)
    BY <2>3, RejectStep
  <2>4. CASE \E how \in {"completed", "failed"}, next \in Operations \cup {None} :
               Deliver(q, how, next)
    BY <2>4, DeliverStep
  <2>5. QED
    BY <1>1, <2>1, <2>2, <2>3, <2>4 DEF RequestStep
<1>2. ASSUME NEW o \in Operations, OperationStep(o) PROVE IInv'
  BY <1>2, ProposeStep, ExpireStep, RewindStep, ConvergeStep, ProposeUndoStep, UndoStep,
     UndoConflictStep DEF OperationStep
<1>3. CASE UNCHANGED vars
  BY <1>3, MemoryOnly, Typed DEF vars, IInv, Engaged
<1>4. QED
  BY <1>1, <1>2, <1>3, CrashStep, DeleteStep DEF Next

\* The invariant holds throughout: no interleaving of requests, takeovers, undos,
\* crashes and lost answers brings the rows, the pointers and the past apart.
THEOREM Invariance == Spec => []IInv
  BY Initially, NextStep, PTL DEF Spec

\* Every variable keeps its type.
THEOREM TypeCorrect == Spec => []TypeOK
<1>1. IInv => TypeOK
  BY DEF IInv
<1>2. QED
  BY <1>1, Invariance, PTL

\* A confirmed write is in the database once when the ledger says so, and not at all
\* otherwise, however often it is confirmed, retried or lost.
THEOREM WritesAppliedOnce == Spec => []AppliedOnce
<1>1. IInv => AppliedOnce
  <2>. SUFFICES ASSUME IInv, NEW o \in Operations
                PROVE  /\ history[o].applied = IF op[o].status = "committed" THEN 1 ELSE 0
                       /\ history[o].undone = IF comp[o] = "committed" THEN 1 ELSE 0
                       /\ history[o].undone <= history[o].applied
    BY DEF AppliedOnce
  <2>1. Tale(op[o], comp[o], history[o])
    BY Parts
  <2>2. QED
    BY <2>1 DEF Tale
<1>2. QED
  BY <1>1, Invariance, PTL

\* The conversation is told of a write exactly when its delivery is over, and once.
THEOREM OutcomesToldOnce == Spec => []ToldOnce
<1>1. IInv => ToldOnce
  BY Parts DEF ToldOnce, Tale
<1>2. QED
  BY <1>1, Invariance, PTL

\* The card on screen is the one write that waits for a decision or a delivery.
THEOREM PointersAgree == Spec => []PointerConsistent
<1>1. IInv => PointerConsistent
  BY DEF IInv
<1>2. QED
  BY <1>1, Invariance, PTL

\* The undo on offer is of a committed write that has been told and has an undo.
THEOREM UndoOffersHold == Spec => []UndoOffered
<1>1. IInv => UndoOffered
  BY DEF IInv
<1>2. QED
  BY <1>1, Invariance, PTL

-----------------------------------------------------------------------------
(* What no step does to a decided row. *)

Kept(row, new) ==
  /\ new.status = row.status /\ new.decision = row.decision /\ new.undo = row.undo
  /\ row.delivery # "pending" => new = row
  /\ new.generation # row.generation => row.lease = "expired"

\* A delivery that ends keeps the decision, and its generation.
LEMMA DeliveredKeeps ==
  ASSUME NEW row \in Row, row.delivery = "pending", NEW how, NEW next
  PROVE  Kept(row, Delivered(row, how, next))
  BY DEF Kept, Delivered, Row

LEMMA TakenOverKeeps ==
  ASSUME NEW row \in Row, row.delivery = "pending", row.lease = "expired"
  PROVE  Kept(row, TakenOver(row))
<1>. DEFINE raised == [row EXCEPT !.generation = @ + 1]
<1>1. /\ raised.status = row.status /\ raised.decision = row.decision
      /\ raised.undo = row.undo /\ raised \in [DOMAIN row -> {raised[x] : x \in DOMAIN row}]
  BY DEF Row
<1>2. /\ TakenOver(row).status = raised.status /\ TakenOver(row).decision = raised.decision
      /\ TakenOver(row).undo = raised.undo
  BY <1>1 DEF TakenOver, Delivered, Row
<1>3. QED
  BY <1>1, <1>2 DEF Kept

LEMMA LeaseKeeps ==
  ASSUME NEW row \in Row, row.delivery = "pending", NEW lease
  PROVE  Kept(row, [row EXCEPT !.lease = lease])
  BY DEF Kept, Row

LEMMA Unchanged == ASSUME NEW row PROVE Kept(row, row)
  BY DEF Kept

LEMMA KeptStep ==
  ASSUME IInv, [Next]_vars, NEW o \in Operations, op[o].status \in Terminal
  PROVE  Kept(op[o], op'[o])
<1>1. /\ op[o] \in Row /\ Tale(op[o], comp[o], history[o])
      /\ op \in [Operations -> Row] /\ op[o].status \notin {"absent", "proposed"}
  BY Parts DEF Terminal
<1>2. CASE UNCHANGED op
  BY <1>2, Unchanged
<1>3. ASSUME NEW q \in Requests, RequestStep(q) PROVE Kept(op[o], op'[o])
  <2>1. CASE \/ \E x \in Operations, d \in Decisions : Begin(q, x, d)
             \/ Cancel(q) \/ TimeOut(q) \/ Leave(q) \/ Fence(q)
    BY <1>2, <2>1 DEF Begin, Cancel, TimeOut, Leave, Fence
  <2>2. ASSUME NEW status \in {"committed", "failed"}, NEW undo \in BOOLEAN,
               NEW answered \in BOOLEAN, Execute(q, status, undo, answered)
        PROVE  Kept(op[o], op'[o])
    <3>1. o # request[q].op
      BY <1>1, <2>2 DEF Execute, Claimable
    <3>2. op'[o] = op[o]
      BY <1>1, <2>2, <3>1 DEF Execute
    <3>3. QED
      BY <3>2, Unchanged
  <2>3. CASE Reject(q)
    <3>1. o # request[q].op
      BY <1>1, <2>3 DEF Reject, Claimable
    <3>2. op'[o] = op[o]
      BY <1>1, <2>3, <3>1 DEF Reject
    <3>3. QED
      BY <3>2, Unchanged
  <2>4. ASSUME NEW how \in {"completed", "failed"}, NEW next \in Operations \cup {None},
               Deliver(q, how, next)
        PROVE  Kept(op[o], op'[o])
    <3>1. CASE o = request[q].op
      <4>1. op[o].delivery = "pending" /\ op'[o] = Delivered(op[o], how, next)
        BY <2>4, <3>1 DEF Deliver, Holds
      <4>2. QED
        BY <1>1, <4>1, DeliveredKeeps
    <3>2. CASE o # request[q].op
      <4>1. o # next
        BY <1>1, <2>4, NoneAssumption DEF Deliver
      <4>2. op'[o] = op[o]
        BY <2>4, <3>2, <4>1 DEF Deliver
      <4>3. QED
        BY <4>2, Unchanged
    <3>3. QED
      BY <3>1, <3>2
  <2>5. QED
    BY <1>3, <2>1, <2>2, <2>3, <2>4 DEF RequestStep
<1>4. ASSUME NEW x \in Operations, OperationStep(x) PROVE Kept(op[o], op'[o])
  <2>1. CASE x # o
    <3>1. op'[o] = op[o]
      BY <1>1, <1>4, <2>1 DEF OperationStep, Propose, Expire, Rewind, Converge, ProposeUndo,
                              Undo, UndoConflict
    <3>2. QED
      BY <3>1, Unchanged
  <2>2. CASE x = o /\ Propose(o)
    BY <1>1, <2>2 DEF Propose
  <2>3. CASE x = o /\ (Expire(o) \/ Rewind(o))
    <3>1. op[o].delivery = "pending"
      BY <1>1, <2>3 DEF Expire, Rewind, Tale
    <3>2. PICK lease \in {"live", "expired"} : op' = [op EXCEPT ![o].lease = lease]
      BY <2>3 DEF Expire, Rewind
    <3>3. op'[o] = [op[o] EXCEPT !.lease = lease]
      BY <1>1, <3>2
    <3>4. QED
      BY <1>1, <3>1, <3>3, LeaseKeeps
  <2>4. CASE x = o /\ Converge(o)
    <3>1. op[o].delivery = "pending" /\ op[o].lease = "expired" /\ op'[o] = TakenOver(op[o])
      BY <1>1, <2>4 DEF Converge, Abandoned
    <3>2. QED
      BY <1>1, <3>1, TakenOverKeeps
  <2>5. CASE ProposeUndo(x) \/ Undo(x) \/ UndoConflict(x)
    BY <1>2, <2>5 DEF ProposeUndo, Undo, UndoConflict
  <2>6. QED
    BY <1>4, <2>1, <2>2, <2>3, <2>4, <2>5 DEF OperationStep
<1>5. CASE UNCHANGED vars
  BY <1>2, <1>5 DEF vars
<1>6. CASE Delete \/ Crash
  BY <1>2, <1>6 DEF Delete, Crash
<1>7. QED
  BY <1>3, <1>4, <1>5, <1>6 DEF Next

\* A decision is final, a delivery that is over stays as it was, and only the takeover
\* of an expired delivery raises its generation.
THEOREM DecisionsFinal == Spec => TerminalFrozen
<1>1. IInv /\ [Next]_vars =>
        [\A o \in Operations : op[o].status \in Terminal =>
           /\ op'[o].status = op[o].status /\ op'[o].decision = op[o].decision
           /\ op'[o].undo = op[o].undo
           /\ op[o].delivery # "pending" => op'[o] = op[o]
           /\ op'[o].generation # op[o].generation => op[o].lease = "expired"]_vars
  BY KeptStep DEF Kept
<1>2. QED
  BY <1>1, Invariance, PTL DEF Spec, TerminalFrozen

-----------------------------------------------------------------------------
(* The ledger keeps its promise: each step is one of ConfirmedOnce, or none. *)

Fated == [o \in Operations |-> Fate(o)]
Heard == {o \in Operations : history[o].told > 0}
Reversed == {o \in Operations : history[o].undone > 0}

Fates == {"unasked", "asked", "done", "not_done"}

FateOf(row) ==
  CASE row.status = "absent" -> "unasked"
    [] row.status = "proposed" -> "asked"
    [] row.status = "committed" -> "done"
    [] OTHER -> "not_done"

\* What the abstract state says of an operation, by its rows.
LEMMA Seen ==
  ASSUME IInv, NEW o \in Operations
  PROVE  /\ Fated[o] = FateOf(op[o])
         /\ o \in Heard <=> op[o].delivery # "pending"
         /\ o \in Reversed <=> comp[o] = "committed"
<1>1. Fated[o] = FateOf(op[o])
  BY DEF Fated, Fate, FateOf
<1>2. Tale(op[o], comp[o], history[o])
  BY Parts
<1>3. QED
  BY <1>1, <1>2 DEF Heard, Reversed, Tale

LEMMA SeenNext ==
  ASSUME IInv', NEW o \in Operations
  PROVE  /\ Fated'[o] = FateOf(op'[o])
         /\ o \in Heard' <=> op'[o].delivery # "pending"
         /\ o \in Reversed' <=> comp'[o] = "committed"
<1>1. Fated'[o] = FateOf(op'[o])
  BY DEF Fated, Fate, FateOf
<1>2. Tale(op'[o], comp'[o], history'[o])
  BY DEF IInv, Tales
<1>3. QED
  BY <1>1, <1>2 DEF Heard, Reversed, Tale

\* The abstract state after a step, from what the step does to the rows.
LEMMA Moves ==
  ASSUME IInv, IInv',
         NEW fate, fate \in [Operations -> Fates],
         \A x \in Operations : fate[x] = FateOf(op'[x])
  PROVE  Fated' = fate
<1>1. Fated' = [x \in Operations |-> FateOf(op'[x])]
  BY DEF Fated, Fate, FateOf
<1>2. fate = [x \in Operations |-> fate[x]]
  OBVIOUS
<1>3. QED
  BY <1>1, <1>2

LEMMA FatedTyped == Fated \in [Operations -> Fates]
  BY DEF Fated, Fate, Fates

LEMMA FatesKept ==
  ASSUME IInv, IInv', \A x \in Operations : op'[x].status = op[x].status
  PROVE  Fated' = Fated
<1>1. \A x \in Operations : Fated[x] = FateOf(op'[x])
  BY Seen DEF FateOf
<1>2. QED
  BY <1>1, FatedTyped, Moves

LEMMA OneFate ==
  ASSUME IInv, IInv', NEW o \in Operations, NEW outcome \in Fates,
         \A x \in Operations : x # o => op'[x].status = op[x].status,
         FateOf(op'[o]) = outcome
  PROVE  Fated' = [Fated EXCEPT ![o] = outcome]
<1>. DEFINE fate == [Fated EXCEPT ![o] = outcome]
<1>1. fate \in [Operations -> Fates]
  BY FatedTyped
<1>2. ASSUME NEW x \in Operations PROVE fate[x] = FateOf(op'[x])
  <2>1. CASE x = o
    BY <2>1, FatedTyped
  <2>2. CASE x # o
    <3>1. FateOf(op[x]) = FateOf(op'[x])
      BY <2>2 DEF FateOf
    <3>2. QED
      BY <2>2, <3>1, FatedTyped, Seen
  <2>3. QED
    BY <2>1, <2>2
<1>. HIDE DEF fate
<1>3. QED
  BY <1>1, <1>2, Moves DEF fate

LEMMA HeardKept ==
  ASSUME IInv, IInv',
         \A x \in Operations : op'[x].delivery # "pending" <=> op[x].delivery # "pending"
  PROVE  Heard' = Heard
  BY Seen, SeenNext DEF Heard

LEMMA OneHeard ==
  ASSUME IInv, IInv', NEW o \in Operations, op'[o].delivery # "pending",
         \A x \in Operations :
           x # o => (op'[x].delivery # "pending" <=> op[x].delivery # "pending")
  PROVE  Heard' = Heard \cup {o}
  BY Seen, SeenNext DEF Heard

LEMMA ReversedKept ==
  ASSUME IInv, IInv', \A x \in Operations : comp'[x] = "committed" <=> comp[x] = "committed"
  PROVE  Reversed' = Reversed
  BY Seen, SeenNext DEF Reversed

\* A step that decides, tells and takes back nothing.
LEMMA Steady ==
  ASSUME IInv, IInv', conv'.open = conv.open,
         \A x \in Operations : /\ op'[x].status = op[x].status
                               /\ op'[x].delivery = op[x].delivery
                               /\ comp'[x] = "committed" <=> comp[x] = "committed"
  PROVE  UNCHANGED Promise!vars
  BY FatesKept, HeardKept, ReversedKept DEF Promise!vars, Fated, Heard, Reversed

\* With its card on o, or with none, the conversation has no other business.
LEMMA Unoccupied ==
  ASSUME IInv, NEW o \in Operations, conv.open, conv.pending \in {None, o}
  PROVE  \A x \in Operations \ {o} : Fated[x] = "unasked" \/ x \in Heard
<1>. SUFFICES ASSUME NEW x \in Operations \ {o}
              PROVE  Fated[x] = "unasked" \/ x \in Heard
  OBVIOUS
<1>1. ~Waiting(op[x]) /\ op[x] \in Row
  BY NoneAssumption, Parts DEF Pointed
<1>2. CASE op[x].status = "absent"
  BY <1>2, Seen DEF FateOf
<1>3. CASE op[x].status # "absent"
  <2>1. op[x].delivery # "pending"
    BY <1>1, <1>3 DEF Waiting, Row
  <2>2. QED
    BY <2>1, Seen
<1>4. QED
  BY <1>2, <1>3

LEMMA AskStep ==
  ASSUME IInv, IInv', NEW o \in Operations, Propose(o)
  PROVE  Promise!Ask(o)
<1>1. /\ op[o].status = "absent" /\ conv.open /\ conv.pending = None /\ conv \in Pointers
      /\ op \in [Operations -> Row] /\ Tale(op[o], comp[o], history[o])
      /\ op' = [op EXCEPT ![o] = Proposed] /\ conv' = [conv EXCEPT !.pending = o]
      /\ comp' = comp
  BY Parts DEF Propose
<1>2. op'[o] = Proposed /\ \A x \in Operations : x # o => op'[x] = op[x]
  BY <1>1
<1>3. op[o].delivery = "pending" /\ conv'.open = conv.open
  BY <1>1 DEF Tale, Terminal, Pointers
<1>4. Fated[o] = "unasked" /\ FateOf(op'[o]) = "asked" /\ "asked" \in Fates
  BY <1>1, <1>2, ProposedRow, Seen DEF FateOf, Fates
<1>5. Fated' = [Fated EXCEPT ![o] = "asked"]
  BY <1>2, <1>4, OneFate
<1>6. Heard' = Heard
  BY <1>2, <1>3, ProposedRow, HeardKept
<1>7. Reversed' = Reversed
  BY <1>1, ReversedKept
<1>8. \A x \in Operations \ {o} : Fated[x] = "unasked" \/ x \in Heard
  BY <1>1, Unoccupied
<1>9. QED
  BY <1>1, <1>3, <1>4, <1>5, <1>6, <1>7, <1>8
     DEF Promise!Ask, Promise!Settled, Fated, Heard, Reversed

\* A decision: the row of o was proposed, is terminal, and is told or not.
LEMMA DecideStep ==
  ASSUME IInv, IInv', NEW o \in Operations, op[o].status = "proposed", conv.open,
         conv'.open = conv.open, op'[o].status \in Terminal, comp' = comp,
         \A x \in Operations : x # o => op'[x] = op[x]
  PROVE  Promise!Decide(o)
<1>1. op[o].delivery = "pending"
  BY Parts DEF Tale, Terminal
<1>2. Fated[o] = "asked"
  BY Seen DEF FateOf
<1>3. PICK outcome \in {"done", "not_done"} : FateOf(op'[o]) = outcome
  BY DEF FateOf, Terminal
<1>4. Fated' = [Fated EXCEPT ![o] = outcome]
  BY <1>3, OneFate DEF Fates
<1>5. Heard' \in {Heard, Heard \cup {o}}
  <2>1. CASE op'[o].delivery = "pending"
    BY <1>1, <2>1, HeardKept
  <2>2. CASE op'[o].delivery # "pending"
    BY <2>2, OneHeard
  <2>3. QED
    BY <2>1, <2>2
<1>6. Reversed' = Reversed
  BY ReversedKept
<1>7. QED
  BY <1>2, <1>4, <1>5, <1>6 DEF Promise!Decide, Fated, Heard, Reversed

LEMMA DecidedStatus ==
  ASSUME NEW q \in Requests, request[q].decision \in Decisions, NEW status \in Terminal,
         NEW undo \in BOOLEAN
  PROVE  /\ Decided(q, status, undo).status = status
         /\ Delivered(Decided(q, status, undo), "completed", None).status = status
<1>1. Decided(q, status, undo) \in Row /\ Decided(q, status, undo).status = status
  BY DecidedRow
<1>2. "completed" \in {"completed", "failed"} /\ None \in Operations \cup {None}
  OBVIOUS
<1>3. Delivered(Decided(q, status, undo), "completed", None).status = Decided(q, status, undo).status
  BY <1>1, <1>2, DeliveredRow
<1>4. QED
  BY <1>1, <1>3

LEMMA ExecuteDecides ==
  ASSUME IInv, IInv', NEW q \in Requests, NEW status \in {"committed", "failed"},
         NEW undo \in BOOLEAN, NEW answered \in BOOLEAN, Execute(q, status, undo, answered)
  PROVE  Promise!Next
<1>1. PICK o \in Operations : o = request[q].op
  BY Undecided DEF Execute
<1>2. /\ op[o].status = "proposed" /\ conv.open /\ request[q].decision \in Decisions
      /\ conv \in Pointers /\ op \in [Operations -> Row]
  BY <1>1, Undecided, Parts DEF Execute
<1>3. status \in Terminal
  BY DEF Terminal
<1>4. op'[o].status = status /\ \A x \in Operations : x # o => op'[x] = op[x]
  BY <1>1, <1>2, <1>3, DecidedStatus DEF Execute
<1>5. conv'.open = conv.open /\ comp' = comp
  BY <1>2 DEF Execute, Pointers
<1>6. Promise!Decide(o)
  BY <1>2, <1>3, <1>4, <1>5, DecideStep
<1>7. QED
  BY <1>6 DEF Promise!Next

LEMMA RejectDecides ==
  ASSUME IInv, IInv', NEW q \in Requests, Reject(q)
  PROVE  Promise!Next
<1>1. PICK o \in Operations : o = request[q].op
  BY Undecided DEF Reject
<1>2. /\ op[o].status = "proposed" /\ conv.open /\ request[q].decision \in Decisions
      /\ conv \in Pointers /\ op \in [Operations -> Row]
  BY <1>1, Undecided, Parts DEF Reject
<1>3. "rejected" \in Terminal /\ FALSE \in BOOLEAN
  BY DEF Terminal
<1>4. op'[o].status = "rejected" /\ \A x \in Operations : x # o => op'[x] = op[x]
  <2>1. Delivered(Decided(q, "rejected", FALSE), "completed", None).status = "rejected"
    BY <1>2, <1>3, DecidedStatus
  <2>2. QED
    BY <1>1, <1>2, <2>1 DEF Reject
<1>5. conv'.open = conv.open /\ comp' = comp
  BY <1>2 DEF Reject, Pointers
<1>6. Promise!Decide(o)
  BY <1>2, <1>3, <1>4, <1>5, DecideStep
<1>7. QED
  BY <1>6 DEF Promise!Next

LEMMA DeliverTells ==
  ASSUME IInv, IInv', NEW q \in Requests, NEW how \in {"completed", "failed"},
         NEW next \in Operations \cup {None}, Deliver(q, how, next)
  PROVE  Promise!Next
<1>1. PICK o \in Operations : o = request[q].op
  BY DEF Deliver, IInv, Engaged
<1>2. /\ op[o] \in Row /\ op \in [Operations -> Row] /\ conv \in Pointers
      /\ op[o].delivery = "pending" /\ conv.open /\ conv.pending = o /\ conv.claimed
      /\ next # None => next # o /\ op[next].status = "absent"
      /\ op' = [x \in Operations |-> IF x = o THEN Delivered(op[o], how, next)
                                     ELSE IF x = next THEN Proposed ELSE op[x]]
      /\ comp' = comp /\ conv'.open = conv.open
  BY <1>1, Parts DEF Deliver, Holds, Pointers
<1>3. op[o].status \in {"committed", "failed", "rejected"}
  BY <1>1, <1>2, Parts, NoneAssumption DEF Claim, Terminal
<1>4. /\ op'[o].status = op[o].status /\ op'[o].delivery = how /\ how # "pending"
      /\ \A x \in Operations : x # o /\ x # next => op'[x] = op[x]
      /\ next # None => op'[next] = Proposed
  <2>1. Delivered(op[o], how, next).status = op[o].status
        /\ Delivered(op[o], how, next).delivery = how
    <3>1. op[o] \in Row
      BY <1>2
    <3>2. QED
      BY <3>1, DeliveredRow
  <2>2. \A x \in Operations : op'[x] = IF x = o THEN Delivered(op[o], how, next)
                                        ELSE IF x = next THEN Proposed ELSE op[x]
    BY <1>2
  <2>3. QED
    BY <1>2, <2>1, <2>2
<1>5. Fated[o] \in {"done", "not_done"} /\ o \notin Heard
  BY <1>2, <1>3, Seen DEF FateOf
<1>6. Heard' = Heard \cup {o}
  <2>1. ASSUME NEW x \in Operations, x # o
        PROVE  op'[x].delivery # "pending" <=> op[x].delivery # "pending"
    <3>1. CASE x = next
      <4>1. op[x].delivery = "pending"
        BY <1>2, <3>1, NoneAssumption, Parts DEF Tale, Terminal
      <4>2. QED
        BY <1>4, <3>1, <4>1, NoneAssumption, ProposedRow
    <3>2. CASE x # next
      BY <1>4, <2>1, <3>2
    <3>3. QED
      BY <3>1, <3>2
  <2>2. QED
    BY <1>4, <2>1, OneHeard
<1>7. Reversed' = Reversed
  BY <1>2, ReversedKept
<1>8. CASE next = None
  <2>1. Fated' = Fated
    BY <1>4, <1>8, NoneAssumption, FatesKept
  <2>2. Promise!Tell(o)
    BY <1>2, <1>5, <1>6, <1>7, <2>1 DEF Promise!Tell, Fated, Heard, Reversed
  <2>3. QED
    BY <2>2 DEF Promise!Next
<1>9. CASE next # None
  <2>1. next \in Operations \ {o} /\ Fated[next] = "unasked"
    BY <1>2, <1>9, Seen DEF FateOf
  <2>2. \A x \in Operations : x # next => op'[x].status = op[x].status
    BY <1>4
  <2>3. FateOf(op'[next]) = "asked" /\ "asked" \in Fates
    BY <1>4, <1>9, ProposedRow DEF FateOf, Fates
  <2>4. Fated' = [Fated EXCEPT ![next] = "asked"]
    BY <2>1, <2>2, <2>3, OneFate
  <2>5. \A x \in Operations \ {o} : Fated[x] = "unasked" \/ x \in Heard
    BY <1>2, Unoccupied
  <2>6. Promise!Tell(o)
    BY <1>2, <1>5, <1>6, <1>7, <2>1, <2>4, <2>5
       DEF Promise!Tell, Promise!Settled, Fated, Heard, Reversed
  <2>7. QED
    BY <2>6 DEF Promise!Next
<1>10. QED
  BY <1>8, <1>9

LEMMA ConvergeTells ==
  ASSUME IInv, IInv', NEW o \in Operations, Converge(o)
  PROVE  Promise!Next
<1>1. /\ op \in [Operations -> Row] /\ op[o] \in Row /\ conv \in Pointers
      /\ op[o].status \in {"committed", "failed", "rejected"}
      /\ op[o].delivery = "pending" /\ conv.open /\ op' = [op EXCEPT ![o] = TakenOver(op[o])]
      /\ comp' = comp /\ conv'.open = conv.open
  BY Parts DEF Converge, Abandoned, Terminal, Pointers
<1>2. TakenOver(op[o]).delivery = "failed" /\ TakenOver(op[o]).status = op[o].status
  BY <1>1 DEF TakenOver, Delivered, Row
<1>3. /\ op'[o].status = op[o].status /\ op'[o].delivery # "pending"
      /\ \A x \in Operations : x # o => op'[x] = op[x]
  BY <1>1, <1>2
<1>4. Fated[o] \in {"done", "not_done"} /\ o \notin Heard
  BY <1>1, Seen DEF FateOf
<1>5. Fated' = Fated
  BY <1>3, FatesKept
<1>6. Heard' = Heard \cup {o}
  BY <1>3, OneHeard
<1>7. Reversed' = Reversed
  BY <1>1, ReversedKept
<1>8. Promise!Tell(o)
  BY <1>1, <1>4, <1>5, <1>6, <1>7 DEF Promise!Tell, Fated, Heard, Reversed
<1>9. QED
  BY <1>8 DEF Promise!Next

LEMMA UndoTakesBack ==
  ASSUME IInv, IInv', NEW o \in Operations, Undo(o)
  PROVE  Promise!Next
<1>1. /\ op' = op /\ conv.open /\ conv'.open = conv.open /\ op[o].status = "committed"
      /\ comp[o] = "proposed" /\ comp' = [comp EXCEPT ![o] = "committed"]
      /\ comp \in [Operations -> Comp]
  BY Parts DEF Undo, Undoable, UndoDue, Pointers
<1>2. Fated[o] = "done" /\ o \notin Reversed
  BY <1>1, Seen DEF FateOf
<1>3. Fated' = Fated /\ Heard' = Heard
  BY <1>1, FatesKept, HeardKept
<1>4. Reversed' = Reversed \cup {o}
  BY <1>1, Seen, SeenNext DEF Reversed
<1>5. Promise!TakeBack(o)
  BY <1>1, <1>2, <1>3, <1>4 DEF Promise!TakeBack, Fated, Heard, Reversed
<1>6. QED
  BY <1>5 DEF Promise!Next

LEMMA DeleteCloses ==
  ASSUME IInv, IInv', Delete
  PROVE  Promise!Next
<1>1. op' = op /\ comp' = comp /\ conv.open /\ conv'.open = FALSE
  BY DEF Delete
<1>2. Fated' = Fated /\ Heard' = Heard /\ Reversed' = Reversed
  BY <1>1, FatesKept, HeardKept, ReversedKept
<1>3. Promise!Close
  BY <1>1, <1>2 DEF Promise!Close, Fated, Heard, Reversed
<1>4. QED
  BY <1>3 DEF Promise!Next

LEMMA PromiseStep ==
  ASSUME IInv, IInv', [Next]_vars
  PROVE  [Promise!Next]_(Promise!vars)
<1>1. ASSUME NEW q \in Requests, RequestStep(q) PROVE [Promise!Next]_(Promise!vars)
  <2>1. CASE \/ \E o \in Operations, d \in Decisions : Begin(q, o, d)
             \/ Cancel(q) \/ TimeOut(q) \/ Leave(q) \/ Fence(q)
    <3>1. UNCHANGED <<op, comp, conv>>
      BY <2>1 DEF Begin, Cancel, TimeOut, Leave, Fence
    <3>2. QED
      BY <3>1, Steady
  <2>2. CASE \E status \in {"committed", "failed"}, undo, answered \in BOOLEAN :
               Execute(q, status, undo, answered)
    BY <2>2, ExecuteDecides
  <2>3. CASE Reject(q)
    BY <2>3, RejectDecides
  <2>4. CASE \E how \in {"completed", "failed"}, next \in Operations \cup {None} :
               Deliver(q, how, next)
    BY <2>4, DeliverTells
  <2>5. QED
    BY <1>1, <2>1, <2>2, <2>3, <2>4 DEF RequestStep
<1>2. ASSUME NEW o \in Operations, OperationStep(o) PROVE [Promise!Next]_(Promise!vars)
  <2>1. CASE Propose(o)
    BY <2>1, AskStep DEF Promise!Next
  <2>2. CASE Expire(o) \/ Rewind(o)
    <3>1. /\ op[o] \in Row /\ op \in [Operations -> Row]
          /\ UNCHANGED <<comp, conv>>
          /\ \E lease \in {"live", "expired"} : op' = [op EXCEPT ![o].lease = lease]
      BY <2>2, Parts DEF Expire, Rewind
    <3>2. PICK lease \in {"live", "expired"} : op' = [op EXCEPT ![o] = [op[o] EXCEPT !.lease = lease]]
      BY <3>1
    <3>3. [op[o] EXCEPT !.lease = lease].status = op[o].status
          /\ [op[o] EXCEPT !.lease = lease].delivery = op[o].delivery
      BY <3>1 DEF Row
    <3>4. \A x \in Operations : op'[x].status = op[x].status /\ op'[x].delivery = op[x].delivery
      BY <3>1, <3>2, <3>3
    <3>5. QED
      BY <3>1, <3>4, Steady
  <2>3. CASE Converge(o)
    BY <2>3, ConvergeTells
  <2>4. CASE ProposeUndo(o) \/ UndoConflict(o)
    <3>1. /\ comp \in [Operations -> Comp] /\ UNCHANGED <<op, conv>> /\ comp[o] # "committed"
          /\ \E c \in {"proposed", "failed"} : comp' = [comp EXCEPT ![o] = c]
      BY <2>4, Parts DEF ProposeUndo, UndoConflict, UndoDue
    <3>2. \A x \in Operations : comp'[x] = "committed" <=> comp[x] = "committed"
      BY <3>1
    <3>3. QED
      BY <3>1, <3>2, Steady
  <2>5. CASE Undo(o)
    BY <2>5, UndoTakesBack
  <2>6. QED
    BY <1>2, <2>1, <2>2, <2>3, <2>4, <2>5 DEF OperationStep
<1>3. CASE Crash \/ UNCHANGED vars
  <2>1. UNCHANGED <<op, comp, conv>>
    BY <1>3 DEF Crash, vars
  <2>2. QED
    BY <2>1, Steady
<1>4. CASE Delete
  BY <1>4, DeleteCloses
<1>5. QED
  BY <1>1, <1>2, <1>3, <1>4 DEF Next

LEMMA PromiseInitially == Init => Promise!Init
<1>. SUFFICES ASSUME Init PROVE Promise!Init
  OBVIOUS
<1>1. \A o \in Operations : Fate(o) = "unasked"
  BY DEF Init, Fate, NoOperation
<1>2. [o \in Operations |-> Fate(o)] = [o \in Operations |-> "unasked"]
  BY <1>1
<1>3. {o \in Operations : history[o].told > 0} = {} /\ {o \in Operations : history[o].undone > 0} = {}
      /\ conv.open = TRUE
  BY DEF Init
<1>4. QED
  BY <1>2, <1>3 DEF Promise!Init

\* The ledger with its transactions, leases, lost answers and crashes implements
\* ConfirmedOnce: ask, decide, tell and take back one write after the other, once each.
THEOREM LedgerKeepsPromise == Spec => PromiseKept
<1>1. IInv /\ IInv' /\ [Next]_vars => [Promise!Next]_(Promise!vars)
  BY PromiseStep
<1>2. QED
  BY <1>1, PromiseInitially, Invariance, PTL DEF Spec, PromiseKept, Promise!Spec

=============================================================================
