------------------------ MODULE KnowledgeJobs_proofs ------------------------
(***************************************************************************)
(* Proofs about KnowledgeJobs, for any number of requests and of faults    *)
(* and any limit on requeues.                                              *)
(***************************************************************************)
EXTENDS KnowledgeJobs, WellFoundedInduction, TLAPS

Kinds == {"extract", "brief", "delete"}
Statuses == {"pending", "running", "purged"} \cup Ended
Row == [kind : Kinds, status : Statuses, canceled : BOOLEAN,
        lease : {"none", "live", "expired"}, token : Nat, retries : 0..RequeueMax,
        attempt : Nat \cup {None}]
AttemptStates == {"processing", "succeeded", "failed", "purged"}
Outcome == {"none", "failed", "canceled"}
SourceRec == [life : {"active", "deleting", "purged"},
              extraction : {"pending", "extracted", "failed"},
              brief : BriefStates, winner : Nat \cup {None}]
ExtractorRec == [at : {"idle", "claimed", "moved", "purging", "ending"},
                 job : Nat \cup {None}, token : Nat, result : Outcome]
WriterPlaces == {"idle", "claimed", "blocked", "ready", "created", "generating",
                 "answered", "checked", "failing", "ending"}
WriterRec == [at : WriterPlaces, job : Nat \cup {None}, token : Nat, result : Outcome,
              attempt : Nat \cup {None}, inner : Nat \cup {None}, key : Nat]
RequestRec == [at : {"idle", "read", "queued"}, processing : BOOLEAN]

-----------------------------------------------------------------------------
(* The inductive invariant. *)

InProgress(A, a) == a \in DOMAIN A /\ A[a] = "processing"

\* The writer has claimed a job, and it has made an attempt in one.
Busy == writer.at \notin {"idle", "blocked"}
Trying == writer.at \in {"created", "generating", "answered", "checked", "failing"}

\* Only Brief jobs have attempts, which there are.
Rows ==
  \A j \in DOMAIN jobs : jobs[j].attempt # None =>
    jobs[j].attempt \in DOMAIN attempts /\ jobs[j].kind = "brief"

\* The threads work at jobs there are, the writer at an attempt that has not won; they
\* end a job with a result.
ExtractorAt ==
  /\ extractor.at # "idle" => extractor.job \in DOMAIN jobs /\ jobs[extractor.job].kind # "brief"
  /\ extractor.at = "ending" => extractor.result # "none"
WriterAt ==
  /\ writer.at = "ending" => writer.result # "none"
  /\ Busy => writer.job \in DOMAIN jobs
  /\ Trying => /\ writer.inner \in DOMAIN jobs
               /\ writer.attempt \in DOMAIN attempts /\ attempts[writer.attempt] # "succeeded"

\* A job that waits has no attempt in progress.
Waiting ==
  \A j \in DOMAIN jobs : jobs[j].status = "pending" => ~InProgress(attempts, jobs[j].attempt)

\* If the job the writer holds has an attempt in progress, that is the one it made.
Working ==
  Busy /\ Holds(writer.job, writer.token) /\ InProgress(attempts, jobs[writer.job].attempt) =>
    /\ Trying /\ writer.inner = writer.job /\ writer.key = writer.token
    /\ jobs[writer.job].attempt = writer.attempt

Won == source.winner # None => source.winner \in DOMAIN attempts

IInv == /\ TypeOK /\ Rows /\ Waiting /\ AttemptOwned
        /\ ExtractorAt /\ WriterAt /\ Working
        /\ Won /\ CurrentBrief

\* The state the types speak of, and what only few actions touch.
Typed == /\ source \in SourceRec /\ jobs \in Seq(Row) /\ attempts \in Seq(AttemptStates)
         /\ extractor \in ExtractorRec /\ writer \in WriterRec
Counters == request \in RequestRec /\ requests \in 0..MaxRequests /\ faults \in 0..MaxFaults

\* The types of the module, by name.
LEMMA TypeParts ==
  TypeOK <=> Typed /\ Counters
  BY DEF TypeOK, Typed, Counters, SourceRec, Row, Kinds, Statuses, AttemptStates, ExtractorRec,
         WriterRec, WriterPlaces, Outcome, RequestRec

\* And of the next state.
LEMMA TypePartsNext ==
  TypeOK' <=> Typed' /\ Counters'
  BY DEF TypeOK, Typed, Counters, SourceRec, Row, Kinds, Statuses, AttemptStates, ExtractorRec,
         WriterRec, WriterPlaces, Outcome, RequestRec

\* A row of the table.
LEMMA RowTyped ==
  ASSUME Typed, NEW j \in DOMAIN jobs
  PROVE  jobs[j] \in Row /\ j \in Nat /\ DOMAIN jobs = 1..Len(jobs) /\ Len(jobs) \in Nat
  BY DEF Typed

\* None is no attempt.
LEMMA NoAttempt ==
  ASSUME Typed
  PROVE  None \notin DOMAIN attempts
  BY NoneAssumption DEF Typed

-----------------------------------------------------------------------------
(* Rows. *)

\* What happens to a row whose attempt is in progress after the step (p) or is not.
Held(x) == x.status = "running" /\ ~x.canceled /\ x.lease = "live"
Moves(x, y, p) ==
  /\ y.kind = x.kind /\ y.attempt \in {x.attempt, None}
  /\ x.status = "succeeded" => y = x
  /\ p => /\ y.attempt = x.attempt /\ y.status # "pending"
          /\ x.status = "running" \/ x.canceled => y.status = "running" \/ y.canceled
          /\ Held(y) => Held(x) /\ y.token = x.token

\* A row that is left alone.
LEMMA StayMoves ==
  ASSUME NEW x, NEW p, p => x.status # "pending"
  PROVE  Moves(x, x, p)
  BY DEF Moves

\* A new row.
LEMMA NewRow ==
  ASSUME NEW k \in Kinds
  PROVE  /\ NewJob(k) \in Row /\ NewJob(k).kind = k /\ NewJob(k).status = "pending"
         /\ NewJob(k).attempt = None /\ ~NewJob(k).canceled
  BY RequeueAssumption DEF NewJob, Row, Statuses

\* A row that is ended or put back in the queue.
LEMMA EndedRow ==
  ASSUME NEW x \in Row, NEW s \in Ended \cup {"pending"}
  PROVE  /\ Ending(x, s) \in Row
         /\ Ending(x, s).kind = x.kind /\ Ending(x, s).status = s
         /\ Ending(x, s).canceled = x.canceled
         /\ Ending(x, s).attempt = IF s = "failed" THEN None ELSE x.attempt
<1>1. CASE s = "pending"
  BY <1>1 DEF Ending, Row, Statuses, Ended
<1>2. CASE s # "pending"
  <2>1. NewJob(x.kind) \in Row
    BY NewRow DEF Row
  <2>2. s \in Statuses /\ x.canceled \in BOOLEAN /\ x.attempt \in Nat \cup {None}
    BY DEF Row, Statuses
  <2>3. None \in Nat \cup {None}
    OBVIOUS
  <2>4. QED
    BY <1>2, <2>1, <2>2, <2>3 DEF Ending, Row, NewJob
<1>3. QED
  BY <1>1, <1>2

\* Ending a row, unless its attempt goes on and it was not cancelled.
LEMMA EndedMoves ==
  ASSUME NEW x \in Row, NEW s \in Ended \cup {"pending"}, NEW p,
         x.status # "succeeded", p => s = "canceled" /\ x.canceled
  PROVE  Moves(x, Ending(x, s), p)
<1>. DEFINE y == Ending(x, s)
<1>1. /\ y.kind = x.kind /\ y.status = s /\ (y.canceled <=> x.canceled)
      /\ y.attempt = IF s = "failed" THEN None ELSE x.attempt
  BY EndedRow
<1>2. s # "running"
  BY DEF Ended
<1>. HIDE DEF y
<1>3. ~Held(y)
  BY <1>1, <1>2 DEF Held
<1>4. p => y.attempt = x.attempt /\ y.status # "pending" /\ y.canceled
  BY <1>1
<1>5. Moves(x, y, p)
  <2>1. y.attempt \in {x.attempt, None}
    BY <1>1
  <2>2. p => (x.status = "running" \/ x.canceled => y.status = "running" \/ y.canceled)
    BY <1>4
  <2>3. QED
    BY <1>1, <1>3, <1>4, <2>1, <2>2, Zenon DEF Moves
<1>6. QED
  BY <1>5 DEF y

\* A row that is leased.
LEMMA LeasedRow ==
  ASSUME NEW x \in Row
  PROVE  /\ Leased(x) \in Row /\ Leased(x).kind = x.kind /\ Leased(x).attempt = x.attempt
         /\ Leased(x).status = "running" /\ Leased(x).canceled = x.canceled
         /\ Leased(x).token = x.token + 1
<1>1. "running" \in Statuses /\ "live" \in {"none", "live", "expired"}
  BY DEF Statuses
<1>2. x.token + 1 \in Nat
  BY DEF Row
<1>3. QED
  BY <1>1, <1>2 DEF Leased, Row

\* Only a job that waits is leased; it has no attempt in progress.
LEMMA LeasedMoves ==
  ASSUME NEW x \in Row, NEW p, x.status = "pending", ~p
  PROVE  Moves(x, Leased(x), p)
  BY LeasedRow DEF Moves

\* A job that is cancelled and over.
LEMMA CanceledMoves ==
  ASSUME NEW x \in Row, NEW p, x.status \in {"pending", "running"}
  PROVE  LET y == Ending([x EXCEPT !.canceled = TRUE], "canceled")
         IN  y \in Row /\ Moves(x, y, p)
<1>. DEFINE z == [x EXCEPT !.canceled = TRUE]
            y == Ending(z, "canceled")
<1>1. z \in Row /\ z.kind = x.kind /\ z.attempt = x.attempt /\ z.canceled
  BY DEF Row
<1>. HIDE DEF z
<1>2. /\ y \in Row /\ y.kind = z.kind /\ y.attempt = z.attempt /\ y.status = "canceled"
      /\ y.canceled = z.canceled
  BY <1>1, EndedRow DEF Ended
<1>. HIDE DEF y
<1>3. y \in Row /\ Moves(x, y, p)
  BY <1>1, <1>2 DEF Moves, Held
<1>4. QED
  BY <1>3 DEF y, z

\* A job that is told of its cancellation.
LEMMA MarkedMoves ==
  ASSUME NEW x \in Row, NEW p, x.status \in {"pending", "running"}
  PROVE  Marked(x) \in Row /\ Moves(x, Marked(x), p)
<1>1. CASE x.status = "pending"
  BY <1>1, CanceledMoves DEF Marked
<1>2. CASE x.status = "running"
  <2>. DEFINE z == [x EXCEPT !.canceled = TRUE, !.lease = "none"]
  <2>1. Marked(x) = z
    BY <1>2 DEF Marked
  <2>2. z \in Row /\ z.kind = x.kind /\ z.attempt = x.attempt /\ z.status = x.status /\ z.canceled
    BY DEF Row
  <2>. HIDE DEF z
  <2>3. QED
    BY <1>2, <2>1, <2>2 DEF Moves, Held
<1>3. QED
  BY <1>1, <1>2

\* A job whose lease runs out.
LEMMA ExpiredMoves ==
  ASSUME NEW x \in Row, NEW p, x.status = "running"
  PROVE  [x EXCEPT !.lease = "expired"] \in Row /\ Moves(x, [x EXCEPT !.lease = "expired"], p)
<1>. DEFINE z == [x EXCEPT !.lease = "expired"]
<1>1. /\ z \in Row /\ z.kind = x.kind /\ z.attempt = x.attempt /\ z.status = x.status
      /\ z.canceled = x.canceled /\ z.lease = "expired"
  BY DEF Row
<1>. HIDE DEF z
<1>2. z \in Row /\ Moves(x, z, p)
  BY <1>1 DEF Moves, Held
<1>3. QED
  BY <1>2 DEF z

-----------------------------------------------------------------------------
(* The choices the code makes among rows. *)

\* A set of numbers has a least element.
LEMMA Least ==
  ASSUME NEW T \in SUBSET Nat, T # {}
  PROVE  \E x \in T : \A y \in T : x <= y
<1>. DEFINE R == {ss \in Nat \X Nat : ss[1] < ss[2]}
<1>1. IsWellFoundedOn(R, Nat)
  BY NatLessThanWellFounded DEF OpToRel
<1>2. \A x, y \in Nat : <<y, x>> \in R <=> y < x
  OBVIOUS
<1>. HIDE DEF R
<1>3. PICK x \in T : \A y \in T : ~ (<<y, x>> \in R)
  BY <1>1, WFMin
<1>4. \A y \in T : x \in Nat /\ y \in Nat /\ ~(y < x)
  BY <1>2, <1>3
<1>5. \A y \in T : x <= y
  BY <1>4
<1>6. QED
  BY <1>5

\* claim_next_job takes a row that is in its queue.
LEMMA ForemostQueued ==
  ASSUME Typed, NEW kinds, Queue(kinds) # {}
  PROVE  /\ Foremost(kinds) \in DOMAIN jobs /\ jobs[Foremost(kinds)].kind \in kinds
         /\ jobs[Foremost(kinds)].status = "pending" /\ ~jobs[Foremost(kinds)].canceled
<1>1. Queue(kinds) \in SUBSET Nat
  BY RowTyped DEF Queue
<1>2. \E j \in Queue(kinds) : \A i \in Queue(kinds) : j <= i
  BY <1>1, Least
<1>3. Foremost(kinds) \in Queue(kinds)
  BY <1>2 DEF Foremost
<1>4. QED
  BY <1>3 DEF Queue

\* create_brief_attempt takes a live row, or makes one.
LEMMA ChosenLive ==
  ASSUME Typed
  PROVE  /\ Chosen \in 1..(Len(jobs) + 1)
         /\ Chosen > Len(jobs) <=> Candidates = {}
         /\ Candidates # {} => Chosen \in Candidates
<1>1. Candidates \in SUBSET 1..Len(jobs) /\ Len(jobs) \in Nat
  BY RowTyped DEF Candidates
<1>2. CASE Candidates = {}
  BY <1>1, <1>2 DEF Chosen
<1>3. CASE Candidates # {}
  <2>. DEFINE T == {Len(jobs) - j : j \in Candidates}
  <2>1. T \in SUBSET Nat /\ T # {}
    <3>1. \A j \in Candidates : Len(jobs) - j \in Nat
      BY <1>1
    <3>2. QED
      BY <1>3, <3>1
  <2>2. PICK x \in T : \A y \in T : x <= y
    BY <2>1, Least
  <2>3. PICK j \in Candidates : x = Len(jobs) - j
    OBVIOUS
  <2>4. \A i \in Candidates : i <= j
    <3>1. ASSUME NEW i \in Candidates
          PROVE  i <= j
      <4>1. Len(jobs) - j <= Len(jobs) - i
        BY <2>2, <2>3
      <4>2. QED
        BY <1>1, <4>1
    <3>2. QED
      BY <3>1
  <2>5. Chosen \in Candidates
    BY <1>3, <2>4 DEF Chosen
  <2>6. QED
    BY <1>1, <1>3, <2>5
<1>4. QED
  BY <1>2, <1>3

-----------------------------------------------------------------------------
(* Most steps carry the rows and attempts on: attempts end, rows move.       *)

AttemptsEnd(A, B) ==
  /\ DOMAIN B = DOMAIN A
  /\ \A a \in DOMAIN A :
       B[a] = A[a] \/ (A[a] # "succeeded" /\ B[a] \in {"succeeded", "failed"})
Carried ==
  /\ DOMAIN jobs \subseteq DOMAIN jobs' /\ AttemptsEnd(attempts, attempts')
  /\ \A j \in DOMAIN jobs :
       Moves(jobs[j], jobs'[j], InProgress(attempts', jobs[j].attempt))
  /\ \A j \in DOMAIN jobs' : j \notin DOMAIN jobs => jobs'[j].attempt = None

\* An attempt that is in progress after the step was so before.
LEMMA StillInProgress ==
  ASSUME NEW A, NEW B, AttemptsEnd(A, B), NEW a, InProgress(B, a)
  PROVE  InProgress(A, a)
  BY DEF AttemptsEnd, InProgress

\* What the rows say is carried on.
LEMMA CarriedRows ==
  ASSUME Typed, Typed', Rows, Waiting, AttemptOwned, Carried
  PROVE  Rows' /\ Waiting' /\ AttemptOwned'
<1>1. ~InProgress(attempts', None)
  BY NoAttempt DEF Carried, AttemptsEnd, InProgress
<1>2. Rows'
  <2>1. ASSUME NEW j \in DOMAIN jobs', jobs'[j].attempt # None
        PROVE  jobs'[j].attempt \in DOMAIN attempts' /\ jobs'[j].kind = "brief"
    <3>1. j \in DOMAIN jobs
      BY <2>1 DEF Carried
    <3>2. jobs'[j].attempt = jobs[j].attempt /\ jobs'[j].kind = jobs[j].kind
      BY <2>1, <3>1 DEF Carried, Moves
    <3>3. QED
      BY <2>1, <3>1, <3>2 DEF Rows, Carried, AttemptsEnd
  <2>2. QED
    BY <2>1 DEF Rows
<1>3. Waiting'
  <2>1. ASSUME NEW j \in DOMAIN jobs', jobs'[j].status = "pending",
               InProgress(attempts', jobs'[j].attempt)
        PROVE  FALSE
    <3>1. j \in DOMAIN jobs
      BY <1>1, <2>1 DEF Carried
    <3>2. jobs'[j].attempt = jobs[j].attempt
      BY <1>1, <2>1, <3>1 DEF Carried, Moves
    <3>3. QED
      BY <2>1, <3>1, <3>2 DEF Carried, Moves
  <2>2. QED
    BY <2>1 DEF Waiting
<1>4. AttemptOwned'
  <2>1. ASSUME NEW a \in DOMAIN attempts', attempts'[a] = "processing"
        PROVE  \E j \in DOMAIN jobs' : /\ jobs'[j].attempt = a
                                       /\ jobs'[j].status = "running" \/ jobs'[j].canceled
    <3>1. InProgress(attempts', a)
      BY <2>1 DEF InProgress
    <3>2. InProgress(attempts, a)
      BY <3>1, StillInProgress DEF Carried
    <3>3. PICK j \in DOMAIN jobs : /\ jobs[j].attempt = a
                                   /\ jobs[j].status = "running" \/ jobs[j].canceled
      BY <3>2 DEF AttemptOwned, InProgress
    <3>4. Moves(jobs[j], jobs'[j], InProgress(attempts', a)) /\ j \in DOMAIN jobs'
      BY <3>3 DEF Carried
    <3>5. jobs'[j].attempt = a /\ (jobs'[j].status = "running" \/ jobs'[j].canceled)
      BY <3>1, <3>3, <3>4 DEF Moves
    <3>6. QED
      BY <3>4, <3>5
  <2>2. QED
    BY <2>1 DEF AttemptOwned
<1>5. QED
  BY <1>2, <1>3, <1>4

\* A lease of a job with an attempt in progress is none that the step has given.
LEMMA CarriedHold ==
  ASSUME Typed, Carried, NEW j \in DOMAIN jobs, NEW t,
         jobs'[j].status = "running" /\ ~jobs'[j].canceled,
         jobs'[j].token = t /\ jobs'[j].lease = "live",
         InProgress(attempts', jobs'[j].attempt)
  PROVE  /\ Holds(j, t) /\ InProgress(attempts, jobs[j].attempt)
         /\ jobs'[j].attempt = jobs[j].attempt
<1>1. ~InProgress(attempts', None)
  BY NoAttempt DEF Carried, AttemptsEnd, InProgress
<1>2. jobs'[j].attempt = jobs[j].attempt
  BY <1>1 DEF Carried, Moves
<1>3. InProgress(attempts, jobs[j].attempt)
  BY <1>2, StillInProgress DEF Carried
<1>4. Held(jobs[j]) /\ jobs'[j].token = jobs[j].token
  <2>1. Held(jobs'[j])
    BY DEF Held
  <2>2. QED
    BY <1>2, <2>1 DEF Carried, Moves
<1>5. QED
  BY <1>2, <1>3, <1>4 DEF Holds, Held

\* The winner and its job stay as they are.
LEMMA CarriedWinner ==
  ASSUME Typed, Won, CurrentBrief, Carried, source'.winner = source.winner,
         source'.brief \in {"ready", "outdated"} =>
           source.brief \in {"ready", "outdated"} \/ source.winner # None
  PROVE  Won' /\ CurrentBrief'
<1>1. Won'
  BY DEF Won, Carried, AttemptsEnd
<1>2. ASSUME source.winner # None
      PROVE  /\ attempts'[source.winner] = "succeeded"
             /\ \E j \in DOMAIN jobs' : /\ jobs'[j].attempt = source.winner
                                        /\ jobs'[j].status = "succeeded" /\ ~jobs'[j].canceled
  <2>1. attempts'[source.winner] = "succeeded"
    BY <1>2 DEF Won, CurrentBrief, Carried, AttemptsEnd
  <2>2. PICK j \in DOMAIN jobs : /\ jobs[j].attempt = source.winner
                                 /\ jobs[j].status = "succeeded" /\ ~jobs[j].canceled
    BY <1>2 DEF CurrentBrief
  <2>3. jobs'[j] = jobs[j] /\ j \in DOMAIN jobs'
    BY <2>2 DEF Carried, Moves
  <2>4. QED
    BY <2>1, <2>2, <2>3
<1>3. source'.brief \in {"ready", "outdated"} => source.winner # None
  BY DEF CurrentBrief
<1>4. CurrentBrief'
  BY <1>2, <1>3 DEF CurrentBrief
<1>5. QED
  BY <1>1, <1>4

\* The writer goes on with its job: with its attempt, or without one in progress.
Goes ==
  /\ writer'.at = "ending" => writer'.result # "none"
  /\ Busy' =>
       /\ Busy /\ writer'.job = writer.job /\ writer'.token = writer.token
       /\ \/ /\ Trying /\ Trying' /\ attempts'[writer.attempt] # "succeeded"
             /\ writer'.inner = writer.inner /\ writer'.key = writer.key
             /\ writer'.attempt = writer.attempt
          \/ /\ ~Trying'
             /\ Trying => ~(/\ Holds(writer.job, writer.token)
                            /\ InProgress(attempts', jobs[writer.job].attempt))

\* What the writer knows is carried on.
LEMMA CarriedWriter ==
  ASSUME Typed, Carried, WriterAt, Working, Goes
  PROVE  WriterAt' /\ Working'
<1>1. Trying' => Busy'
  BY DEF Trying, Busy
<1>2. WriterAt'
  <2>1. Busy' => writer'.job \in DOMAIN jobs'
    BY DEF Goes, WriterAt, Carried
  <2>2. Trying' => /\ writer'.inner \in DOMAIN jobs'
                   /\ writer'.attempt \in DOMAIN attempts' /\ attempts'[writer'.attempt] # "succeeded"
    BY <1>1 DEF Goes, WriterAt, Carried, AttemptsEnd
  <2>3. QED
    BY <2>1, <2>2 DEF WriterAt, Goes
<1>3. Working'
  <2>1. ASSUME Busy', Holds(writer.job, writer.token)',
               InProgress(attempts', jobs'[writer'.job].attempt)
        PROVE  /\ Trying' /\ writer'.inner = writer'.job /\ writer'.key = writer'.token
               /\ jobs'[writer'.job].attempt = writer'.attempt
    <3>1. /\ Busy /\ writer'.job = writer.job /\ writer'.token = writer.token
          /\ writer.job \in DOMAIN jobs
      BY <2>1 DEF Goes, WriterAt
    <3>2. /\ jobs'[writer.job].status = "running" /\ ~jobs'[writer.job].canceled
          /\ jobs'[writer.job].token = writer.token /\ jobs'[writer.job].lease = "live"
      BY <2>1, <3>1 DEF Holds
    <3>3. /\ Holds(writer.job, writer.token) /\ InProgress(attempts, jobs[writer.job].attempt)
          /\ jobs'[writer.job].attempt = jobs[writer.job].attempt
      BY <2>1, <3>1, <3>2, CarriedHold
    <3>4. /\ Trying /\ writer.inner = writer.job /\ writer.key = writer.token
          /\ jobs[writer.job].attempt = writer.attempt
      BY <3>1, <3>3 DEF Working
    <3>5. /\ Trying' /\ writer'.inner = writer.inner /\ writer'.key = writer.key
          /\ writer'.attempt = writer.attempt
      BY <2>1, <3>1, <3>3, <3>4 DEF Goes
    <3>6. QED
      BY <3>1, <3>3, <3>4, <3>5
  <2>2. QED
    BY <2>1 DEF Working
<1>4. QED
  BY <1>2, <1>3

\* Nothing of the writer changes, and no attempt succeeds.
LEMMA WriterStays ==
  ASSUME WriterAt, Carried, writer' = writer,
         \A a \in DOMAIN attempts : attempts'[a] = "succeeded" => attempts[a] = "succeeded"
  PROVE  Goes
<1>1. (Busy' <=> Busy) /\ (Trying' <=> Trying)
  BY DEF Busy, Trying
<1>2. Trying => attempts'[writer.attempt] # "succeeded"
  BY DEF WriterAt
<1>3. QED
  BY <1>1, <1>2 DEF Goes, WriterAt

\* The writer is free, or waits to tell that there is no model.
LEMMA WriterFree ==
  ASSUME writer'.at \in {"idle", "blocked"}
  PROVE  Goes
  BY DEF Goes, Busy

\* The extractor keeps its job, or is idle.
LEMMA CarriedExtractor ==
  ASSUME ExtractorAt, Carried, extractor'.at = "ending" => extractor'.result # "none",
         \/ extractor'.at = "idle"
         \/ extractor.at # "idle" /\ extractor'.job = extractor.job
  PROVE  ExtractorAt'
  BY DEF ExtractorAt, Carried, Moves

-----------------------------------------------------------------------------
(* Calm steps: all but a claim, a new attempt, a success and a purge.        *)

WinnerKeeps ==
  /\ source'.winner = source.winner
  /\ source'.brief \in {"ready", "outdated"} =>
       source.brief \in {"ready", "outdated"} \/ source.winner # None
ExtractorKeeps ==
  /\ extractor'.at = "idle" \/ (extractor.at # "idle" /\ extractor'.job = extractor.job)
  /\ extractor'.at = "ending" => extractor'.result # "none"
Calm == Carried /\ Goes /\ WinnerKeeps /\ ExtractorKeeps

\* A calm step keeps the invariant.
LEMMA CalmStep ==
  ASSUME IInv, TypeOK', Calm
  PROVE  IInv'
<1>1. Typed /\ Typed'
  BY TypeParts, TypePartsNext DEF IInv
<1>2. Rows' /\ Waiting' /\ AttemptOwned'
  BY <1>1, CarriedRows DEF IInv, Calm
<1>3. Won' /\ CurrentBrief'
  BY <1>1, CarriedWinner DEF IInv, Calm, WinnerKeeps
<1>4. WriterAt' /\ Working'
  BY <1>1, CarriedWriter DEF IInv, Calm
<1>5. ExtractorAt'
  BY CarriedExtractor DEF IInv, Calm, ExtractorKeeps
<1>6. QED
  BY <1>2, <1>3, <1>4, <1>5 DEF IInv

\* A row of an attempt that goes on does not wait.
LEMMA GoingRow ==
  ASSUME Typed, Waiting, AttemptsEnd(attempts, attempts'), NEW j \in DOMAIN jobs,
         InProgress(attempts', jobs[j].attempt)
  PROVE  InProgress(attempts, jobs[j].attempt) /\ jobs[j].status # "pending"
  BY StillInProgress DEF Waiting

\* Nothing happens to the rows.
LEMMA SameRows ==
  ASSUME Typed, Waiting, UNCHANGED <<jobs, attempts>>
  PROVE  Carried
<1>1. AttemptsEnd(attempts, attempts')
  BY DEF AttemptsEnd
<1>2. ASSUME NEW j \in DOMAIN jobs
      PROVE  Moves(jobs[j], jobs'[j], InProgress(attempts', jobs[j].attempt))
  BY <1>1, GoingRow, StayMoves
<1>3. QED
  BY <1>1, <1>2 DEF Carried

\* One row moves.
LEMMA OneRow ==
  ASSUME Typed, Waiting, AttemptsEnd(attempts, attempts'), NEW j \in DOMAIN jobs,
         NEW y \in Row, jobs' = [jobs EXCEPT ![j] = y],
         Moves(jobs[j], y, InProgress(attempts', jobs[j].attempt))
  PROVE  Carried /\ jobs' \in Seq(Row)
<1>1. jobs \in Seq(Row)
  BY DEF Typed
<1>2. jobs' \in Seq(Row) /\ DOMAIN jobs' = DOMAIN jobs
  BY <1>1
<1>3. ASSUME NEW i \in DOMAIN jobs
      PROVE  Moves(jobs[i], jobs'[i], InProgress(attempts', jobs[i].attempt))
  <2>1. CASE i = j
    BY <2>1
  <2>2. CASE i # j
    BY <2>2, GoingRow, StayMoves
  <2>3. QED
    BY <2>1, <2>2
<1>4. QED
  BY <1>2, <1>3 DEF Carried

\* A row that complete_job may end: only a cancelled one has an attempt in progress.
LEMMA CompletedRow ==
  ASSUME Typed, Waiting, NEW j \in DOMAIN jobs, NEW t, NEW s \in Ended,
         jobs' = Completed(j, t, s), attempts' = attempts,
         MayComplete(j, t, s) /\ InProgress(attempts, jobs[j].attempt) =>
           s = "canceled" /\ jobs[j].canceled
  PROVE  Carried /\ jobs' \in Seq(Row)
<1>1. CASE MayComplete(j, t, s)
  <2>1. jobs[j] \in Row /\ jobs[j].status = "running"
    BY <1>1, RowTyped DEF MayComplete
  <2>2. Ending(jobs[j], s) \in Row
    BY <2>1, EndedRow
  <2>3. Moves(jobs[j], Ending(jobs[j], s), InProgress(attempts', jobs[j].attempt))
    BY <1>1, <2>1, EndedMoves
  <2>4. jobs' = [jobs EXCEPT ![j] = Ending(jobs[j], s)] /\ AttemptsEnd(attempts, attempts')
    BY <1>1 DEF Completed, AttemptsEnd
  <2>5. QED
    BY <2>2, <2>3, <2>4, OneRow
<1>2. CASE ~MayComplete(j, t, s)
  BY <1>2, SameRows DEF Completed, Typed
<1>3. QED
  BY <1>1, <1>2

\* A job that is not of the Brief has no attempt.
LEMMA OtherKinds ==
  ASSUME Typed, Rows, NEW j \in DOMAIN jobs, jobs[j].kind # "brief"
  PROVE  ~InProgress(attempts, jobs[j].attempt)
  BY NoAttempt DEF Rows, InProgress

\* The records of the threads.
LEMMA IdleTyped ==
  IdleExtractor \in ExtractorRec /\ IdleWriter \in WriterRec /\ NoRequest \in RequestRec
  BY DEF IdleExtractor, IdleWriter, NoRequest, ExtractorRec, WriterRec, RequestRec, Outcome,
         WriterPlaces

\* The extractor changes its place.
LEMMA ExtractorTyped ==
  ASSUME Typed, NEW a \in {"claimed", "moved", "purging", "ending"}, NEW r \in Outcome,
         \/ extractor' = [extractor EXCEPT !.at = a] /\ a # "ending"
         \/ extractor' = [extractor EXCEPT !.at = a, !.result = r]
  PROVE  /\ extractor' \in ExtractorRec /\ extractor'.job = extractor.job /\ extractor'.at = a
         /\ a = "ending" => extractor'.result = r
  BY DEF Typed, ExtractorRec

\* The writer changes its place.
LEMMA WriterTyped ==
  ASSUME Typed, NEW a \in WriterPlaces, writer' = [writer EXCEPT !.at = a]
  PROVE  /\ writer' \in WriterRec /\ writer'.at = a
         /\ writer'.job = writer.job /\ writer'.token = writer.token
         /\ writer'.inner = writer.inner /\ writer'.key = writer.key
         /\ writer'.attempt = writer.attempt
  BY DEF Typed, WriterRec

\* The writer is about to fail its attempt.
LEMMA WriterFailing ==
  ASSUME Typed, NEW r \in Outcome, WriterFails(r)
  PROVE  /\ writer' \in WriterRec /\ writer'.at = "failing"
         /\ writer'.job = writer.job /\ writer'.token = writer.token
         /\ writer'.inner = writer.inner /\ writer'.key = writer.key
         /\ writer'.attempt = writer.attempt
  BY DEF Typed, WriterRec, WriterFails, WriterPlaces

\* The writer has no more to do with its attempt.
LEMMA WriterEnding ==
  ASSUME Typed, NEW r \in Outcome, WriterEnds(r)
  PROVE  /\ writer' \in WriterRec
         /\ r = "none" => writer'.at = "idle"
         /\ r # "none" => /\ writer'.at = "ending"
                          /\ writer'.job = writer.job /\ writer'.token = writer.token
                          /\ writer'.result = r
<1>1. CASE r = "none"
  BY <1>1, IdleTyped DEF WriterEnds, IdleWriter
<1>2. CASE r # "none"
  <2>1. writer' = [IdleWriter EXCEPT !.at = "ending", !.result = r, !.job = writer.job,
                                     !.token = writer.token]
    BY <1>2 DEF WriterEnds
  <2>2. writer.job \in Nat \cup {None} /\ writer.token \in Nat
    BY DEF Typed, WriterRec
  <2>3. QED
    BY <1>2, <2>1, <2>2 DEF IdleWriter, WriterRec, WriterPlaces
<1>3. QED
  BY <1>1, <1>2

\* Of a lost lease the writer reports one of two results.
LEMMA LostTyped ==
  ASSUME NEW j
  PROVE  LostResult(j) \in Outcome
  BY DEF LostResult, Outcome

-----------------------------------------------------------------------------
(* The extraction queue. *)

\* The writer and the Source's Brief are left alone.
LEMMA Apart ==
  ASSUME WriterAt, Carried, UNCHANGED <<attempts, writer>>,
         source'.winner = source.winner, source'.brief = source.brief
  PROVE  Goes /\ WinnerKeeps
<1>1. Goes
  BY WriterStays
<1>2. WinnerKeeps
  BY DEF WinnerKeeps
<1>3. QED
  BY <1>1, <1>2

\* A job is claimed: the types, the rows, and a job that waited for the thread.
LEMMA ClaimedRow ==
  ASSUME IInv, NEW kinds, Queue(kinds) # {}, attempts' = attempts,
         jobs' = [jobs EXCEPT ![Foremost(kinds)] = Leased(jobs[Foremost(kinds)])]
  PROVE  /\ Carried /\ jobs' \in Seq(Row)
         /\ Foremost(kinds) \in DOMAIN jobs /\ jobs[Foremost(kinds)].kind \in kinds
         /\ jobs[Foremost(kinds)].token + 1 \in Nat /\ Foremost(kinds) \in Nat
         /\ ~InProgress(attempts, jobs[Foremost(kinds)].attempt)
         /\ jobs'[Foremost(kinds)].attempt = jobs[Foremost(kinds)].attempt
<1>. DEFINE j == Foremost(kinds)
<1>1. Typed
  BY TypeParts DEF IInv
<1>2. j \in DOMAIN jobs /\ jobs[j].kind \in kinds /\ jobs[j].status = "pending"
  BY <1>1, ForemostQueued
<1>. HIDE DEF j
<1>3. ~InProgress(attempts, jobs[j].attempt)
  BY <1>2 DEF IInv, Waiting
<1>4. jobs[j] \in Row /\ j \in Nat
  BY <1>1, <1>2, RowTyped
<1>5. Leased(jobs[j]) \in Row /\ Leased(jobs[j]).attempt = jobs[j].attempt
  BY <1>4, LeasedRow
<1>6. Moves(jobs[j], Leased(jobs[j]), InProgress(attempts', jobs[j].attempt))
  BY <1>2, <1>3, <1>4, LeasedMoves
<1>7. AttemptsEnd(attempts, attempts')
  BY DEF AttemptsEnd
<1>8. jobs' = [jobs EXCEPT ![j] = Leased(jobs[j])]
  BY DEF j
<1>9. Carried /\ jobs' \in Seq(Row)
  BY <1>1, <1>2, <1>5, <1>6, <1>7, <1>8, OneRow DEF IInv
<1>10. jobs[j].token + 1 \in Nat
  BY <1>4 DEF Row
<1>11. jobs'[j].attempt = jobs[j].attempt
  BY <1>2, <1>5, <1>8
<1>12. QED
  BY <1>2, <1>3, <1>4, <1>9, <1>10, <1>11 DEF j

LEMMA ClaimExtractionStep ==
  ASSUME IInv, ClaimExtraction
  PROVE  IInv'
<1>. DEFINE kinds == {"extract", "delete"}
            j == Foremost(kinds)
<1>1. Typed /\ Counters
  BY TypeParts DEF IInv
<1>2. /\ Queue(kinds) # {} /\ jobs' = [jobs EXCEPT ![j] = Leased(jobs[j])]
      /\ extractor' = [IdleExtractor EXCEPT !.at = "claimed", !.job = j,
                                            !.token = jobs[j].token + 1]
      /\ UNCHANGED <<source, attempts, writer, request, requests, faults>>
  BY DEF ClaimExtraction
<1>3. /\ Carried /\ jobs' \in Seq(Row) /\ j \in DOMAIN jobs /\ jobs[j].kind \in kinds
      /\ jobs[j].token + 1 \in Nat /\ j \in Nat
  BY <1>2, ClaimedRow
<1>. HIDE DEF j
<1>4. extractor' \in ExtractorRec /\ extractor'.job = j /\ extractor'.at = "claimed"
  BY <1>2, <1>3 DEF IdleExtractor, ExtractorRec, Outcome
<1>5. Typed' /\ Counters'
  BY <1>1, <1>2, <1>3, <1>4 DEF Typed, Counters
<1>6. Rows' /\ Waiting' /\ AttemptOwned'
  BY <1>1, <1>3, <1>5, CarriedRows DEF IInv
<1>7. Goes /\ WinnerKeeps
  BY <1>2, <1>3, Apart DEF IInv
<1>8. Won' /\ CurrentBrief' /\ WriterAt' /\ Working'
  BY <1>1, <1>3, <1>7, CarriedWinner, CarriedWriter DEF IInv, WinnerKeeps
<1>9. ExtractorAt'
  BY <1>2, <1>3, <1>4 DEF ExtractorAt, Carried, Moves
<1>10. QED
  BY <1>5, <1>6, <1>8, <1>9, TypePartsNext DEF IInv

\* The other steps of the extractor, but for the purge, are calm.
LEMMA ExtractorCalm ==
  ASSUME IInv, \/ CommitExtraction \/ ExtractionFails \/ EndExtraction
               \/ Quarantine \/ RecheckDelete
  PROVE  TypeOK' /\ Calm
<1>1. Typed /\ Counters
  BY TypeParts DEF IInv
<1>2. extractor.at # "idle" /\ extractor.job \in DOMAIN jobs /\ jobs[extractor.job].kind # "brief"
  BY DEF IInv, ExtractorAt, CommitExtraction, ExtractionFails, EndExtraction, Quarantine,
         RecheckDelete, Extracting, Deleting
<1>3. ~InProgress(attempts, jobs[extractor.job].attempt)
  BY <1>1, <1>2, OtherKinds DEF IInv
<1>4. UNCHANGED <<attempts, writer, request, requests, faults>>
  BY DEF CommitExtraction, ExtractionFails, EndExtraction, Quarantine, RecheckDelete
<1>5. /\ source' \in SourceRec /\ source'.winner = source.winner /\ source'.brief = source.brief
  <2>1. source \in SourceRec
    BY <1>1 DEF Typed
  <2>2. \A e \in {"pending", "extracted", "failed"} :
          /\ [source EXCEPT !.extraction = e] \in SourceRec
          /\ [source EXCEPT !.extraction = e].winner = source.winner
          /\ [source EXCEPT !.extraction = e].brief = source.brief
    BY <2>1 DEF SourceRec
  <2>3. \/ source' = source
        \/ \E e \in {"pending", "extracted", "failed"} : source' = [source EXCEPT !.extraction = e]
    BY DEF CommitExtraction, ExtractionFails, EndExtraction, Quarantine, RecheckDelete
  <2>4. QED
    BY <2>1, <2>2, <2>3
<1>6. extractor' \in ExtractorRec /\ ExtractorKeeps
  <2>1. CASE extractor' = IdleExtractor
    BY <2>1, IdleTyped DEF IdleExtractor, ExtractorKeeps
  <2>2. CASE ExtractorEnds("failed") \/ ExtractorEnds("canceled")
    <3>1. PICK r \in {"failed", "canceled"} :
            extractor' = [extractor EXCEPT !.at = "ending", !.result = r]
      BY <2>2 DEF ExtractorEnds
    <3>2. QED
      BY <1>1, <1>2, <3>1, ExtractorTyped DEF Outcome, ExtractorKeeps
  <2>3. CASE \E a \in {"moved", "purging"} : extractor' = [extractor EXCEPT !.at = a]
    <3>1. PICK a \in {"moved", "purging"} : extractor' = [extractor EXCEPT !.at = a]
      BY <2>3
    <3>2. "none" \in Outcome
      BY DEF Outcome
    <3>3. QED
      BY <1>1, <1>2, <3>1, <3>2, ExtractorTyped DEF ExtractorKeeps
  <2>4. QED
    BY <2>1, <2>2, <2>3 DEF CommitExtraction, ExtractionFails, EndExtraction, Quarantine,
       RecheckDelete
<1>7. Carried /\ jobs' \in Seq(Row)
  <2>1. CASE jobs' = jobs
    BY <1>1, <1>4, <2>1, SameRows DEF IInv, Typed
  <2>2. CASE EndExtraction
    <3>1. extractor.result \in Ended
      BY <1>1, <2>2 DEF Ended, Typed, ExtractorRec, Outcome, EndExtraction, IInv, ExtractorAt
    <3>2. jobs' = Completed(extractor.job, extractor.token, extractor.result)
      BY <2>2 DEF EndExtraction
    <3>3. QED
      BY <1>1, <1>2, <1>3, <1>4, <3>1, <3>2, CompletedRow DEF IInv
  <2>3. CASE CommitExtraction /\ jobs' # jobs
    <3>1. Ending(jobs[extractor.job], "succeeded") \in Row
      BY <1>1, <1>2, RowTyped, EndedRow DEF Ended
    <3>2. jobs' = [jobs EXCEPT ![extractor.job] = Ending(jobs[extractor.job], "succeeded")]
      BY <2>3 DEF CommitExtraction
    <3>3. jobs[extractor.job].status # "succeeded"
      BY <2>3 DEF CommitExtraction, Holds
    <3>4. Moves(jobs[extractor.job], Ending(jobs[extractor.job], "succeeded"),
                InProgress(attempts', jobs[extractor.job].attempt))
      BY <1>1, <1>2, <1>3, <1>4, <3>3, RowTyped, EndedMoves DEF Ended
    <3>5. AttemptsEnd(attempts, attempts')
      BY <1>4 DEF AttemptsEnd
    <3>6. QED
      BY <1>1, <1>2, <3>1, <3>2, <3>4, <3>5, OneRow DEF IInv
  <2>4. QED
    BY <2>1, <2>2, <2>3 DEF ExtractionFails, Quarantine, RecheckDelete
<1>8. TypeOK'
  BY <1>1, <1>4, <1>5, <1>6, <1>7, TypePartsNext DEF Typed, Counters
<1>9. Calm
  BY <1>2, <1>4, <1>5, <1>6, <1>7, Apart DEF IInv, Calm
<1>10. QED
  BY <1>8, <1>9

\* All rows of the Source are gone.
LEMMA PurgeStep ==
  ASSUME IInv, source' = PurgedSource, jobs' = PurgedJobs, attempts' = PurgedAttempts,
         extractor' = IdleExtractor, writer' \in {writer, IdleWriter}, Counters'
  PROVE  IInv'
<1>1. Typed
  BY TypeParts DEF IInv
<1>2. /\ jobs' \in Seq(Row) /\ DOMAIN jobs' = DOMAIN jobs
      /\ \A j \in DOMAIN jobs : jobs'[j].status = "purged" /\ jobs'[j].attempt = None
  <2>1. ASSUME NEW k \in Kinds
        PROVE  /\ [NewJob(k) EXCEPT !.status = "purged"] \in Row
               /\ [NewJob(k) EXCEPT !.status = "purged"].status = "purged"
               /\ [NewJob(k) EXCEPT !.status = "purged"].attempt = None
    <3>1. NewJob(k) \in Row /\ NewJob(k).attempt = None /\ "purged" \in Statuses
      BY NewRow DEF Statuses
    <3>2. QED
      BY <3>1 DEF Row
  <2>2. \A j \in DOMAIN jobs : jobs[j].kind \in Kinds
    BY <1>1, RowTyped DEF Row
  <2>3. jobs \in Seq(Row)
    BY <1>1 DEF Typed
  <2>4. DOMAIN jobs = 1..Len(jobs) /\ Len(jobs) \in Nat
    BY <2>3
  <2>5. \A j \in DOMAIN jobs : jobs'[j] \in Row
    BY <2>1, <2>2 DEF PurgedJobs
  <2>6. jobs' \in [1..Len(jobs) -> Row]
    BY <2>4, <2>5 DEF PurgedJobs
  <2>7. jobs' \in Seq(Row)
    BY <2>4, <2>6
  <2>8. QED
    BY <2>1, <2>2, <2>7 DEF PurgedJobs
<1>3. /\ attempts' \in Seq(AttemptStates) /\ DOMAIN attempts' = DOMAIN attempts
      /\ \A a \in DOMAIN attempts : attempts'[a] = "purged"
  BY <1>1 DEF Typed, PurgedAttempts, AttemptStates
<1>4. source' \in SourceRec /\ source'.winner = None /\ source'.brief = "not_started"
  BY DEF PurgedSource, SourceRec, BriefStates
<1>5. TypeOK'
  BY <1>1, <1>2, <1>3, <1>4, IdleTyped, TypePartsNext DEF Typed
<1>6. Rows' /\ Waiting' /\ AttemptOwned'
  BY <1>2, <1>3 DEF Rows, Waiting, AttemptOwned
<1>7. ExtractorAt' /\ Won' /\ CurrentBrief'
  BY <1>4 DEF ExtractorAt, IdleExtractor, Won, CurrentBrief
<1>8. WriterAt' /\ Working'
  <2>1. CASE writer' = IdleWriter
    BY <2>1 DEF WriterAt, Working, Busy, Trying, IdleWriter
  <2>2. CASE writer' = writer
    <3>1. WriterAt'
      BY <1>2, <1>3, <2>2 DEF IInv, WriterAt, Busy, Trying
    <3>2. Working'
      <4>1. \A a : ~InProgress(attempts', a)
        BY <1>3 DEF InProgress
      <4>2. QED
        BY <4>1 DEF Working
    <3>3. QED
      BY <3>1, <3>2
  <2>3. QED
    BY <2>1, <2>2
<1>9. QED
  BY <1>5, <1>6, <1>7, <1>8 DEF IInv

LEMMA CompletePurgeStep ==
  ASSUME IInv, CompletePurge
  PROVE  IInv'
<1>1. Typed /\ Counters
  BY TypeParts DEF IInv
<1>2. extractor' = IdleExtractor /\ UNCHANGED <<writer, request, requests, faults>>
  BY DEF CompletePurge
<1>3. Counters'
  BY <1>1, <1>2 DEF Counters
<1>4. CASE source' = PurgedSource /\ jobs' = PurgedJobs /\ attempts' = PurgedAttempts
  BY <1>2, <1>3, <1>4, PurgeStep
<1>5. CASE UNCHANGED <<source, jobs, attempts>>
  <2>1. Carried
    BY <1>1, <1>5, SameRows DEF IInv
  <2>2. Calm
    BY <1>2, <1>5, <2>1, Apart DEF IInv, Calm, ExtractorKeeps, IdleExtractor
  <2>3. TypeOK'
    BY <1>1, <1>2, <1>3, <1>5, IdleTyped, TypePartsNext DEF Typed
  <2>4. QED
    BY <2>2, <2>3, CalmStep
<1>6. QED
  BY <1>4, <1>5 DEF CompletePurge

-----------------------------------------------------------------------------
(* The brief queue. *)

LEMMA ClaimBriefStep ==
  ASSUME IInv, ClaimBrief
  PROVE  IInv'
<1>. DEFINE kinds == {"brief"}
            j == Foremost(kinds)
<1>1. Typed /\ Counters
  BY TypeParts DEF IInv
<1>2. /\ Queue(kinds) # {} /\ jobs' = [jobs EXCEPT ![j] = Leased(jobs[j])]
      /\ writer' = [IdleWriter EXCEPT !.at = "claimed", !.job = j, !.token = jobs[j].token + 1]
      /\ UNCHANGED <<source, attempts, extractor, request, requests, faults>>
  BY DEF ClaimBrief
<1>3. /\ Carried /\ jobs' \in Seq(Row) /\ j \in DOMAIN jobs
      /\ jobs[j].token + 1 \in Nat /\ j \in Nat
      /\ ~InProgress(attempts, jobs[j].attempt) /\ jobs'[j].attempt = jobs[j].attempt
  BY <1>2, ClaimedRow
<1>. HIDE DEF j
<1>4. writer' \in WriterRec /\ writer'.job = j /\ writer'.at = "claimed"
  BY <1>2, <1>3 DEF IdleWriter, WriterRec, WriterPlaces, Outcome
<1>5. Typed' /\ Counters'
  BY <1>1, <1>2, <1>3, <1>4 DEF Typed, Counters
<1>6. Rows' /\ Waiting' /\ AttemptOwned'
  BY <1>1, <1>3, <1>5, CarriedRows DEF IInv
<1>7. Won' /\ CurrentBrief'
  BY <1>1, <1>2, <1>3, CarriedWinner DEF IInv
<1>8. ExtractorAt'
  BY <1>2, <1>3, CarriedExtractor DEF IInv, ExtractorAt
<1>9. WriterAt' /\ Working'
  <2>1. WriterAt'
    BY <1>3, <1>4 DEF WriterAt, Trying, Carried
  <2>2. ~InProgress(attempts', jobs'[writer'.job].attempt)
    BY <1>2, <1>3, <1>4
  <2>3. QED
    BY <2>1, <2>2 DEF Working
<1>10. QED
  BY <1>5, <1>6, <1>7, <1>8, <1>9, TypePartsNext DEF IInv

\* What the writer knows before it has an attempt.
LEMMA NotTrying ==
  ASSUME IInv, Busy, ~Trying
  PROVE  /\ writer.job \in DOMAIN jobs
         /\ Holds(writer.job, writer.token) => ~InProgress(attempts, jobs[writer.job].attempt)
  BY DEF IInv, WriterAt, Working

\* Only the writer goes on.
LEMMA WriterOnly ==
  ASSUME IInv, UNCHANGED <<source, jobs, attempts, extractor, request, requests, faults>>,
         writer' \in WriterRec, Goes
  PROVE  TypeOK' /\ Calm
<1>1. Typed /\ Counters
  BY TypeParts DEF IInv
<1>2. Typed' /\ Counters'
  BY <1>1 DEF Typed, Counters
<1>3. Carried
  BY <1>1, SameRows DEF IInv
<1>4. WinnerKeeps /\ ExtractorKeeps
  BY DEF WinnerKeeps, ExtractorKeeps, IInv, ExtractorAt
<1>5. QED
  BY <1>2, <1>3, <1>4, TypePartsNext DEF Calm

\* A writer that keeps its attempt.
LEMMA KeepsTrying ==
  ASSUME IInv, Trying, attempts' = attempts,
         writer'.at \in {"created", "generating", "answered", "checked", "failing"},
         writer'.job = writer.job /\ writer'.token = writer.token,
         writer'.inner = writer.inner /\ writer'.key = writer.key,
         writer'.attempt = writer.attempt
  PROVE  Goes
<1>1. Trying' /\ Busy /\ writer'.at # "ending"
  BY DEF Trying, Busy
<1>2. attempts'[writer.attempt] # "succeeded"
  BY DEF IInv, WriterAt
<1>3. QED
  BY <1>1, <1>2 DEF Goes

\* A writer that never had one.
LEMMA KeepsWaiting ==
  ASSUME Busy, ~Trying, writer'.at \in {"ready", "ending"},
         writer'.at = "ending" => writer'.result # "none",
         writer'.job = writer.job /\ writer'.token = writer.token
  PROVE  Goes
<1>1. ~Trying'
  BY DEF Trying
<1>2. QED
  BY <1>1 DEF Goes

LEMMA StartBriefCalm ==
  ASSUME IInv, StartBrief
  PROVE  TypeOK' /\ Calm
<1>1. Typed /\ Counters
  BY TypeParts DEF IInv
<1>2. Busy /\ ~Trying
  BY DEF StartBrief, Busy, Trying
<1>3. UNCHANGED <<source, attempts, extractor, request, requests, faults>>
  BY DEF StartBrief
<1>4. CASE writer' = IdleWriter /\ UNCHANGED jobs
  BY <1>3, <1>4, IdleTyped, WriterFree, WriterOnly DEF IdleWriter
<1>5. CASE WriterEnds("failed") /\ UNCHANGED jobs
  <2>1. /\ writer' \in WriterRec /\ writer'.at = "ending" /\ writer'.result # "none"
        /\ writer'.job = writer.job /\ writer'.token = writer.token
    BY <1>1, <1>5, WriterEnding DEF Outcome
  <2>2. QED
    BY <1>2, <1>3, <1>5, <2>1, KeepsWaiting, WriterOnly
<1>6. CASE writer' = [writer EXCEPT !.at = "ready"] /\ UNCHANGED jobs
  <2>1. /\ writer' \in WriterRec /\ writer'.at = "ready"
        /\ writer'.job = writer.job /\ writer'.token = writer.token
    BY <1>1, <1>6, WriterTyped DEF WriterPlaces
  <2>2. QED
    BY <1>2, <1>3, <1>6, <2>1, KeepsWaiting, WriterOnly
<1>7. CASE /\ Holds(writer.job, writer.token)
           /\ jobs' = Completed(writer.job, writer.token, "failed")
           /\ writer' = [IdleWriter EXCEPT !.at = "blocked"]
  <2>1. writer.job \in DOMAIN jobs /\ ~InProgress(attempts, jobs[writer.job].attempt)
    BY <1>2, <1>7, NotTrying
  <2>2. Carried /\ jobs' \in Seq(Row)
    BY <1>1, <1>3, <1>7, <2>1, CompletedRow DEF IInv, Ended
  <2>3. writer' \in WriterRec /\ writer'.at = "blocked"
    BY <1>7, IdleTyped DEF WriterRec, WriterPlaces
  <2>4. Typed' /\ Counters'
    BY <1>1, <1>3, <2>2, <2>3 DEF Typed, Counters
  <2>5. Goes /\ WinnerKeeps /\ ExtractorKeeps
    BY <1>3, <2>3, WriterFree DEF WinnerKeeps, ExtractorKeeps, IInv, ExtractorAt
  <2>6. QED
    BY <2>2, <2>4, <2>5, TypePartsNext DEF Calm
<1>8. QED
  BY <1>4, <1>5, <1>6, <1>7 DEF StartBrief

LEMMA ShowBlockedCalm ==
  ASSUME IInv, ShowBlocked
  PROVE  TypeOK' /\ Calm
<1>1. Typed /\ Counters
  BY TypeParts DEF IInv
<1>2. UNCHANGED <<jobs, attempts, extractor, request, requests, faults>> /\ writer' = IdleWriter
  BY DEF ShowBlocked
<1>3. /\ source' \in SourceRec /\ source'.winner = source.winner
      /\ source' = source \/ source'.brief = "pending"
  <2>1. source \in SourceRec /\ "pending" \in BriefStates
    BY <1>1 DEF Typed, BriefStates
  <2>2. QED
    BY <2>1 DEF ShowBlocked, SourceRec
<1>4. Typed' /\ Counters'
  BY <1>1, <1>2, <1>3, IdleTyped DEF Typed, Counters
<1>5. Carried
  BY <1>1, <1>2, SameRows DEF IInv
<1>6. Goes
  BY <1>2, WriterFree DEF IdleWriter
<1>7. WinnerKeeps /\ ExtractorKeeps
  BY <1>2, <1>3 DEF WinnerKeeps, ExtractorKeeps, IInv, ExtractorAt
<1>8. QED
  BY <1>4, <1>5, <1>6, <1>7, TypePartsNext DEF Calm

\* The safe points while an attempt is made.
LEMMA TryingCalm ==
  ASSUME IInv, CheckCanceled \/ Generate \/ CheckAnswer
  PROVE  TypeOK' /\ Calm
<1>1. Typed
  BY TypeParts DEF IInv
<1>2. Trying /\ UNCHANGED <<source, jobs, attempts, extractor, request, requests, faults>>
  BY DEF CheckCanceled, Generate, CheckAnswer, Trying
<1>3. CASE \E a \in {"generating", "answered", "checked"} : writer' = [writer EXCEPT !.at = a]
  <2>1. PICK a \in {"generating", "answered", "checked"} : writer' = [writer EXCEPT !.at = a]
    BY <1>3
  <2>2. a \in WriterPlaces
    BY DEF WriterPlaces
  <2>3. /\ writer' \in WriterRec /\ writer'.at = a
        /\ writer'.job = writer.job /\ writer'.token = writer.token
        /\ writer'.inner = writer.inner /\ writer'.key = writer.key
        /\ writer'.attempt = writer.attempt
    BY <1>1, <2>1, <2>2, WriterTyped
  <2>4. Goes
    BY <1>2, <2>3, KeepsTrying
  <2>5. QED
    BY <1>2, <2>3, <2>4, WriterOnly
<1>4. CASE \E r \in Outcome : WriterFails(r)
  <2>1. PICK r \in Outcome : WriterFails(r)
    BY <1>4
  <2>2. Goes /\ writer' \in WriterRec
    BY <1>1, <1>2, <2>1, WriterFailing, KeepsTrying
  <2>3. QED
    BY <1>2, <2>2, WriterOnly
<1>5. QED
  <2>1. {"failed", "canceled", LostResult(writer.job)} \in SUBSET Outcome
    BY LostTyped DEF Outcome
  <2>2. QED
    BY <1>3, <1>4, <2>1 DEF CheckCanceled, Generate, CheckAnswer

\* Without a right to commit the job the writer holds has no attempt in progress.
LEMMA CannotCommit ==
  ASSUME IInv, Trying, ~MayCommit
  PROVE  /\ writer.job \in DOMAIN jobs
         /\ Holds(writer.job, writer.token) => ~InProgress(attempts, jobs[writer.job].attempt)
<1>1. Busy
  BY DEF Busy, Trying
<1>2. QED
  BY <1>1 DEF IInv, WriterAt, Working, MayCommit

\* A writer that leaves its attempt behind.
LEMMA LeavesAttempt ==
  ASSUME IInv, Trying, NEW r \in Outcome, WriterEnds(r),
         ~(/\ Holds(writer.job, writer.token)
           /\ InProgress(attempts', jobs[writer.job].attempt))
  PROVE  writer' \in WriterRec /\ Goes
<1>1. Typed /\ Busy
  BY TypeParts DEF IInv, Busy, Trying
<1>2. /\ writer' \in WriterRec
      /\ r = "none" => writer'.at = "idle"
      /\ r # "none" => /\ writer'.at = "ending" /\ writer'.result = r
                       /\ writer'.job = writer.job /\ writer'.token = writer.token
  BY <1>1, WriterEnding
<1>3. CASE r = "none"
  BY <1>2, <1>3, WriterFree
<1>4. CASE r # "none"
  <2>1. ~Trying'
    BY <1>2, <1>4 DEF Trying
  <2>2. QED
    BY <1>1, <1>2, <1>4, <2>1 DEF Goes
<1>5. QED
  BY <1>3, <1>4

\* The attempt of a writer that may commit ends with its job.
LEMMA AttemptEnds ==
  ASSUME IInv, Trying, MayCommit, NEW s \in {"succeeded", "failed"},
         attempts' = [attempts EXCEPT ![writer.attempt] = s], jobs' = WithInner(s)
  PROVE  /\ Carried /\ jobs' \in Seq(Row) /\ attempts' \in Seq(AttemptStates)
         /\ ~(/\ Holds(writer.job, writer.token)
              /\ InProgress(attempts', jobs[writer.job].attempt))
<1>1. Typed
  BY TypeParts DEF IInv
<1>2. /\ writer.inner \in DOMAIN jobs
      /\ writer.attempt \in DOMAIN attempts /\ attempts[writer.attempt] # "succeeded"
  BY DEF IInv, WriterAt
<1>3. /\ jobs[writer.inner] \in Row /\ jobs[writer.inner].status = "running"
      /\ ~jobs[writer.inner].canceled /\ jobs[writer.inner].attempt = writer.attempt
  BY <1>1, <1>2, RowTyped DEF MayCommit, Holds
<1>4. attempts' \in Seq(AttemptStates) /\ DOMAIN attempts' = DOMAIN attempts
  BY <1>1, <1>2 DEF Typed, AttemptStates
<1>5. ~InProgress(attempts', writer.attempt)
  BY <1>2, <1>4 DEF InProgress
<1>6. AttemptsEnd(attempts, attempts')
  BY <1>2, <1>4 DEF AttemptsEnd
<1>7. s \in Ended
  BY DEF Ended
<1>8. Ending(jobs[writer.inner], s) \in Row
  BY <1>3, <1>7, EndedRow
<1>9. Moves(jobs[writer.inner], Ending(jobs[writer.inner], s),
             InProgress(attempts', jobs[writer.inner].attempt))
  BY <1>3, <1>5, <1>7, EndedMoves
<1>10. jobs' = [jobs EXCEPT ![writer.inner] = Ending(jobs[writer.inner], s)]
  BY DEF WithInner
<1>11. Carried /\ jobs' \in Seq(Row)
  BY <1>1, <1>2, <1>6, <1>8, <1>9, <1>10, OneRow DEF IInv
<1>12. ASSUME Holds(writer.job, writer.token), InProgress(attempts', jobs[writer.job].attempt)
       PROVE  FALSE
  <2>1. InProgress(attempts, jobs[writer.job].attempt) /\ Busy
    BY <1>6, <1>12, StillInProgress DEF Busy, Trying
  <2>2. jobs[writer.job].attempt = writer.attempt
    BY <1>12, <2>1 DEF IInv, Working
  <2>3. QED
    BY <1>5, <1>12, <2>2
<1>13. QED
  BY <1>4, <1>11, <1>12

\* Which is what a lost lease or a refused commit comes to, and a failure.
LEMMA AttemptCalm ==
  ASSUME IInv, UNCHANGED <<extractor, request, requests, faults>>,
         writer' \in WriterRec, source' \in SourceRec, Goes, WinnerKeeps,
         Carried, jobs' \in Seq(Row), attempts' \in Seq(AttemptStates)
  PROVE  TypeOK' /\ Calm
<1>1. Typed /\ Counters
  BY TypeParts DEF IInv
<1>2. Typed' /\ Counters'
  BY <1>1 DEF Typed, Counters
<1>3. ExtractorKeeps
  BY DEF ExtractorKeeps, IInv, ExtractorAt
<1>4. QED
  BY <1>2, <1>3, TypePartsNext DEF Calm

LEMMA FailAttemptCalm ==
  ASSUME IInv, FailAttempt
  PROVE  TypeOK' /\ Calm
<1>1. Typed /\ Trying
  BY TypeParts DEF IInv, FailAttempt, Trying
<1>2. /\ WriterEnds(writer.result) /\ writer.result \in Outcome
      /\ UNCHANGED <<extractor, request, requests, faults>>
  BY <1>1 DEF FailAttempt, Typed, WriterRec
<1>3. CASE MayCommit
  <2>1. /\ attempts' = [attempts EXCEPT ![writer.attempt] = "failed"]
        /\ jobs' = WithInner("failed")
    BY <1>3 DEF FailAttempt
  <2>2. /\ Carried /\ jobs' \in Seq(Row) /\ attempts' \in Seq(AttemptStates)
        /\ ~(/\ Holds(writer.job, writer.token)
             /\ InProgress(attempts', jobs[writer.job].attempt))
    BY <1>1, <1>3, <2>1, AttemptEnds
  <2>3. source \in SourceRec /\ {"failed", "ready"} \in SUBSET BriefStates
    BY <1>1 DEF Typed, BriefStates
  <2>4. source' \in SourceRec /\ WinnerKeeps
    <3>1. CASE source' = source
      BY <2>3, <3>1 DEF WinnerKeeps
    <3>2. CASE source' = [source EXCEPT !.brief = IF source.winner = None THEN "failed"
                                                  ELSE "ready"]
      BY <2>3, <3>2 DEF WinnerKeeps, SourceRec
    <3>3. QED
      BY <1>3, <3>1, <3>2 DEF FailAttempt
  <2>5. writer' \in WriterRec /\ Goes
    BY <1>1, <1>2, <2>2, LeavesAttempt
  <2>6. QED
    BY <1>2, <2>2, <2>4, <2>5, AttemptCalm
<1>4. CASE ~MayCommit
  <2>1. UNCHANGED <<source, jobs, attempts>>
    BY <1>4 DEF FailAttempt
  <2>2. writer' \in WriterRec /\ Goes
    BY <1>1, <1>2, <1>4, <2>1, CannotCommit, LeavesAttempt
  <2>3. QED
    BY <1>2, <2>1, <2>2, WriterOnly
<1>5. QED
  BY <1>3, <1>4

\* A commit that succeeds makes its attempt the winner.
LEMMA CommitStep ==
  ASSUME IInv, Commit
  PROVE  IInv'
<1>1. Typed /\ Counters /\ Trying
  BY TypeParts DEF IInv, Commit, Trying
<1>2. UNCHANGED <<extractor, request, requests, faults>>
  BY DEF Commit
<1>3. CASE ~Holds(writer.job, writer.token)
  <2>1. WriterFails("none") /\ UNCHANGED <<source, jobs, attempts>>
    BY <1>3 DEF Commit
  <2>2. writer' \in WriterRec /\ Goes
    BY <1>1, <2>1, WriterFailing, KeepsTrying DEF Outcome
  <2>3. QED
    BY <1>2, <2>1, <2>2, WriterOnly, CalmStep
<1>4. CASE Holds(writer.job, writer.token) /\ ~MayCommit
  <2>1. WriterEnds("failed") /\ UNCHANGED <<source, jobs, attempts>>
    BY <1>4 DEF Commit
  <2>2. writer' \in WriterRec /\ Goes
    BY <1>1, <1>4, <2>1, CannotCommit, LeavesAttempt DEF Outcome
  <2>3. QED
    BY <1>2, <2>1, <2>2, WriterOnly, CalmStep
<1>5. CASE Holds(writer.job, writer.token) /\ MayCommit /\ source.life # "active"
  <2>1. /\ attempts' = [attempts EXCEPT ![writer.attempt] = "failed"]
        /\ jobs' = WithInner("failed") /\ source' = source /\ WriterEnds("failed")
    BY <1>5 DEF Commit
  <2>2. /\ Carried /\ jobs' \in Seq(Row) /\ attempts' \in Seq(AttemptStates)
        /\ ~(/\ Holds(writer.job, writer.token)
             /\ InProgress(attempts', jobs[writer.job].attempt))
    BY <1>1, <1>5, <2>1, AttemptEnds
  <2>3. writer' \in WriterRec /\ Goes
    BY <1>1, <2>1, <2>2, LeavesAttempt DEF Outcome
  <2>4. source' \in SourceRec /\ WinnerKeeps
    BY <1>1, <2>1 DEF Typed, WinnerKeeps
  <2>5. QED
    BY <1>2, <2>2, <2>3, <2>4, AttemptCalm, CalmStep
<1>6. CASE Holds(writer.job, writer.token) /\ MayCommit /\ source.life = "active"
  <2>1. /\ attempts' = [attempts EXCEPT ![writer.attempt] = "succeeded"]
        /\ jobs' = WithInner("succeeded") /\ WriterEnds("none")
        /\ source' = [source EXCEPT !.brief = "ready", !.winner = writer.attempt]
    BY <1>6 DEF Commit
  <2>2. Carried /\ jobs' \in Seq(Row) /\ attempts' \in Seq(AttemptStates)
    BY <1>1, <1>6, <2>1, AttemptEnds
  <2>3. writer' \in WriterRec /\ writer'.at = "idle"
    BY <1>1, <2>1, WriterEnding DEF Outcome
  <2>4. /\ writer.attempt \in Nat /\ writer.attempt \in DOMAIN attempts
        /\ writer.inner \in DOMAIN jobs
    BY <1>1 DEF IInv, WriterAt, Typed
  <2>5. source' \in SourceRec /\ source'.winner = writer.attempt
    <3>1. source \in SourceRec /\ "ready" \in BriefStates
      BY <1>1 DEF Typed, BriefStates
    <3>2. QED
      BY <2>1, <2>4, <3>1 DEF SourceRec
  <2>6. Typed' /\ Counters'
    BY <1>1, <1>2, <2>2, <2>3, <2>5 DEF Typed, Counters
  <2>7. Rows' /\ Waiting' /\ AttemptOwned'
    BY <1>1, <2>2, <2>6, CarriedRows DEF IInv
  <2>8. WriterAt' /\ Working'
    BY <1>1, <2>2, <2>3, WriterFree, CarriedWriter DEF IInv
  <2>9. ExtractorAt'
    BY <1>2, <2>2, CarriedExtractor DEF IInv, ExtractorAt
  <2>10. attempts'[writer.attempt] = "succeeded" /\ writer.attempt \in DOMAIN attempts'
    BY <1>1, <2>1, <2>4 DEF Typed
  <2>11. /\ jobs'[writer.inner].attempt = writer.attempt
         /\ jobs'[writer.inner].status = "succeeded" /\ ~jobs'[writer.inner].canceled
         /\ writer.inner \in DOMAIN jobs'
    <3>1. /\ jobs[writer.inner] \in Row /\ jobs[writer.inner].attempt = writer.attempt
          /\ ~jobs[writer.inner].canceled
      BY <1>1, <1>6, <2>4, RowTyped DEF MayCommit, Holds
    <3>2. jobs'[writer.inner] = Ending(jobs[writer.inner], "succeeded")
      BY <2>1, <2>4 DEF WithInner
    <3>3. QED
      BY <2>2, <2>4, <3>1, <3>2, EndedRow DEF Ended, Carried
  <2>12. Won' /\ CurrentBrief'
    BY <2>5, <2>10, <2>11, NoneAssumption, <2>4 DEF Won, CurrentBrief
  <2>13. QED
    BY <2>6, <2>7, <2>8, <2>9, <2>12, TypePartsNext DEF IInv
<1>7. QED
  BY <1>3, <1>4, <1>5, <1>6

LEMMA EndBriefCalm ==
  ASSUME IInv, EndBrief
  PROVE  TypeOK' /\ Calm
<1>1. Typed /\ Busy /\ ~Trying
  BY TypeParts DEF IInv, EndBrief, Busy, Trying
<1>2. /\ jobs' = Completed(writer.job, writer.token, writer.result) /\ writer' = IdleWriter
      /\ UNCHANGED <<source, attempts, extractor, request, requests, faults>>
  BY DEF EndBrief
<1>3. writer.result \in Ended /\ writer.result \in {"failed", "canceled"}
  BY <1>1 DEF Ended, Typed, WriterRec, Outcome, EndBrief, IInv, WriterAt
<1>4. ASSUME MayComplete(writer.job, writer.token, writer.result),
             InProgress(attempts, jobs[writer.job].attempt)
      PROVE  writer.result = "canceled" /\ jobs[writer.job].canceled
  <2>1. ~Holds(writer.job, writer.token)
    BY <1>1, <1>4, NotTrying
  <2>2. jobs[writer.job].canceled
    BY <1>4, <2>1 DEF Holds, MayComplete
  <2>3. QED
    BY <1>4, <2>2 DEF MayComplete
<1>5. writer.job \in DOMAIN jobs
  BY <1>1, NotTrying
<1>6. Carried /\ jobs' \in Seq(Row)
  BY <1>1, <1>2, <1>3, <1>4, <1>5, CompletedRow DEF IInv
<1>7. writer' \in WriterRec /\ writer'.at = "idle"
  BY <1>2, IdleTyped DEF IdleWriter
<1>8. Goes /\ WinnerKeeps
  BY <1>2, <1>7, WriterFree DEF WinnerKeeps
<1>9. source' \in SourceRec /\ attempts' \in Seq(AttemptStates)
  BY <1>1, <1>2 DEF Typed
<1>10. QED
  BY <1>2, <1>6, <1>7, <1>8, <1>9, AttemptCalm

\* A new attempt: it is the only one in progress, in the row it was bound to.
LEMMA CreateAttemptStep ==
  ASSUME IInv, CreateAttempt
  PROVE  IInv'
<1>1. Typed /\ Counters /\ Busy /\ ~Trying
  BY TypeParts DEF IInv, CreateAttempt, Busy, Trying
<1>2. UNCHANGED <<extractor, request, requests, faults>>
  BY DEF CreateAttempt
<1>3. CASE Conflict
  <2>1. WriterEnds("failed") /\ UNCHANGED <<source, jobs, attempts>>
    BY <1>3 DEF CreateAttempt
  <2>2. /\ writer' \in WriterRec /\ writer'.at = "ending" /\ writer'.result # "none"
        /\ writer'.job = writer.job /\ writer'.token = writer.token
    BY <1>1, <2>1, WriterEnding DEF Outcome
  <2>3. Goes
    BY <1>1, <2>2, KeepsWaiting
  <2>4. QED
    BY <1>2, <2>1, <2>2, <2>3, WriterOnly, CalmStep
<1>4. CASE ~Conflict
  <2>. DEFINE n == Len(attempts) + 1
              c == Chosen
              y == Bound(Chosen)
  <2>1. /\ attempts' = Append(attempts, "processing")
        /\ jobs' = IF c > Len(jobs) THEN Append(jobs, y) ELSE [jobs EXCEPT ![c] = y]
        /\ source' = [source EXCEPT !.brief = "processing"]
        /\ writer' = [writer EXCEPT !.at = "created", !.attempt = Len(attempts'),
                                    !.inner = c, !.key = y.token]
    BY <1>4 DEF CreateAttempt
  <2>2. jobs \in Seq(Row) /\ attempts \in Seq(AttemptStates) /\ n \in Nat /\ Len(jobs) \in Nat
    BY <1>1 DEF Typed
  <2>3. \A a \in DOMAIN attempts : attempts[a] # "processing"
    BY <1>4 DEF Conflict
  <2>4. /\ attempts' \in Seq(AttemptStates) /\ Len(attempts') = n
        /\ DOMAIN attempts' = DOMAIN attempts \cup {n} /\ n \notin DOMAIN attempts
        /\ attempts'[n] = "processing"
        /\ \A a \in DOMAIN attempts : attempts'[a] = attempts[a]
    BY <2>1, <2>2 DEF AttemptStates
  <2>5. \A a : InProgress(attempts', a) <=> a = n
    BY <2>3, <2>4 DEF InProgress
  <2>6. /\ c \in Nat /\ c \in 1..(Len(jobs) + 1)
        /\ c \in DOMAIN jobs <=> ~(c > Len(jobs))
        /\ c \in DOMAIN jobs =>
             jobs[c].kind = "brief" /\ jobs[c].status # "succeeded"
             /\ jobs[c].status \in {"pending", "running"} /\ ~jobs[c].canceled
    BY <1>1, <2>2, ChosenLive DEF Candidates, Live, Active
  <2>7. /\ y \in Row /\ y.kind = "brief" /\ y.attempt = n /\ y.status = "running" /\ ~y.canceled
    <3>. DEFINE row == IF c > Len(jobs) THEN NewJob("brief") ELSE jobs[c]
                leased == IF row.status = "pending" THEN Leased(row) ELSE row
    <3>1. /\ row \in Row /\ row.kind = "brief" /\ row.status \in {"pending", "running"}
          /\ ~row.canceled
      <4>1. CASE c > Len(jobs)
        BY <4>1, NewRow DEF Kinds
      <4>2. CASE ~(c > Len(jobs))
        BY <1>1, <2>6, <4>2, RowTyped
      <4>3. QED
        BY <4>1, <4>2
    <3>. HIDE DEF row
    <3>2. /\ leased \in Row /\ leased.kind = "brief" /\ leased.status = "running"
          /\ ~leased.canceled
      BY <3>1, LeasedRow
    <3>3. y = [leased EXCEPT !.attempt = n]
      BY DEF Bound, row
    <3>. HIDE DEF leased, y
    <3>4. QED
      BY <2>2, <3>2, <3>3 DEF Row
  <2>. HIDE DEF y, c
  <2>8. /\ jobs' \in Seq(Row) /\ DOMAIN jobs' = DOMAIN jobs \cup {c} /\ jobs'[c] = y
        /\ \A j \in DOMAIN jobs : j # c => jobs'[j] = jobs[j]
    <3>1. CASE c > Len(jobs)
      <4>1. jobs' = Append(jobs, y) /\ c = Len(jobs) + 1
        BY <2>1, <2>2, <2>6, <3>1
      <4>2. QED
        BY <2>2, <2>7, <4>1
    <3>2. CASE ~(c > Len(jobs))
      <4>1. jobs' = [jobs EXCEPT ![c] = y] /\ c \in DOMAIN jobs
        BY <2>1, <2>6, <3>2
      <4>2. QED
        BY <2>2, <2>7, <4>1
    <3>3. QED
      BY <3>1, <3>2
  <2>. HIDE DEF n
  <2>9. /\ writer' \in WriterRec /\ writer'.at = "created" /\ writer'.attempt = n
        /\ writer'.inner = c /\ writer'.key = y.token
        /\ writer'.job = writer.job /\ writer'.token = writer.token
    <3>1. writer \in WriterRec /\ y.token \in Nat
      BY <1>1, <2>7 DEF Typed, Row
    <3>2. QED
      BY <2>1, <2>2, <2>4, <2>6, <3>1 DEF WriterRec, WriterPlaces
  <2>10. source' \in SourceRec /\ source'.winner = source.winner /\ source'.brief = "processing"
    <3>1. source \in SourceRec /\ "processing" \in BriefStates
      BY <1>1 DEF Typed, BriefStates
    <3>2. QED
      BY <2>1, <3>1 DEF SourceRec
  <2>11. Typed' /\ Counters'
    BY <1>1, <1>2, <2>4, <2>8, <2>9, <2>10 DEF Typed, Counters
  <2>12. \A j \in DOMAIN jobs' : j # c => j \in DOMAIN jobs /\ jobs'[j].attempt # n
    <3>1. \A j \in DOMAIN jobs : jobs[j].attempt # n
      BY <2>2, <2>4, NoneAssumption DEF IInv, Rows
    <3>2. QED
      BY <2>8, <3>1
  <2>13. Rows'
    BY <2>4, <2>7, <2>8, <2>12 DEF IInv, Rows
  <2>14. Waiting'
    BY <2>5, <2>7, <2>8, <2>12 DEF Waiting
  <2>15. AttemptOwned'
    <3>1. \A a \in DOMAIN attempts' : attempts'[a] = "processing" => a = n
      BY <2>5 DEF InProgress
    <3>2. c \in DOMAIN jobs' /\ jobs'[c].attempt = n /\ jobs'[c].status = "running"
      BY <2>7, <2>8
    <3>3. QED
      BY <3>1, <3>2 DEF AttemptOwned
  <2>16. ExtractorAt'
    BY <1>2, <2>6, <2>8 DEF IInv, ExtractorAt
  <2>17. WriterAt'
    <3>1. writer'.job \in DOMAIN jobs'
      BY <1>1, <2>8, <2>9, NotTrying
    <3>2. QED
      BY <2>4, <2>8, <2>9, <3>1 DEF WriterAt
  <2>18. Working'
    <3>1. ASSUME Holds(writer.job, writer.token)', InProgress(attempts', jobs'[writer'.job].attempt)
          PROVE  /\ Trying' /\ writer'.inner = writer'.job /\ writer'.key = writer'.token
                 /\ jobs'[writer'.job].attempt = writer'.attempt
      <4>1. writer'.job = c
        BY <1>1, <2>5, <2>8, <2>9, <2>12, <3>1, NotTrying
      <4>2. jobs'[c].token = writer'.token
        BY <3>1, <4>1 DEF Holds
      <4>3. QED
        BY <2>7, <2>8, <2>9, <4>1, <4>2 DEF Trying
    <3>2. QED
      BY <3>1 DEF Working
  <2>19. Won' /\ CurrentBrief'
    <3>1. Won'
      BY <2>4, <2>10 DEF IInv, Won
    <3>2. ASSUME source.winner # None
          PROVE  /\ attempts'[source.winner] = "succeeded"
                 /\ \E j \in DOMAIN jobs' : /\ jobs'[j].attempt = source.winner
                                            /\ jobs'[j].status = "succeeded" /\ ~jobs'[j].canceled
      <4>1. attempts'[source.winner] = "succeeded"
        BY <2>4, <3>2 DEF IInv, Won, CurrentBrief
      <4>2. PICK j \in DOMAIN jobs : /\ jobs[j].attempt = source.winner
                                     /\ jobs[j].status = "succeeded" /\ ~jobs[j].canceled
        BY <3>2 DEF IInv, CurrentBrief
      <4>3. jobs'[j] = jobs[j] /\ j \in DOMAIN jobs'
        BY <2>6, <2>8, <4>2
      <4>4. QED
        BY <4>1, <4>2, <4>3
    <3>3. CurrentBrief'
      BY <2>10, <3>2 DEF CurrentBrief
    <3>4. QED
      BY <3>1, <3>3
  <2>20. QED
    BY <2>11, <2>13, <2>14, <2>15, <2>16, <2>17, <2>18, <2>19, TypePartsNext DEF IInv
<1>5. QED
  BY <1>3, <1>4

-----------------------------------------------------------------------------
(* Recovery, requests, time and the process. *)

\* The threads are left alone.
LEMMA HostCalm ==
  ASSUME IInv, UNCHANGED <<extractor, writer>>, Counters', Carried, WinnerKeeps,
         source' \in SourceRec, jobs' \in Seq(Row), attempts' \in Seq(AttemptStates),
         \A a \in DOMAIN attempts : attempts'[a] = "succeeded" => attempts[a] = "succeeded"
  PROVE  TypeOK' /\ Calm
<1>1. Typed'
  BY TypeParts DEF IInv, Typed
<1>2. Goes
  BY WriterStays DEF IInv
<1>3. ExtractorKeeps
  BY DEF ExtractorKeeps, IInv, ExtractorAt
<1>4. QED
  BY <1>1, <1>2, <1>3, TypePartsNext DEF Calm

\* The attempts recovery ends: those of the lost jobs, never one that won.
LEMMA RecoveredEnds ==
  ASSUME IInv, NEW lost \in SUBSET DOMAIN jobs,
         attempts' = [a \in DOMAIN attempts |-> RecoveredAttempt(a, lost)]
  PROVE  /\ attempts' \in Seq(AttemptStates) /\ AttemptsEnd(attempts, attempts')
         /\ \A a \in DOMAIN attempts : attempts'[a] = "succeeded" => attempts[a] = "succeeded"
         /\ \A j \in lost : ~InProgress(attempts', jobs[j].attempt)
<1>1. Typed
  BY TypeParts DEF IInv
<1>2. attempts \in Seq(AttemptStates)
  BY <1>1 DEF Typed
<1>3. \A a \in DOMAIN attempts :
        attempts'[a] = attempts[a] \/ (attempts[a] = "processing" /\ attempts'[a] = "failed")
  BY DEF RecoveredAttempt
<1>4. attempts' \in Seq(AttemptStates)
  <2>1. DOMAIN attempts = 1..Len(attempts) /\ Len(attempts) \in Nat
    BY <1>2
  <2>2. \A a \in DOMAIN attempts : attempts'[a] \in AttemptStates
    BY <1>2, <1>3 DEF AttemptStates
  <2>3. attempts' \in [1..Len(attempts) -> AttemptStates]
    BY <2>1, <2>2
  <2>4. QED
    BY <2>1, <2>3
<1>5. AttemptsEnd(attempts, attempts')
  BY <1>3 DEF AttemptsEnd
<1>6. ASSUME NEW j \in lost, InProgress(attempts', jobs[j].attempt)
      PROVE  FALSE
  <2>1. InProgress(attempts, jobs[j].attempt)
    BY <1>5, <1>6, StillInProgress
  <2>2. jobs[j].kind = "brief"
    BY <1>1, <2>1, OtherKinds DEF IInv
  <2>3. RecoveredAttempt(jobs[j].attempt, lost) = "failed"
    BY <2>1, <2>2 DEF RecoveredAttempt, InProgress
  <2>4. QED
    BY <1>6, <2>1, <2>3 DEF InProgress
<1>7. QED
  BY <1>3, <1>4, <1>5, <1>6

\* Rows that move each on its own.
LEMMA AllRows ==
  ASSUME Typed, jobs' \in [DOMAIN jobs -> Row], AttemptsEnd(attempts, attempts'),
         \A j \in DOMAIN jobs :
           Moves(jobs[j], jobs'[j], InProgress(attempts', jobs[j].attempt))
  PROVE  Carried /\ jobs' \in Seq(Row)
<1>1. DOMAIN jobs = 1..Len(jobs) /\ Len(jobs) \in Nat
  BY DEF Typed
<1>2. jobs' \in Seq(Row) /\ DOMAIN jobs' = DOMAIN jobs
  BY <1>1
<1>3. QED
  BY <1>2 DEF Carried

\* A lost job, whose attempt is over.
LEMMA RecoveredRow ==
  ASSUME Typed, NEW j \in DOMAIN jobs, Stale(j), NEW p, ~p
  PROVE  Recovered(j) \in Row /\ Moves(jobs[j], Recovered(j), p)
<1>. DEFINE row == jobs[j]
            lost == [row EXCEPT !.retries = @ + 1]
<1>1. row \in Row /\ row.status = "running"
  BY RowTyped DEF Stale
<1>. HIDE DEF row
<1>2. CASE row.canceled
  <2>1. Recovered(j) = Ending(row, "canceled")
    BY <1>2 DEF Recovered, row
  <2>2. Moves(row, Ending(row, "canceled"), p) /\ Ending(row, "canceled") \in Row
    BY <1>1, EndedRow, EndedMoves DEF Ended
  <2>3. QED
    BY <2>1, <2>2 DEF row
<1>3. CASE ~row.canceled /\ row.retries = RequeueMax
  <2>1. Recovered(j) = Ending(lost, "failed")
    BY <1>3 DEF Recovered, row
  <2>2. Ending(lost, "failed") = Ending(row, "failed")
    <3>1. lost.kind = row.kind /\ lost.canceled = row.canceled
      BY <1>1 DEF Row
    <3>2. QED
      BY <3>1 DEF Ending
  <2>3. Moves(row, Ending(row, "failed"), p) /\ Ending(row, "failed") \in Row
    BY <1>1, EndedRow, EndedMoves DEF Ended
  <2>4. QED
    BY <2>1, <2>2, <2>3 DEF row
<1>4. CASE ~row.canceled /\ row.retries # RequeueMax
  <2>1. Recovered(j) = Ending(lost, "pending")
    BY <1>4 DEF Recovered, row
  <2>2. row.retries + 1 \in 0..RequeueMax
    BY <1>1, <1>4, RequeueAssumption DEF Row
  <2>3. lost \in Row /\ lost.kind = row.kind /\ lost.attempt = row.attempt
    BY <1>1, <2>2 DEF Row
  <2>. HIDE DEF lost
  <2>4. /\ Ending(lost, "pending") \in Row /\ Ending(lost, "pending").kind = row.kind
        /\ Ending(lost, "pending").attempt = row.attempt
    BY <2>3, EndedRow
  <2>5. Moves(row, Ending(lost, "pending"), p)
    BY <1>1, <2>4 DEF Moves
  <2>6. QED
    BY <2>1, <2>4, <2>5 DEF row
<1>5. QED
  BY <1>2, <1>3, <1>4

LEMMA RecoverCalm ==
  ASSUME IInv, Recover
  PROVE  TypeOK' /\ Calm
<1>. DEFINE lost == {j \in DOMAIN jobs : Stale(j)}
<1>1. Typed /\ Counters
  BY TypeParts DEF IInv
<1>2. /\ jobs' = [j \in DOMAIN jobs |-> Recovered(j)]
      /\ attempts' = [a \in DOMAIN attempts |-> RecoveredAttempt(a, lost)]
      /\ UNCHANGED <<extractor, writer, request, requests, faults>>
  BY DEF Recover
<1>3. /\ attempts' \in Seq(AttemptStates) /\ AttemptsEnd(attempts, attempts')
      /\ \A a \in DOMAIN attempts : attempts'[a] = "succeeded" => attempts[a] = "succeeded"
      /\ \A j \in lost : ~InProgress(attempts', jobs[j].attempt)
  <2>1. lost \in SUBSET DOMAIN jobs
    OBVIOUS
  <2>. HIDE DEF lost
  <2>2. QED
    BY <1>2, <2>1, RecoveredEnds
<1>4. ASSUME NEW j \in DOMAIN jobs
      PROVE  jobs'[j] \in Row /\ Moves(jobs[j], jobs'[j], InProgress(attempts', jobs[j].attempt))
  <2>1. CASE Stale(j)
    BY <1>1, <1>2, <1>3, <2>1, RecoveredRow
  <2>2. CASE ~Stale(j)
    <3>1. jobs'[j] = jobs[j]
      BY <1>2, <2>2 DEF Recovered
    <3>2. QED
      BY <1>1, <1>3, <3>1, RowTyped, GoingRow, StayMoves DEF IInv
  <2>3. QED
    BY <2>1, <2>2
<1>5. Carried /\ jobs' \in Seq(Row)
  <2>1. jobs' \in [DOMAIN jobs -> Row]
    BY <1>2, <1>4
  <2>2. QED
    BY <1>1, <1>3, <1>4, <2>1, AllRows
<1>6. source' \in SourceRec /\ WinnerKeeps
  <2>1. source \in SourceRec /\ "not_started" \in BriefStates
    BY <1>1 DEF Typed, BriefStates
  <2>2. source' = source \/ source' = [source EXCEPT !.brief = "not_started"]
    BY DEF Recover
  <2>3. QED
    BY <2>1, <2>2 DEF SourceRec, WinnerKeeps
<1>7. Counters'
  BY <1>1, <1>2 DEF Counters
<1>8. QED
  BY <1>2, <1>3, <1>5, <1>6, <1>7, HostCalm

\* Rows and attempts are left alone, and the threads.
LEMMA SourceCalm ==
  ASSUME IInv, UNCHANGED <<jobs, attempts, extractor, writer>>, Counters',
         source' \in SourceRec, WinnerKeeps
  PROVE  TypeOK' /\ Calm
<1>1. Typed
  BY TypeParts DEF IInv
<1>2. Carried
  BY <1>1, SameRows DEF IInv
<1>3. QED
  BY <1>1, <1>2, HostCalm DEF Typed

LEMMA RebuildCalm ==
  ASSUME IInv, ReadForRebuild \/ ShowQueued \/ RefreshOutdated
  PROVE  TypeOK' /\ Calm
<1>1. Typed /\ Counters
  BY TypeParts DEF IInv
<1>2. source \in SourceRec /\ {"pending", "outdated", "ready"} \in SUBSET BriefStates
  BY <1>1 DEF Typed, BriefStates
<1>3. CASE ReadForRebuild
  <2>1. /\ UNCHANGED <<source, jobs, attempts, extractor, writer, faults>>
        /\ requests' = requests + 1 /\ requests < MaxRequests
        /\ request' = [at |-> "read", processing |-> source.brief = "processing"]
    BY <1>3 DEF ReadForRebuild
  <2>2. requests' \in 0..MaxRequests
    BY <1>1, <2>1, BoundAssumption DEF Counters
  <2>3. request' \in RequestRec
    BY <2>1 DEF RequestRec
  <2>4. Counters'
    BY <1>1, <2>1, <2>2, <2>3 DEF Counters
  <2>5. QED
    BY <1>2, <2>1, <2>4, SourceCalm DEF WinnerKeeps
<1>4. CASE ShowQueued
  <2>1. UNCHANGED <<jobs, attempts, extractor, writer, requests, faults>> /\ request' = NoRequest
    BY <1>4 DEF ShowQueued
  <2>2. Counters'
    BY <1>1, <2>1, IdleTyped DEF Counters
  <2>3. source' = source \/ source' = [source EXCEPT !.brief = "pending"]
    BY <1>4 DEF ShowQueued
  <2>4. source' \in SourceRec /\ WinnerKeeps
    BY <1>2, <2>3 DEF SourceRec, WinnerKeeps
  <2>5. QED
    BY <2>1, <2>2, <2>4, SourceCalm
<1>5. CASE RefreshOutdated
  <2>1. /\ UNCHANGED <<jobs, attempts, extractor, writer, request, requests, faults>>
        /\ source.winner # None
        /\ \E b \in {"ready", "outdated"} : source' = [source EXCEPT !.brief = b]
    BY <1>5 DEF RefreshOutdated
  <2>2. Counters'
    BY <1>1, <2>1 DEF Counters
  <2>3. source' \in SourceRec /\ WinnerKeeps
    BY <1>2, <2>1 DEF SourceRec, WinnerKeeps
  <2>4. QED
    BY <2>1, <2>2, <2>3, SourceCalm
<1>6. QED
  BY <1>3, <1>4, <1>5

\* A job is appended after rows that moved each on its own.
LEMMA AppendedRow ==
  ASSUME IInv, attempts' = attempts, NEW K \in [DOMAIN jobs -> Row], NEW k \in Kinds,
         jobs' = Append(K, NewJob(k)),
         \A j \in DOMAIN jobs : Moves(jobs[j], K[j], InProgress(attempts, jobs[j].attempt))
  PROVE  Carried /\ jobs' \in Seq(Row)
<1>1. Typed
  BY TypeParts DEF IInv
<1>2. DOMAIN jobs = 1..Len(jobs) /\ Len(jobs) \in Nat
  BY <1>1 DEF Typed
<1>3. K \in Seq(Row) /\ Len(K) = Len(jobs)
  BY <1>2
<1>4. NewJob(k) \in Row /\ NewJob(k).attempt = None
  BY NewRow
<1>5. /\ jobs' \in Seq(Row) /\ DOMAIN jobs' = 1..(Len(jobs) + 1)
      /\ \A j \in 1..Len(jobs) : jobs'[j] = K[j]
      /\ jobs'[Len(jobs) + 1] = NewJob(k)
  BY <1>2, <1>3, <1>4
<1>6. AttemptsEnd(attempts, attempts')
  BY DEF AttemptsEnd
<1>7. \A j \in DOMAIN jobs' : j \notin DOMAIN jobs => jobs'[j].attempt = None
  <2>1. \A j \in 1..(Len(jobs) + 1) : j \notin 1..Len(jobs) => j = Len(jobs) + 1
    BY <1>2
  <2>2. QED
    BY <1>2, <1>4, <1>5, <2>1
<1>8. DOMAIN jobs \subseteq DOMAIN jobs'
  BY <1>2, <1>5
<1>9. QED
  BY <1>2, <1>5, <1>6, <1>7, <1>8 DEF Carried

LEMMA QueueBriefCalm ==
  ASSUME IInv, QueueBrief
  PROVE  TypeOK' /\ Calm
<1>1. Typed /\ Counters
  BY TypeParts DEF IInv
<1>2. UNCHANGED <<source, attempts, extractor, writer, requests, faults>>
  BY DEF QueueBrief
<1>3. request' \in RequestRec
  <2>1. request \in RequestRec
    BY <1>1 DEF Counters
  <2>2. \/ request' = NoRequest \/ request' = [at |-> "queued", processing |-> FALSE]
        \/ request' = [request EXCEPT !.at = "queued"]
    BY DEF QueueBrief
  <2>3. [at |-> "queued", processing |-> FALSE] \in RequestRec
    BY DEF RequestRec
  <2>4. [request EXCEPT !.at = "queued"] \in RequestRec
    BY <2>1 DEF RequestRec
  <2>5. QED
    BY <2>2, <2>3, <2>4, IdleTyped
<1>4. Counters'
  BY <1>1, <1>2, <1>3 DEF Counters
<1>5. Carried /\ jobs' \in Seq(Row)
  <2>1. CASE jobs' = jobs
    BY <1>1, <1>2, <2>1, SameRows DEF IInv, Typed
  <2>2. CASE jobs' = Append(jobs, NewJob("brief"))
    <3>1. jobs \in [DOMAIN jobs -> Row] /\ "brief" \in Kinds
      BY <1>1, RowTyped DEF Typed, Kinds
    <3>2. \A j \in DOMAIN jobs : Moves(jobs[j], jobs[j], InProgress(attempts, jobs[j].attempt))
      BY StayMoves DEF IInv, Waiting
    <3>3. QED
      BY <1>2, <2>2, <3>1, <3>2, AppendedRow
  <2>3. QED
    BY <2>1, <2>2 DEF QueueBrief
<1>6. WinnerKeeps /\ source' \in SourceRec /\ attempts' \in Seq(AttemptStates)
  BY <1>1, <1>2 DEF WinnerKeeps, Typed
<1>7. QED
  BY <1>2, <1>4, <1>5, <1>6, HostCalm

LEMMA MarkCanceledCalm ==
  ASSUME IInv, NEW j \in DOMAIN jobs, MarkCanceled(j)
  PROVE  TypeOK' /\ Calm
<1>1. Typed /\ Counters
  BY TypeParts DEF IInv
<1>2. /\ UNCHANGED <<attempts, extractor, writer, request, faults>>
      /\ requests < MaxRequests /\ requests' = requests + 1
      /\ jobs' = [jobs EXCEPT ![j] = Marked(jobs[j])]
      /\ jobs[j].status \in {"pending", "running"}
  BY DEF MarkCanceled, Live, Active
<1>3. Counters'
  BY <1>1, <1>2, BoundAssumption DEF Counters
<1>4. Carried /\ jobs' \in Seq(Row)
  <2>1. /\ Marked(jobs[j]) \in Row
        /\ Moves(jobs[j], Marked(jobs[j]), InProgress(attempts', jobs[j].attempt))
    BY <1>1, <1>2, RowTyped, MarkedMoves
  <2>2. AttemptsEnd(attempts, attempts')
    BY <1>2 DEF AttemptsEnd
  <2>3. QED
    BY <1>1, <1>2, <2>1, <2>2, OneRow DEF IInv
<1>5. source' \in SourceRec /\ WinnerKeeps
  <2>1. source \in SourceRec /\ "not_started" \in BriefStates
    BY <1>1 DEF Typed, BriefStates
  <2>2. source' = source \/ source' = [source EXCEPT !.brief = "not_started"]
    BY DEF MarkCanceled
  <2>3. QED
    BY <2>1, <2>2 DEF SourceRec, WinnerKeeps
<1>6. attempts' \in Seq(AttemptStates)
  BY <1>1, <1>2 DEF Typed
<1>7. QED
  BY <1>2, <1>3, <1>4, <1>5, <1>6, HostCalm

LEMMA BeginDeleteCalm ==
  ASSUME IInv, BeginDelete
  PROVE  TypeOK' /\ Calm
<1>. DEFINE K == [j \in DOMAIN jobs |->
                    IF Live(j) THEN Ending([jobs[j] EXCEPT !.canceled = TRUE], "canceled")
                    ELSE jobs[j]]
<1>1. Typed /\ Counters
  BY TypeParts DEF IInv
<1>2. /\ UNCHANGED <<attempts, extractor, writer, request, requests, faults>>
      /\ source' = [source EXCEPT !.life = "deleting"] /\ jobs' = Append(K, NewJob("delete"))
  BY DEF BeginDelete
<1>3. ASSUME NEW j \in DOMAIN jobs
      PROVE  K[j] \in Row /\ Moves(jobs[j], K[j], InProgress(attempts, jobs[j].attempt))
  <2>1. jobs[j] \in Row
    BY <1>1, RowTyped
  <2>2. CASE Live(j)
    BY <2>1, <2>2, CanceledMoves DEF Live, Active
  <2>3. CASE ~Live(j)
    BY <2>1, <2>3, StayMoves DEF IInv, Waiting
  <2>4. QED
    BY <2>2, <2>3
<1>4. Carried /\ jobs' \in Seq(Row)
  <2>1. K \in [DOMAIN jobs -> Row] /\ "delete" \in Kinds
    BY <1>3 DEF Kinds
  <2>. HIDE DEF K
  <2>2. QED
    BY <1>2, <1>3, <2>1, AppendedRow
<1>5. source' \in SourceRec /\ WinnerKeeps
  <2>1. source \in SourceRec
    BY <1>1 DEF Typed
  <2>2. QED
    BY <1>2, <2>1 DEF SourceRec, WinnerKeeps
<1>6. Counters' /\ attempts' \in Seq(AttemptStates)
  BY <1>1, <1>2 DEF Counters, Typed
<1>7. QED
  BY <1>2, <1>4, <1>5, <1>6, HostCalm

LEMMA LeaseExpiresCalm ==
  ASSUME IInv, NEW j \in DOMAIN jobs, LeaseExpires(j)
  PROVE  TypeOK' /\ Calm
<1>1. Typed /\ Counters
  BY TypeParts DEF IInv
<1>2. /\ UNCHANGED <<source, attempts, extractor, writer, request, requests>>
      /\ faults' \in {faults, faults + 1} /\ faults' <= MaxFaults
      /\ jobs' = [jobs EXCEPT ![j] = [jobs[j] EXCEPT !.lease = "expired"]]
      /\ jobs[j].status = "running"
  BY DEF LeaseExpires
<1>3. Counters'
  BY <1>1, <1>2, BoundAssumption DEF Counters
<1>4. Carried /\ jobs' \in Seq(Row)
  <2>. DEFINE y == [jobs[j] EXCEPT !.lease = "expired"]
  <2>1. y \in Row /\ Moves(jobs[j], y, InProgress(attempts', jobs[j].attempt))
    BY <1>1, <1>2, RowTyped, ExpiredMoves
  <2>2. AttemptsEnd(attempts, attempts')
    BY <1>2 DEF AttemptsEnd
  <2>3. jobs' = [jobs EXCEPT ![j] = y]
    BY <1>2
  <2>. HIDE DEF y
  <2>4. QED
    BY <1>1, <2>1, <2>2, <2>3, OneRow DEF IInv
<1>5. source' \in SourceRec /\ WinnerKeeps /\ attempts' \in Seq(AttemptStates)
  BY <1>1, <1>2 DEF Typed, WinnerKeeps
<1>6. QED
  BY <1>2, <1>3, <1>4, <1>5, HostCalm DEF IInv, Typed

\* A new process knows nothing of its threads; it ends the attempts of the jobs it puts back.
LEMMA CrashStep ==
  ASSUME IInv, Crash
  PROVE  IInv'
<1>1. Typed /\ Counters
  BY TypeParts DEF IInv
<1>2. /\ extractor' = IdleExtractor /\ writer' = IdleWriter /\ request' = NoRequest
      /\ faults < MaxFaults /\ faults' = faults + 1 /\ UNCHANGED requests
  BY DEF Crash
<1>3. Counters'
  BY <1>1, <1>2, IdleTyped, BoundAssumption DEF Counters
<1>4. CASE source' = PurgedSource /\ jobs' = PurgedJobs /\ attempts' = PurgedAttempts
  BY <1>2, <1>3, <1>4, PurgeStep
<1>5. CASE \E lapsed \in SUBSET Leases : Restarted(lapsed)
  <2>1. PICK lapsed \in SUBSET Leases : Restarted(lapsed)
    BY <1>5
  <2>2. /\ jobs' = [j \in DOMAIN jobs |-> IF j \in lapsed THEN Ending(jobs[j], "pending")
                                          ELSE jobs[j]]
        /\ attempts' = [a \in DOMAIN attempts |-> RecoveredAttempt(a, lapsed)]
        /\ UNCHANGED source
    BY <2>1 DEF Restarted
  <2>3. lapsed \in SUBSET DOMAIN jobs /\ \A j \in lapsed : jobs[j].status = "running"
    BY DEF Leases
  <2>4. /\ attempts' \in Seq(AttemptStates) /\ AttemptsEnd(attempts, attempts')
        /\ \A j \in lapsed : ~InProgress(attempts', jobs[j].attempt)
    BY <2>2, <2>3, RecoveredEnds
  <2>5. ASSUME NEW j \in DOMAIN jobs
        PROVE  jobs'[j] \in Row /\ Moves(jobs[j], jobs'[j], InProgress(attempts', jobs[j].attempt))
    <3>1. jobs[j] \in Row
      BY <1>1, RowTyped
    <3>2. CASE j \in lapsed
      <4>1. jobs[j].status # "succeeded" /\ jobs'[j] = Ending(jobs[j], "pending")
        BY <2>2, <2>3, <3>2
      <4>2. QED
        BY <2>4, <3>1, <3>2, <4>1, EndedRow, EndedMoves
    <3>3. CASE j \notin lapsed
      BY <1>1, <2>2, <2>4, <3>1, <3>3, GoingRow, StayMoves DEF IInv
    <3>4. QED
      BY <3>2, <3>3
  <2>6. Carried /\ jobs' \in Seq(Row)
    <3>1. jobs' \in [DOMAIN jobs -> Row]
      BY <2>2, <2>5
    <3>2. QED
      BY <1>1, <2>4, <2>5, <3>1, AllRows
  <2>7. Goes
    BY <1>2, WriterFree DEF IdleWriter
  <2>8. WinnerKeeps /\ ExtractorKeeps
    BY <1>2, <2>2 DEF WinnerKeeps, ExtractorKeeps, IdleExtractor
  <2>9. TypeOK'
    BY <1>1, <1>2, <1>3, <2>2, <2>4, <2>6, IdleTyped, TypePartsNext DEF Typed
  <2>10. QED
    BY <2>6, <2>7, <2>8, <2>9, CalmStep DEF Calm
<1>6. QED
  BY <1>4, <1>5 DEF Crash

-----------------------------------------------------------------------------
(* The theorems. *)

LEMMA Initially ==
  ASSUME Init
  PROVE  IInv
<1>1. NewJob("extract") \in Row /\ NewJob("extract").attempt = None
  BY NewRow DEF Kinds
<1>2. /\ jobs \in Seq(Row) /\ DOMAIN jobs = {1} /\ jobs[1] = NewJob("extract")
      /\ attempts \in Seq(AttemptStates) /\ DOMAIN attempts = {}
  BY <1>1 DEF Init
<1>3. source \in SourceRec /\ source.winner = None /\ source.brief = "not_started"
  BY DEF Init, SourceRec, BriefStates
<1>4. /\ extractor \in ExtractorRec /\ writer \in WriterRec /\ Counters
      /\ extractor.at = "idle" /\ writer.at = "idle"
  BY IdleTyped, BoundAssumption DEF Init, Counters, IdleExtractor, IdleWriter
<1>5. TypeOK
  BY <1>2, <1>3, <1>4, TypeParts DEF Typed
<1>6. Rows /\ Waiting /\ AttemptOwned
  BY <1>1, <1>2 DEF Rows, Waiting, AttemptOwned, InProgress
<1>7. ExtractorAt /\ WriterAt /\ Working
  BY <1>4 DEF ExtractorAt, WriterAt, Working, Busy, Trying
<1>8. Won /\ CurrentBrief
  BY <1>3 DEF Won, CurrentBrief
<1>9. QED
  BY <1>5, <1>6, <1>7, <1>8 DEF IInv

LEMMA Stuttering ==
  ASSUME IInv, UNCHANGED vars
  PROVE  IInv'
<1>1. TypeOK'
  BY DEF IInv, TypeOK, vars
<1>2. WinnerKeeps /\ source' \in SourceRec /\ Counters'
  BY <1>1, TypePartsNext DEF WinnerKeeps, Typed, vars
<1>3. Calm
  BY <1>2, SourceCalm DEF vars
<1>4. QED
  BY <1>1, <1>3, CalmStep

\* The invariant of KnowledgeJobs: its types; only Brief jobs have attempts, none while
\* they wait; the threads work at rows there are; the attempt in progress of the job the
\* writer holds is the writer's own; and the two properties below.
THEOREM JobsInvariant == Spec => []IInv
<1>1. Init => IInv
  BY Initially
<1>2. IInv /\ [Next]_vars => IInv'
  <2>. SUFFICES ASSUME IInv, [Next]_vars PROVE IInv'
    OBVIOUS
  <2>1. CASE Recover
    BY <2>1, RecoverCalm, CalmStep
  <2>2. CASE Extractor
    BY <2>2, ClaimExtractionStep, ExtractorCalm, CompletePurgeStep, CalmStep DEF Extractor
  <2>3. CASE Writer
    <3>1. CASE ClaimBrief \/ CreateAttempt \/ Commit
      BY <3>1, ClaimBriefStep, CreateAttemptStep, CommitStep
    <3>2. CASE \/ StartBrief \/ ShowBlocked \/ CheckCanceled \/ Generate \/ CheckAnswer
               \/ FailAttempt \/ EndBrief
      <4>1. TypeOK' /\ Calm
        BY <3>2, StartBriefCalm, ShowBlockedCalm, TryingCalm, FailAttemptCalm, EndBriefCalm
      <4>2. QED
        BY <4>1, CalmStep
    <3>3. QED
      BY <2>3, <3>1, <3>2 DEF Writer
  <2>4. CASE ReadForRebuild \/ QueueBrief \/ ShowQueued \/ BeginDelete \/ RefreshOutdated
    BY <2>4, RebuildCalm, QueueBriefCalm, BeginDeleteCalm, CalmStep
  <2>5. CASE \E j \in DOMAIN jobs : MarkCanceled(j) \/ LeaseExpires(j)
    BY <2>5, MarkCanceledCalm, LeaseExpiresCalm, CalmStep
  <2>6. CASE Crash
    BY <2>6, CrashStep
  <2>7. CASE UNCHANGED vars
    BY <2>7, Stuttering
  <2>8. QED
    BY <2>1, <2>2, <2>3, <2>4, <2>5, <2>6, <2>7 DEF Next
<1>3. QED
  BY <1>1, <1>2, PTL DEF Spec

\* The rows, the attempts and the two threads are always of their types, and no job that
\* lives has lost its lease more than RequeueMax times.
THEOREM TypeCorrect == Spec => []TypeOK
<1>1. IInv => TypeOK
  BY DEF IInv
<1>2. QED
  BY <1>1, JobsInvariant, PTL

\* The current Brief is the work of an attempt that succeeded in a job that was neither
\* cancelled nor given away, whatever late owners, recoveries and cancels do
\* (commit_brief_attempt_success, _lock_active_job_for_write).
THEOREM BriefIsCurrent == Spec => []CurrentBrief
<1>1. IInv => CurrentBrief
  BY DEF IInv
<1>2. QED
  BY <1>1, JobsInvariant, PTL

\* An attempt in progress belongs to a job that runs, where recovery finds it, unless
\* that job was cancelled (create_brief_attempt, recover_stale_running_jobs).
THEOREM AttemptsAreOwned == Spec => []AttemptOwned
<1>1. IInv => AttemptOwned
  BY DEF IInv
<1>2. QED
  BY <1>1, JobsInvariant, PTL

==============================================================================
