---------------------------- MODULE KnowledgeJobs ----------------------------
(***************************************************************************)
(* The jobs of one Source of the knowledge base (knowledge/repository.py)  *)
(* and the two threads that run them (knowledge/worker.py): the extraction *)
(* queue extracts and deletes, the brief queue asks a model for a Brief.   *)
(* Beside them are the requests: a rebuild of the Brief, a cancel, the     *)
(* deletion of the Source.                                                 *)
(*                                                                         *)
(* A job is leased when it is claimed.  When a lease runs out is left      *)
(* open: renewing one that has not changes nothing here, and none that has *)
(* is renewed.  Each action is one transaction with the reads before it;   *)
(* where the code reads in one transaction and writes in a later one, so   *)
(* does the model.  A Source is extracted once, so that its Snapshot never *)
(* changes.  Other Sources only keep the threads busy.                     *)
(***************************************************************************)
EXTENDS Integers, Sequences

CONSTANTS
  None,
  RequeueMax,    \* BRIEF_LEASE_REQUEUE_MAX
  MaxRequests,   \* bound: requests to rebuild and to cancel
  MaxFaults      \* bound: ends of the process, and leases lost by a thread at work

ASSUME NoneAssumption == None \notin Nat
ASSUME RequeueAssumption == RequeueMax \in Nat
ASSUME BoundAssumption == MaxRequests \in Nat /\ MaxFaults \in Nat

VARIABLES
  source,     \* the Source, with its Brief
  jobs,       \* knowledge_jobs, oldest first
  attempts,   \* status of knowledge_brief_attempts, oldest first
  extractor,  \* the thread of the extraction queue
  writer,     \* the thread of the brief queue
  request,    \* the rebuild that is under way
  requests, faults

vars == <<source, jobs, attempts, extractor, writer, request, requests, faults>>

Ended == {"succeeded", "failed", "canceled"}
BriefStates == {"not_started", "pending", "processing", "ready", "failed", "outdated"}

NewJob(kind) == [kind |-> kind, status |-> "pending", canceled |-> FALSE, lease |-> "none",
                 token |-> 0, retries |-> 0, attempt |-> None]
IdleExtractor == [at |-> "idle", job |-> None, token |-> 0, result |-> "none"]
\* A writer also has its attempt and the job that create_brief_attempt bound to it,
\* which may be another than the one it claimed.
IdleWriter == [at |-> "idle", job |-> None, token |-> 0, result |-> "none",
               attempt |-> None, inner |-> None, key |-> 0]
NoRequest == [at |-> "idle", processing |-> FALSE]

\* A token is the number of those a job has been given.
TypeOK ==
  /\ source \in [life : {"active", "deleting", "purged"},
                 extraction : {"pending", "extracted", "failed"},
                 brief : BriefStates, winner : Nat \cup {None}]
  /\ jobs \in Seq([kind : {"extract", "brief", "delete"},
                   status : {"pending", "running", "purged"} \cup Ended,
                   canceled : BOOLEAN, lease : {"none", "live", "expired"},
                   token : Nat, retries : 0..RequeueMax,
                   attempt : Nat \cup {None}])
  /\ attempts \in Seq({"processing", "succeeded", "failed", "purged"})
  /\ extractor \in [at : {"idle", "claimed", "moved", "purging", "ending"},
                    job : Nat \cup {None}, token : Nat,
                    result : {"none", "failed", "canceled"}]
  /\ writer \in [at : {"idle", "claimed", "blocked", "ready", "created", "generating",
                       "answered", "checked", "failing", "ending"},
                 job : Nat \cup {None}, token : Nat,
                 result : {"none", "failed", "canceled"}, attempt : Nat \cup {None},
                 inner : Nat \cup {None}, key : Nat]
  /\ request \in [at : {"idle", "read", "queued"}, processing : BOOLEAN]
  /\ requests \in 0..MaxRequests /\ faults \in 0..MaxFaults

\* An import has been committed: its Extraction is queued.
Init ==
  /\ source = [life |-> "active", extraction |-> "pending", brief |-> "not_started",
               winner |-> None]
  /\ jobs = <<NewJob("extract")>> /\ attempts = <<>>
  /\ extractor = IdleExtractor /\ writer = IdleWriter /\ request = NoRequest
  /\ requests = 0 /\ faults = 0

-----------------------------------------------------------------------------
(* Rows. *)

Active(j) == j \in DOMAIN jobs /\ jobs[j].status \in {"pending", "running"}
Live(j) == Active(j) /\ ~jobs[j].canceled

\* _lock_active_job_for_write, _job_record_is_active: the lease of this token holds.
Holds_TokenOnly(j, token) ==   \* mutant: only the token is compared
  jobs[j].status = "running" /\ jobs[j].token = token
Holds(j, token) ==
  /\ jobs[j].status = "running" /\ ~jobs[j].canceled
  /\ jobs[j].token = token /\ jobs[j].lease = "live"

\* is_job_canceled: a row that is gone reads as cancelled.
Canceled(j) == jobs[j].canceled \/ jobs[j].status \in {"canceled", "purged"}

\* Of a job that has ended nobody looks at the token and the lost leases, nor at the
\* attempt of one that failed.
Ending(row, status) ==
  IF status = "pending" THEN [row EXCEPT !.status = status, !.lease = "none"]
  ELSE [NewJob(row.kind) EXCEPT !.status = status, !.canceled = row.canceled,
                                !.attempt = IF status = "failed" THEN None ELSE row.attempt]

\* complete_job; a cancelled job that still runs only accepts its cancellation.
MayComplete(j, token, status) ==
  /\ jobs[j].status = "running" /\ jobs[j].token = token
  /\ IF jobs[j].canceled THEN status = "canceled" ELSE jobs[j].lease = "live"
Completed(j, token, status) ==
  IF MayComplete(j, token, status) THEN [jobs EXCEPT ![j] = Ending(jobs[j], status)] ELSE jobs

-----------------------------------------------------------------------------
(* Recovery, at the start and before every look into a queue. *)

Stale_Lapsed(j) ==   \* mutant: only the leases that ran out are looked for
  jobs[j].status = "running" /\ jobs[j].lease = "expired"
Stale(j) ==
  /\ jobs[j].status = "running"
  /\ jobs[j].canceled \/ jobs[j].lease = "expired"

Recovered_Again(j) ==   \* mutant: retries have no end
  LET row == jobs[j]
  IN  IF ~Stale(j) THEN row
      ELSE IF row.canceled THEN Ending(row, "canceled")
      ELSE Ending([row EXCEPT !.retries = @ + 1], "pending")
Recovered(j) ==
  LET row == jobs[j]
      lost == [row EXCEPT !.retries = @ + 1]
  IN  IF ~Stale(j) THEN row
      ELSE IF row.canceled THEN Ending(row, "canceled")
      ELSE IF row.retries = RequeueMax THEN Ending(lost, "failed")
      ELSE Ending(lost, "pending")

\* The attempt of a lost job or, for a job that had none yet, whichever is in progress.
RecoveredAttempt_Kept(a, lost) == attempts[a]   \* mutant: its attempt is left processing
RecoveredAttempt(a, lost) ==
  IF /\ attempts[a] = "processing"
     /\ \E j \in lost : jobs[j].kind = "brief" /\ jobs[j].attempt \in {a, None}
  THEN "failed" ELSE attempts[a]

GivenUp(j) == Stale(j) /\ Recovered(j).status \in Ended
Recover ==
  /\ extractor.at = "idle" \/ writer.at = "idle"
  /\ LET lost == {j \in DOMAIN jobs : Stale(j)}
     IN  /\ lost # {}
         /\ jobs' = [j \in DOMAIN jobs |-> Recovered(j)]
         /\ attempts' = [a \in DOMAIN attempts |-> RecoveredAttempt(a, lost)]
  /\ source' = IF /\ source.brief = "processing"
                  /\ \E j \in DOMAIN jobs : GivenUp(j) /\ jobs[j].kind = "brief"
               THEN [source EXCEPT !.brief = "not_started"] ELSE source
  /\ UNCHANGED <<extractor, writer, request, requests, faults>>

\* claim_next_job: first in, first out.
Queue(kinds) == {j \in DOMAIN jobs : /\ jobs[j].kind \in kinds
                                     /\ jobs[j].status = "pending" /\ ~jobs[j].canceled}
Foremost(kinds) == CHOOSE j \in Queue(kinds) : \A i \in Queue(kinds) : j <= i
Leased(row) ==
  [row EXCEPT !.status = "running", !.lease = "live", !.token = row.token + 1]

-----------------------------------------------------------------------------
(* The extraction queue. *)

ClaimExtraction ==
  /\ extractor.at = "idle" /\ Queue({"extract", "delete"}) # {}
  /\ LET j == Foremost({"extract", "delete"})
     IN  /\ jobs' = [jobs EXCEPT ![j] = Leased(jobs[j])]
         /\ extractor' = [IdleExtractor EXCEPT !.at = "claimed", !.job = j,
                                               !.token = jobs[j].token + 1]
  /\ UNCHANGED <<source, attempts, writer, request, requests, faults>>

Extracting == extractor.at = "claimed" /\ jobs[extractor.job].kind = "extract"
ExtractorEnds(result) == extractor' = [extractor EXCEPT !.at = "ending", !.result = result]

\* The safe points and the commit, which looks once more.
CommitExtraction ==
  /\ Extracting
  /\ IF Holds(extractor.job, extractor.token) /\ source.life = "active"
     THEN /\ source' = [source EXCEPT !.extraction = "extracted"]
          /\ jobs' = [jobs EXCEPT ![extractor.job] = Ending(jobs[extractor.job], "succeeded")]
          /\ extractor' = IdleExtractor
     ELSE /\ ExtractorEnds(IF Canceled(extractor.job) THEN "canceled" ELSE "failed")
          /\ UNCHANGED <<source, jobs>>
  /\ UNCHANGED <<attempts, writer, request, requests, faults>>

\* The file cannot be read: the Source is marked, whoever has the lease by now.
ExtractionFails ==
  /\ Extracting
  /\ source' = IF source.life = "purged" THEN source
               ELSE [source EXCEPT !.extraction = "failed"]
  /\ ExtractorEnds("failed")
  /\ UNCHANGED <<jobs, attempts, writer, request, requests, faults>>

EndExtraction ==
  /\ extractor.at = "ending"
  /\ jobs' = Completed(extractor.job, extractor.token, extractor.result)
  /\ extractor' = IdleExtractor
  /\ UNCHANGED <<source, attempts, writer, request, requests, faults>>

\* The files are moved away first; a job that cannot go on keeps running until its
\* lease is over.
Deleting == extractor.at = "claimed" /\ jobs[extractor.job].kind = "delete"
Quarantine ==
  /\ Deleting
  /\ \/ extractor' = IdleExtractor
     \/ extractor' = [extractor EXCEPT !.at = "moved"]
  /\ UNCHANGED <<source, jobs, attempts, writer, request, requests, faults>>

RecheckDelete ==
  /\ extractor.at = "moved"
  /\ extractor' = IF Holds(extractor.job, extractor.token)
                  THEN [extractor EXCEPT !.at = "purging"] ELSE IdleExtractor
  /\ UNCHANGED <<source, jobs, attempts, writer, request, requests, faults>>

\* Every row of the Source goes in one transaction.
PurgedJobs == [j \in DOMAIN jobs |-> [NewJob(jobs[j].kind) EXCEPT !.status = "purged"]]
PurgedAttempts == [a \in DOMAIN attempts |-> "purged"]
PurgedSource == [life |-> "purged", extraction |-> "pending", brief |-> "not_started",
                 winner |-> None]
CompletePurge ==
  /\ extractor.at = "purging"
  /\ \/ source' = PurgedSource /\ jobs' = PurgedJobs /\ attempts' = PurgedAttempts
     \/ UNCHANGED <<source, jobs, attempts>>
  /\ extractor' = IdleExtractor
  /\ UNCHANGED <<writer, request, requests, faults>>

-----------------------------------------------------------------------------
(* The brief queue. *)

ClaimBrief ==
  /\ writer.at = "idle" /\ Queue({"brief"}) # {}
  /\ LET j == Foremost({"brief"})
     IN  /\ jobs' = [jobs EXCEPT ![j] = Leased(jobs[j])]
         /\ writer' = [IdleWriter EXCEPT !.at = "claimed", !.job = j,
                                         !.token = jobs[j].token + 1]
  /\ UNCHANGED <<source, attempts, extractor, request, requests, faults>>

WriterEnds(result) ==
  writer' = IF result = "none" THEN IdleWriter
            ELSE [IdleWriter EXCEPT !.at = "ending", !.result = result, !.job = writer.job,
                                    !.token = writer.token]
WriterFails(result) == writer' = [writer EXCEPT !.at = "failing", !.result = result]
LostResult(j) == IF Canceled(j) THEN "canceled" ELSE "failed"

\* Without its lease the writer leaves the job as it is.  It may find that no model is
\* set up, which ends the job; the Source then shows that it waits for one.
StartBrief ==
  /\ writer.at = "claimed"
  /\ \/ /\ ~Holds(writer.job, writer.token)
        /\ writer' = IdleWriter /\ UNCHANGED jobs
     \/ /\ Holds(writer.job, writer.token) /\ source.life # "active"
        /\ WriterEnds("failed") /\ UNCHANGED jobs
     \/ /\ Holds(writer.job, writer.token) /\ source.life = "active"
        /\ writer' = [writer EXCEPT !.at = "ready"] /\ UNCHANGED jobs
     \/ /\ Holds(writer.job, writer.token) /\ source.life = "active"
        /\ jobs' = Completed(writer.job, writer.token, "failed")
        /\ writer' = [IdleWriter EXCEPT !.at = "blocked"]
  /\ UNCHANGED <<source, attempts, extractor, request, requests, faults>>

ShowBlocked ==
  /\ writer.at = "blocked"
  /\ source' = IF source.life = "purged" THEN source ELSE [source EXCEPT !.brief = "pending"]
  /\ writer' = IdleWriter
  /\ UNCHANGED <<jobs, attempts, extractor, request, requests, faults>>

\* create_brief_attempt: the job found may not be the one claimed, which a cancel may
\* have taken away, and one that recovery put back is leased again, by a new token.
Candidates == {j \in DOMAIN jobs : jobs[j].kind = "brief" /\ Live(j)}
Chosen == IF Candidates = {} THEN Len(jobs) + 1
          ELSE CHOOSE j \in Candidates : \A i \in Candidates : i <= j
Bound(j) ==
  LET row == IF j > Len(jobs) THEN NewJob("brief") ELSE jobs[j]
      leased == IF row.status = "pending" THEN Leased(row) ELSE row
  IN  [leased EXCEPT !.attempt = Len(attempts) + 1]

Conflict == source.life # "active" \/ \E a \in DOMAIN attempts : attempts[a] = "processing"
CreateAttempt ==
  /\ writer.at = "ready"
  /\ IF Conflict
     THEN WriterEnds("failed") /\ UNCHANGED <<source, jobs, attempts>>
     ELSE /\ attempts' = Append(attempts, "processing")
          /\ jobs' = IF Chosen > Len(jobs) THEN Append(jobs, Bound(Chosen))
                     ELSE [jobs EXCEPT ![Chosen] = Bound(Chosen)]
          /\ source' = [source EXCEPT !.brief = "processing"]
          /\ writer' = [writer EXCEPT !.at = "created", !.attempt = Len(attempts'),
                                      !.inner = Chosen, !.key = Bound(Chosen).token]
  /\ UNCHANGED <<extractor, request, requests, faults>>

CheckCanceled ==
  /\ writer.at = "created"
  /\ IF Canceled(writer.job) THEN WriterFails("canceled")
     ELSE writer' = [writer EXCEPT !.at = "generating"]
  /\ UNCHANGED <<source, jobs, attempts, extractor, request, requests, faults>>

\* The model answers, or a safe point between two calls sees that the lease is lost.
Generate ==
  /\ writer.at = "generating"
  /\ \/ writer' = [writer EXCEPT !.at = "answered"]
     \/ WriterFails("failed")
     \/ ~Holds(writer.job, writer.token) /\ WriterFails(LostResult(writer.job))
  /\ UNCHANGED <<source, jobs, attempts, extractor, request, requests, faults>>

CheckAnswer ==
  /\ writer.at = "answered"
  /\ IF Holds(writer.job, writer.token) THEN writer' = [writer EXCEPT !.at = "checked"]
     ELSE WriterFails(LostResult(writer.job))
  /\ UNCHANGED <<source, jobs, attempts, extractor, request, requests, faults>>

\* commit_brief_attempt_success, after a last look at the job that was claimed.
MayCommit ==
  /\ Holds(writer.inner, writer.key) /\ jobs[writer.inner].attempt = writer.attempt
WithInner(status) == [jobs EXCEPT ![writer.inner] = Ending(jobs[writer.inner], status)]
Commit ==
  /\ writer.at = "checked"
  /\ IF ~Holds(writer.job, writer.token)
     THEN WriterFails("none") /\ UNCHANGED <<source, jobs, attempts>>
     ELSE IF ~MayCommit
     THEN WriterEnds("failed") /\ UNCHANGED <<source, jobs, attempts>>
     ELSE /\ IF source.life = "active"
             THEN /\ source' = [source EXCEPT !.brief = "ready", !.winner = writer.attempt]
                  /\ attempts' = [attempts EXCEPT ![writer.attempt] = "succeeded"]
                  /\ jobs' = WithInner("succeeded")
             ELSE /\ attempts' = [attempts EXCEPT ![writer.attempt] = "failed"]
                  /\ jobs' = WithInner("failed")
                  /\ UNCHANGED source
          /\ WriterEnds(IF source.life = "active" THEN "none" ELSE "failed")
  /\ UNCHANGED <<extractor, request, requests, faults>>

\* fail_brief_attempt: a Brief there is stays the current one.
FailAttempt ==
  /\ writer.at = "failing"
  /\ IF MayCommit
     THEN /\ attempts' = [attempts EXCEPT ![writer.attempt] = "failed"]
          /\ jobs' = WithInner("failed")
          /\ source' = IF source.life # "active" THEN source
                       ELSE [source EXCEPT !.brief = IF source.winner = None THEN "failed"
                                                     ELSE "ready"]
     ELSE UNCHANGED <<source, jobs, attempts>>
  /\ WriterEnds(writer.result)
  /\ UNCHANGED <<extractor, request, requests, faults>>

EndBrief ==
  /\ writer.at = "ending"
  /\ jobs' = Completed(writer.job, writer.token, writer.result)
  /\ writer' = IdleWriter
  /\ UNCHANGED <<source, attempts, extractor, request, requests, faults>>

-----------------------------------------------------------------------------
(* Requests. *)

\* rebuild_brief reads the Source, queues a job and writes the Source, one after the
\* other; without a model it only writes.
ReadForRebuild ==
  /\ request.at = "idle" /\ requests < MaxRequests
  /\ source.life = "active" /\ source.extraction = "extracted"
  /\ request' = [at |-> "read", processing |-> source.brief = "processing"]
  /\ requests' = requests + 1
  /\ UNCHANGED <<source, jobs, attempts, extractor, writer, faults>>

\* A Source that is gone refuses the row, and the request fails.
QueueBrief ==
  /\ request.at = "read"
  /\ \/ /\ source.life # "purged"
        /\ jobs' = IF Candidates = {} THEN Append(jobs, NewJob("brief")) ELSE jobs
        /\ request' = [request EXCEPT !.at = "queued"]
     \/ source.life = "purged" /\ request' = NoRequest /\ UNCHANGED jobs
     \/ request' = [at |-> "queued", processing |-> FALSE] /\ UNCHANGED jobs
  /\ UNCHANGED <<source, attempts, extractor, writer, requests, faults>>

ShowQueued ==
  /\ request.at = "queued"
  /\ source' = IF request.processing \/ source.life = "purged" THEN source
               ELSE [source EXCEPT !.brief = "pending"]
  /\ request' = NoRequest
  /\ UNCHANGED <<jobs, attempts, extractor, writer, requests, faults>>

\* mark_canceled: what runs is told, what waits is over.
Marked(row) ==
  IF row.status = "pending" THEN Ending([row EXCEPT !.canceled = TRUE], "canceled")
  ELSE [row EXCEPT !.canceled = TRUE, !.lease = "none"]
MarkCanceled(j) ==
  /\ requests < MaxRequests /\ Live(j) /\ jobs[j].kind # "delete"
  /\ requests' = requests + 1
  /\ jobs' = [jobs EXCEPT ![j] = Marked(jobs[j])]
  /\ source' = IF /\ jobs[j].status = "pending" /\ jobs[j].kind = "brief"
                  /\ source.brief \in {"pending", "processing"}
               THEN [source EXCEPT !.brief = "not_started"] ELSE source
  /\ UNCHANGED <<attempts, extractor, writer, request, faults>>

\* begin_delete ends the other jobs at once, whoever runs them.
BeginDelete ==
  /\ source.life = "active"
  /\ source' = [source EXCEPT !.life = "deleting"]
  /\ jobs' = Append([j \in DOMAIN jobs |->
                       IF Live(j) THEN Ending([jobs[j] EXCEPT !.canceled = TRUE], "canceled")
                       ELSE jobs[j]],
                    NewJob("delete"))
  /\ UNCHANGED <<attempts, extractor, writer, request, requests, faults>>

\* The Source is looked at: its Brief may no longer be what is configured, or again be.
RefreshOutdated ==
  /\ source.life = "active" /\ source.winner # None /\ source.brief \in {"ready", "outdated"}
  /\ source' = [source EXCEPT !.brief = IF @ = "ready" THEN "outdated" ELSE "ready"]
  /\ UNCHANGED <<jobs, attempts, extractor, writer, request, requests, faults>>

-----------------------------------------------------------------------------
(* Time and the process. *)

WorkedAt(j) ==
  \/ extractor.at # "idle" /\ extractor.job = j
  \/ writer.at # "idle" /\ j \in {writer.job, writer.inner}

LeaseExpires(j) ==
  /\ jobs[j].status = "running" /\ jobs[j].lease = "live"
  /\ faults' = IF WorkedAt(j) THEN faults + 1 ELSE faults
  /\ faults' <= MaxFaults
  /\ jobs' = [jobs EXCEPT ![j].lease = "expired"]
  /\ UNCHANGED <<source, attempts, extractor, writer, request, requests>>

\* The start of the process finishes a deletion, unless the files cannot be moved, and
\* puts back the jobs whose lease is over by then: a deletion is none of them, nor is
\* a cancelled job, which has no lease; and no retry is counted.
Leases == {j \in DOMAIN jobs : /\ jobs[j].status = "running" /\ jobs[j].kind # "delete"
                              /\ jobs[j].lease # "none"}
Restarted(lapsed) ==
  /\ \A j \in Leases : jobs[j].lease = "expired" => j \in lapsed
  /\ jobs' = [j \in DOMAIN jobs |-> IF j \in lapsed THEN Ending(jobs[j], "pending")
                                   ELSE jobs[j]]
  /\ attempts' = [a \in DOMAIN attempts |-> RecoveredAttempt(a, lapsed)]
  /\ UNCHANGED source

Crash ==
  /\ faults < MaxFaults
  /\ faults' = faults + 1
  /\ extractor' = IdleExtractor /\ writer' = IdleWriter /\ request' = NoRequest
  /\ \/ /\ source.life = "deleting"
        /\ source' = PurgedSource /\ jobs' = PurgedJobs /\ attempts' = PurgedAttempts
     \/ \E lapsed \in SUBSET Leases : Restarted(lapsed)
  /\ UNCHANGED requests

-----------------------------------------------------------------------------
Extractor ==
  \/ ClaimExtraction \/ CommitExtraction \/ ExtractionFails \/ EndExtraction
  \/ Quarantine \/ RecheckDelete \/ CompletePurge
Writer ==
  \/ ClaimBrief \/ StartBrief \/ ShowBlocked \/ CreateAttempt \/ CheckCanceled \/ Generate
  \/ CheckAnswer \/ Commit \/ FailAttempt \/ EndBrief

Next ==
  \/ Recover \/ Extractor \/ Writer
  \/ ReadForRebuild \/ QueueBrief \/ ShowQueued \/ BeginDelete \/ RefreshOutdated
  \/ \E j \in DOMAIN jobs : MarkCanceled(j) \/ LeaseExpires(j)
  \/ Crash

\* The threads go on, calls to the model return, and nobody renews the lease of a job
\* that no thread works at.
Fairness ==
  /\ WF_vars(Recover) /\ WF_vars(Extractor) /\ WF_vars(Writer)
  /\ WF_vars(\E j \in DOMAIN jobs : ~WorkedAt(j) /\ LeaseExpires(j))

Spec == Init /\ [][Next]_vars
FairSpec == Spec /\ Fairness

-----------------------------------------------------------------------------
(* Properties. *)

\* The current Brief is the work of an attempt that succeeded, in a job that was
\* neither cancelled nor given to another lease; a Brief that is shown exists.
CurrentBrief ==
  /\ source.winner # None =>
       /\ attempts[source.winner] = "succeeded"
       /\ \E j \in DOMAIN jobs : /\ jobs[j].attempt = source.winner
                                 /\ jobs[j].status = "succeeded" /\ ~jobs[j].canceled
  /\ source.brief \in {"ready", "outdated"} => source.winner # None

\* An attempt in progress, which keeps every other one from being created, belongs to
\* a job that runs, so that recovery will end it; unless that job was cancelled.
AttemptOwned ==
  \A a \in DOMAIN attempts : attempts[a] = "processing" =>
    \E j \in DOMAIN jobs : jobs[j].attempt = a /\ (jobs[j].status = "running" \/ jobs[j].canceled)

\* When requests and faults stop every job comes to an end, although its lease was
\* lost, its thread died or it was cancelled while nobody worked at it; and a deletion
\* ends with all rows gone, unless its job lost its lease more than RequeueMax times.
DeletionGivenUp == \E j \in DOMAIN jobs : jobs[j].kind = "delete" /\ jobs[j].status = "failed"
AllEnded ==
  /\ \A j \in DOMAIN jobs : ~Active(j)
  /\ source.life = "deleting" => DeletionGivenUp
JobsEnd == <>[]AllEnded
=============================================================================
