------------------------ MODULE ProactiveQueue_proofs ------------------------
(***************************************************************************)
(* Proofs about ProactiveQueue, for every finite set of jobs, every set of *)
(* scopes, every budget and all durations.                                 *)
(***************************************************************************)
EXTENDS ProactiveQueue, FiniteSetTheorems, TLAPS

-----------------------------------------------------------------------------
(* The inductive invariant. *)

States == {"absent", "purged"} \cup Active \cup Settled
Pasts == 0..(MaxLag + 1)
Ages == (0..Day) \cup {None}
Kept == 0..(Keep + 1)
Lefts == -MaxLag..Lease
Waits == -MaxLag..AtLeast(Retry, Later)
Attempts == 0..MaxAttempts
Row == [state : States, kind : Kinds \cup {None}, current : BOOLEAN, past : Pasts,
        spent : Ages, age : Kept, left : Lefts, wait : Waits, attempt : Attempts, mine : BOOLEAN]
Run == [at : {"none", "queued", "called"}, stopped : BOOLEAN, generation : Attempts]
Ticks == [at : {"idle", "ready", "claimed", "begun"}, job : Jobs \cup {None}, lag : 0..MaxLag]

\* What the row of a job, its n model calls and its place in the pool say of each
\* other.
Unspent == {"absent", "pending", "leased"}
Story(row, n, at) ==
  /\ row.state \in Unspent => row.spent = None /\ n = 0 /\ at = "none"
  /\ row.kind # "draft" /\ row.state \notin {"succeeded", "purged"} => row.spent = None
  /\ row.kind = "draft" /\ row.state = "running" => row.spent # None
  /\ n \in {0, 1} /\ (at = "queued" => n = 0) /\ (at = "called" => n = 1)
  /\ at # "none" \/ n = 1 => row.kind = "draft" /\ row.spent # None
  /\ row.state = "failed" => n = 0
  /\ row.state = "succeeded" => row.current /\ n = IF row.kind = "draft" THEN 1 ELSE 0

\* A job that was begun and not yet handed on has cost no call, and is charged.
Ready(row, n, at) ==
  n = 0 /\ at = "none" /\ row.state \notin Unspent /\ (row.kind = "draft" => row.spent # None)

Stories == \A j \in Jobs : Story(job[j], calls[j], pool[j].at)
Engaged ==
  /\ sched.at \in {"claimed", "begun"} => sched.job \in Jobs
  /\ sched.at = "begun" => Ready(job[sched.job], calls[sched.job], pool[sched.job].at)

IInv == TypeOK /\ Stories /\ Engaged

LEMMA Typed ==
  TypeOK <=> /\ job \in [Jobs -> Row] /\ calls \in [Jobs -> Nat] /\ pool \in [Jobs -> Run]
             /\ sched \in Ticks /\ scope \subseteq Kinds /\ proc \in {"up", "stopping", "down"}
  BY DEF TypeOK, Row, Run, Ticks, States, Pasts, Ages, Kept, Lefts, Waits,
         Attempts

LEMMA TypedNext ==
  TypeOK' <=> /\ job' \in [Jobs -> Row] /\ calls' \in [Jobs -> Nat] /\ pool' \in [Jobs -> Run]
              /\ sched' \in Ticks /\ scope' \subseteq Kinds /\ proc' \in {"up", "stopping", "down"}
  BY DEF TypeOK, Row, Run, Ticks, States, Pasts, Ages, Kept, Lefts, Waits,
         Attempts

-----------------------------------------------------------------------------
(* What the actions do to a row. *)

\* A settled job stays so or is forgotten, no row is forgotten too young, and nothing
\* is spent.
Moved(row, new) ==
  /\ row.state \in Settled \cup {"purged"} => new.state \in {row.state, "purged"}
  /\ new.spent # None /\ new.spent < Day =>
       row.kind = new.kind /\ row.spent # None /\ row.spent < Day
  /\ new.state = "purged" /\ row.state # "purged" => row.age > Keep

LEMMA Numbers ==
  /\ MaxLag \in Nat /\ MaxLag <= Day /\ Lease \in Nat \ {0} /\ Retry \in Nat \ {0}
  /\ Later \in Nat \ {0} /\ Day \in Nat \ {0} /\ Keep \in Nat \ {0} /\ MaxAttempts \in Nat \ {0}
  /\ DraftTime \in Nat \ {0} /\ DraftTime <= Lease
  /\ AtLeast(Retry, Later) \in Nat /\ AtLeast(Retry, Later) >= Retry
  /\ AtLeast(Retry, Later) >= Later
  BY DurationAssumption DEF AtLeast

LEMMA Ends ==
  /\ -MaxLag \in Lefts /\ -MaxLag \in Waits /\ 0 \in Pasts /\ 0 \in Attempts
  /\ None \in Ages /\ 0 \in Ages /\ 0 \in Kept /\ None \in Kinds \cup {None}
  /\ Active \subseteq States /\ Settled \subseteq States
  /\ "absent" \in States /\ "purged" \in States
  BY Numbers DEF Lefts, Waits, Pasts, Attempts, Ages, Kept, States

LEMMA NewJobRow ==
  /\ NewJob \in Row /\ NewJob.state = "absent" /\ NewJob.spent = None
  BY Ends DEF NewJob, Row

LEMMA SettledRow ==
  ASSUME NEW row \in Row, NEW state \in Settled
  PROVE  LET new == Settle(row, state)
         IN  /\ new \in Row /\ new.state = state /\ new.kind = row.kind
             /\ new.spent = row.spent /\ (new.current <=> row.current /\ state = "succeeded")
             /\ ~new.mine /\ new.left = -MaxLag /\ (state \in Purgeable => new.age = row.age)
<1>. DEFINE age == IF state \in Purgeable THEN row.age ELSE 0
            row1 == [row EXCEPT !.state = state, !.left = -MaxLag, !.wait = -MaxLag]
            row2 == [row1 EXCEPT !.past = 0, !.age = age]
            row3 == [row2 EXCEPT !.attempt = 0, !.mine = FALSE]
            row4 == [row3 EXCEPT !.current = row3.current /\ state = "succeeded"]
            Same(new) == /\ new \in Row /\ new.state = state /\ new.kind = row.kind
                         /\ new.spent = row.spent /\ new.left = -MaxLag
<1>0. age \in Kept /\ (state \in Purgeable => age = row.age)
  BY Ends DEF Row
<1>1. Same(row1) /\ (row1.current <=> row.current) /\ row1.age = row.age
  BY Ends DEF Row
<1>5. Settle(row, state) = row4
  BY <1>1 DEF Settle
<1>. HIDE DEF age, row1
<1>2. Same(row2) /\ (row2.current <=> row.current) /\ row2.age = age
  BY <1>0, <1>1, Ends DEF Row
<1>. HIDE DEF row2
<1>3. Same(row3) /\ (row3.current <=> row.current) /\ row3.age = age /\ ~row3.mine
  BY <1>2, Ends DEF Row
<1>. HIDE DEF row3
<1>4. /\ Same(row4) /\ (row4.current <=> row.current /\ state = "succeeded")
      /\ row4.age = age /\ ~row4.mine
  BY <1>3 DEF Row
<1>. HIDE DEF row4
<1>6. QED
  BY <1>0, <1>4, <1>5

LEMMA PostponedRow ==
  ASSUME NEW row \in Row, NEW wait \in Waits
  PROVE  LET new == Postponed(row, wait)
         IN  /\ new \in Row /\ new.state = "pending" /\ new.kind = row.kind
             /\ new.spent = row.spent
  BY Ends DEF Postponed, Row, Active

LEMMA FailRow ==
  ASSUME NEW row \in Row, NEW state \in Settled
  PROVE  Fail(row, state) \in Row /\ Fail(row, state) \in {row, Settle(row, state)}
         /\ row.state \notin Active => Fail(row, state) = row
  BY SettledRow DEF Fail

LEMMA LeasedRow ==
  ASSUME NEW row \in Row, sched \in Ticks
  PROVE  LET new == Leased(row)
         IN  /\ new \in Row /\ new.state = "leased" /\ new.kind = row.kind
             /\ new.spent = row.spent
<1>1. Lease - sched.lag \in Lefts
  BY Numbers DEF Lefts, Ticks
<1>2. AtMost(row.attempt + 1, MaxAttempts) \in Attempts
  BY Numbers DEF Row, Attempts, AtMost
<1>. DEFINE left == Lease - sched.lag
            attempt == AtMost(row.attempt + 1, MaxAttempts)
            new1 == [row EXCEPT !.state = "leased", !.mine = TRUE, !.left = left]
            new2 == [new1 EXCEPT !.wait = -MaxLag, !.attempt = attempt]
<1>3. Leased(row) = new2
  BY DEF Leased, Row
<1>. HIDE DEF left, attempt
<1>4. /\ new1 \in Row /\ new1.state = "leased" /\ new1.kind = row.kind /\ new1.spent = row.spent
  BY <1>1, Ends DEF Row, Active, left
<1>. HIDE DEF new1
<1>5. /\ new2 \in Row /\ new2.state = "leased" /\ new2.kind = row.kind /\ new2.spent = row.spent
  BY <1>2, <1>4, Ends DEF Row, attempt
<1>6. QED
  BY <1>3, <1>5

LEMMA BegunRow ==
  ASSUME NEW j \in Jobs, job[j] \in Row, sched \in Ticks
  PROVE  LET new == Begun(j)
         IN  /\ new \in Row /\ new.state = "running" /\ new.kind = job[j].kind
             /\ new.spent = IF job[j].kind = "draft" THEN sched.lag ELSE job[j].spent
<1>1. sched.lag \in Ages
  BY Numbers DEF Ticks, Ages
<1>2. AtMost(job[j].left, DraftTime - sched.lag) \in Lefts
  BY Numbers DEF Lefts, Ticks, Row, AtMost
<1>3. "running" \in States
  BY DEF States, Active
<1>4. CASE job[j].kind = "draft"
  <2>. DEFINE left == AtMost(job[j].left, DraftTime - sched.lag)
  <2>1. Begun(j) = [job[j] EXCEPT !.state = "running", !.spent = sched.lag, !.left = left]
    BY <1>4 DEF Begun
  <2>. HIDE DEF left
  <2>2. left \in Lefts
    BY <1>2 DEF left
  <2>3. QED
    BY <1>1, <1>3, <1>4, <2>1, <2>2 DEF Row
<1>5. CASE job[j].kind # "draft"
  BY <1>3, <1>5 DEF Begun, Row
<1>6. QED
  BY <1>4, <1>5

LEMMA ResultRow ==
  ASSUME NEW j \in Jobs, job[j] \in Row
  PROVE  LET new == Result(j)
         IN  /\ new \in Row /\ new.state = "succeeded" /\ new.kind = job[j].kind
             /\ new.spent = IF job[j].kind = "draft" THEN job[j].spent ELSE 0
             /\ (new.current <=> job[j].current)
<1>. DEFINE row == Settle(job[j], "succeeded")
<1>1. /\ row \in Row /\ row.state = "succeeded" /\ row.kind = job[j].kind
      /\ row.spent = job[j].spent /\ (row.current <=> job[j].current)
  BY SettledRow DEF Settled, Purgeable
<1>2. Result(j) = [row EXCEPT !.spent = IF job[j].kind = "draft" THEN row.spent ELSE 0]
  BY DEF Result
<1>. HIDE DEF row
<1>3. QED
  BY <1>1, <1>2, Ends DEF Row

LEMMA OlderRow ==
  ASSUME NEW j \in Jobs, job[j] \in Row
  PROVE  LET new == Older(j)
         IN  /\ new \in Row /\ new.state = job[j].state /\ new.kind = job[j].kind
             /\ (new.current <=> job[j].current)
             /\ new.spent = None <=> job[j].spent = None
             /\ job[j].spent # None => new.spent >= job[j].spent
<1>. DEFINE past == IF job[j].past = 0 THEN 0 ELSE AtMost(job[j].past + 1, MaxLag + 1)
            spent == IF job[j].spent = None THEN None ELSE AtMost(job[j].spent + 1, Day)
            left == AtLeast(job[j].left - 1, -MaxLag)
            wait == AtLeast(job[j].wait - 1, -MaxLag)
            age == IF job[j].state \in Active \cup Purgeable
                     THEN AtMost(job[j].age + 1, Keep + 1) ELSE 0
<1>1. past \in Pasts
  BY Numbers DEF Row, Pasts, AtMost
<1>2. /\ spent \in Ages /\ (spent = None <=> job[j].spent = None)
      /\ job[j].spent # None => spent >= job[j].spent
  <2>1. CASE job[j].spent = None
    BY <2>1 DEF Ages
  <2>2. CASE job[j].spent # None
    <3>1. job[j].spent \in 0..Day
      BY <2>2 DEF Row, Ages
    <3>2. AtMost(job[j].spent + 1, Day) \in 0..Day /\ AtMost(job[j].spent + 1, Day) >= job[j].spent
      BY <3>1, Numbers DEF AtMost
    <3>3. QED
      BY <2>2, <3>2, NoneAssumption DEF Ages
  <2>3. QED
    BY <2>1, <2>2
<1>3. left \in Lefts /\ wait \in Waits
  BY Numbers DEF Row, Lefts, Waits, AtLeast
<1>4. age \in Kept
  BY Numbers DEF Row, Kept, AtMost
<1>5. Older(j) = [job[j] EXCEPT !.past = past, !.spent = spent, !.age = age, !.left = left,
                                !.wait = wait]
  BY DEF Older
<1>. HIDE DEF past, spent, left, wait, age
<1>6. QED
  BY <1>1, <1>2, <1>3, <1>4, <1>5 DEF Row

-----------------------------------------------------------------------------
(* Most steps are calm: each job is as it was, or was active and is given up. *)

Calm(row, new, n) ==
  /\ new \in Row /\ new.kind = row.kind
  /\ new.spent = None <=> row.spent = None
  /\ row.spent # None => new.spent >= row.spent
  /\ \/ new.state = row.state /\ (row.current /\ row.state = "succeeded" => new.current)
     \/ row.state \in Active /\ new.state \in {"cancelled", "result_unknown"}
     \/ row.state \in Active /\ new.state = "failed" /\ n = 0

LEMMA CalmStory ==
  ASSUME NEW row \in Row, NEW new, NEW n, NEW at,
         Story(row, n, at), Calm(row, new, n)
  PROVE  /\ Story(new, n, at) /\ Story(new, n, "none")
         /\ Moved(row, new)
         /\ Ready(row, n, at) => Ready(new, n, at) /\ Ready(new, n, "none")
<1>1. Story(new, n, at) /\ Story(new, n, "none")
  BY DEF Story, Calm, Active, Unspent
<1>2. Moved(row, new)
  <2>1. /\ row.state \in Settled \cup {"purged"} => new.state = row.state
        /\ new.state = "purged" => row.state = "purged"
    BY DEF Calm, Settled, Purgeable, Active
  <2>2. ASSUME new.spent # None, new.spent < Day
        PROVE  row.spent # None /\ row.spent < Day
    <3>1. row.spent # None /\ new.spent >= row.spent
      BY <2>2 DEF Calm
    <3>2. row.spent \in Int /\ new.spent \in Int
      BY <2>2, <3>1, Numbers DEF Row, Ages, Calm
    <3>3. QED
      BY <2>2, <3>1, <3>2, Numbers
  <2>3. QED
    BY <2>1, <2>2 DEF Moved, Calm
<1>3. Ready(row, n, at) => Ready(new, n, at) /\ Ready(new, n, "none")
  BY DEF Ready, Calm, Active, Unspent
<1>4. QED
  BY <1>1, <1>2, <1>3

LEMMA SameCalm ==
  ASSUME NEW row \in Row, NEW n
  PROVE  Calm(row, row, n)
<1>1. row.spent # None => row.spent >= row.spent
  BY Numbers DEF Row, Ages
<1>2. QED
  BY <1>1 DEF Calm

LEMMA SettleCalm ==
  ASSUME NEW row \in Row, NEW n, row.state \in Active,
         NEW state \in {"cancelled", "result_unknown", "failed"}, state = "failed" => n = 0
  PROVE  Calm(row, Settle(row, state), n)
<1>1. state \in Settled
  BY DEF Settled, Purgeable
<1>2. row.spent # None => row.spent >= row.spent
  BY Numbers DEF Row, Ages
<1>3. QED
  BY <1>1, <1>2, SettledRow DEF Calm

LEMMA FailCalm ==
  ASSUME NEW row \in Row, NEW n,
         NEW state \in {"result_unknown", "failed"}, state = "failed" => n = 0
  PROVE  Calm(row, Fail(row, state), n)
  BY SameCalm, SettleCalm DEF Fail

LEMMA ReconciledCalm ==
  ASSUME NEW j \in Jobs, job[j] \in Row, NEW n
  PROVE  Calm(job[j], Reconciled(j), n)
  BY SameCalm, SettleCalm DEF Reconciled, Cancelled

LEMMA OlderCalm ==
  ASSUME NEW j \in Jobs, job[j] \in Row, NEW n
  PROVE  Calm(job[j], Older(j), n)
  BY OlderRow DEF Calm

\* Every job moves, and none is charged.
Moves == \A j \in Jobs : Moved(job[j], job'[j])

LEMMA CalmStep ==
  ASSUME IInv, job' \in [Jobs -> Row], \A j \in Jobs : Calm(job[j], job'[j], calls[j]),
         UNCHANGED calls, pool' \in [Jobs -> Run],
         \A j \in Jobs : pool'[j].at \in {pool[j].at, "none"},
         sched' \in Ticks, scope' \subseteq Kinds, proc' \in {"up", "stopping", "down"},
         \/ sched'.at = sched.at /\ sched'.job = sched.job
         \/ sched'.at \in {"idle", "ready"}
  PROVE  IInv' /\ Moves
<1>1. TypeOK'
  BY Typed, TypedNext DEF IInv
<1>2. ASSUME NEW j \in Jobs
      PROVE  /\ Story(job'[j], calls'[j], pool'[j].at) /\ Moved(job[j], job'[j])
             /\ Ready(job[j], calls[j], pool[j].at) => Ready(job'[j], calls'[j], pool'[j].at)
  <2>1. job[j] \in Row /\ Story(job[j], calls[j], pool[j].at)
    BY Typed DEF IInv, Stories
  <2>2. Calm(job[j], job'[j], calls[j]) /\ calls'[j] = calls[j]
    OBVIOUS
  <2>3. CASE pool'[j].at = pool[j].at
    BY <2>1, <2>2, <2>3, CalmStory
  <2>4. CASE pool'[j].at = "none"
    BY <2>1, <2>2, <2>4, CalmStory
  <2>5. QED
    BY <2>3, <2>4
<1>3. Stories' /\ Moves
  BY <1>2 DEF Stories, Moves
<1>4. Engaged'
  <2>1. CASE sched'.at = sched.at /\ sched'.job = sched.job
    <3>1. sched'.at \in {"claimed", "begun"} => sched'.job \in Jobs
      BY <2>1 DEF IInv, Engaged
    <3>2. ASSUME sched'.at = "begun"
          PROVE  Ready(job'[sched'.job], calls'[sched'.job], pool'[sched'.job].at)
      BY <1>2, <2>1, <3>2 DEF IInv, Engaged
    <3>3. QED
      BY <3>1, <3>2 DEF Engaged
  <2>2. CASE sched'.at \in {"idle", "ready"}
    BY <2>2 DEF Engaged
  <2>3. QED
    BY <2>1, <2>2
<1>5. QED
  BY <1>1, <1>3, <1>4 DEF IInv

-----------------------------------------------------------------------------
(* The calm actions. *)

\* What every step may take for granted.
LEMMA Before ==
  ASSUME IInv
  PROVE  /\ job \in [Jobs -> Row] /\ calls \in [Jobs -> Nat] /\ pool \in [Jobs -> Run]
         /\ sched \in Ticks /\ scope \subseteq Kinds /\ proc \in {"up", "stopping", "down"}
         /\ \A j \in Jobs : /\ job[j] \in Row /\ pool[j] \in Run
                            /\ Story(job[j], calls[j], pool[j].at)
                            /\ Calm(job[j], job[j], calls[j])
  BY Typed, SameCalm DEF IInv, Stories

LEMMA Interruptions ==
  ASSUME IInv, NEW rows
  PROVE  /\ Interrupted(rows) \in [Jobs -> Run]
         /\ \A j \in Jobs : Interrupted(rows)[j].at = pool[j].at
<1>1. ASSUME NEW j \in Jobs
      PROVE  /\ [pool[j] EXCEPT !.stopped = TRUE] \in Run
             /\ [pool[j] EXCEPT !.stopped = TRUE].at = pool[j].at
  BY Before DEF Run
<1>2. QED
  BY <1>1, Before DEF Interrupted

\* A step that touches one job, calmly.
LEMMA CalmOne ==
  ASSUME IInv, NEW j \in Jobs, NEW new, Calm(job[j], new, calls[j]),
         job' = [job EXCEPT ![j] = new]
  PROVE  job' \in [Jobs -> Row] /\ \A i \in Jobs : Calm(job[i], job'[i], calls[i])
<1>1. new \in Row
  BY DEF Calm
<1>2. QED
  BY <1>1, Before

LEMMA DroppedRun ==
  ASSUME IInv, NEW j \in Jobs, pool' = [pool EXCEPT ![j] = NoRun]
  PROVE  /\ pool' \in [Jobs -> Run] /\ \A i \in Jobs : pool'[i].at \in {pool[i].at, "none"}
<1>1. NoRun \in Run /\ NoRun.at = "none"
  BY Ends DEF NoRun, Run
<1>2. QED
  BY <1>1, Before

LEMMA EndTickStep ==
  ASSUME IInv, EndTick
  PROVE  IInv' /\ Moves
<1>1. sched' \in Ticks /\ sched'.at = "idle"
  BY Numbers DEF EndTick, IdleTick, Ticks
<1>2. QED
  BY <1>1, Before, CalmStep DEF EndTick

LEMMA RevokeStep ==
  ASSUME IInv, NEW j \in Jobs, Revoke(j)
  PROVE  IInv' /\ Moves
<1>1. pool' \in [Jobs -> Run] /\ \A i \in Jobs : pool'[i].at = pool[i].at
  BY Before DEF Revoke, Run
<1>2. QED
  BY <1>1, Before, CalmStep DEF Revoke

LEMMA DropStep ==
  ASSUME IInv, NEW j \in Jobs, Drop(j)
  PROVE  IInv' /\ Moves
<1>1. pool' \in [Jobs -> Run] /\ \A i \in Jobs : pool'[i].at \in {pool[i].at, "none"}
  BY DroppedRun DEF Drop
<1>2. QED
  BY <1>1, Before, CalmStep DEF Drop

LEMMA UserCancelStep ==
  ASSUME IInv, NEW j \in Jobs, UserCancel(j)
  PROVE  IInv' /\ Moves
<1>1. Calm(job[j], Cancelled(job[j]), calls[j])
  BY Before, SettleCalm DEF UserCancel, Cancelled
<1>2. \A i \in Jobs : Calm(job[i], job'[i], calls[i])
  BY <1>1, Before, ReconciledCalm DEF UserCancel, Withdraw
<1>3. job' \in [Jobs -> Row]
  BY <1>2 DEF UserCancel, Withdraw, Calm
<1>4. pool' \in [Jobs -> Run] /\ \A i \in Jobs : pool'[i].at = pool[i].at
  BY Interruptions DEF UserCancel
<1>5. QED
  BY <1>2, <1>3, <1>4, Before, CalmStep DEF UserCancel

LEMMA SetScopeStep ==
  ASSUME IInv, NEW kinds \in Scopes, SetScope(kinds)
  PROVE  IInv' /\ Moves
<1>1. ASSUME NEW i \in Jobs
      PROVE  Calm(job[i], job'[i], calls[i])
  <2>1. CASE job[i].state \in Active /\ job[i].kind \notin kinds
    BY <2>1, Before, SettleCalm DEF SetScope, Cancelled
  <2>2. CASE ~(job[i].state \in Active /\ job[i].kind \notin kinds)
    BY <2>2, Before, ReconciledCalm DEF SetScope
  <2>3. QED
    BY <2>1, <2>2
<1>2. job' \in [Jobs -> Row]
  BY <1>1 DEF SetScope, Calm
<1>3. pool' \in [Jobs -> Run] /\ \A i \in Jobs : pool'[i].at = pool[i].at
  BY Interruptions DEF SetScope
<1>4. scope' \subseteq Kinds
  BY ScopeAssumption DEF SetScope
<1>5. QED
  BY <1>1, <1>2, <1>3, <1>4, Before, CalmStep DEF SetScope

LEMMA SourceChangeStep ==
  ASSUME IInv, NEW j \in Jobs, SourceChange(j)
  PROVE  IInv' /\ Moves
<1>. DEFINE new == [job[j] EXCEPT !.current = FALSE, !.past = 0]
<1>1. job' = [job EXCEPT ![j] = new]
  BY Before DEF SourceChange
<1>2. Calm(job[j], new, calls[j])
  <2>1. /\ new \in Row /\ new.state = job[j].state /\ new.kind = job[j].kind
        /\ new.spent = job[j].spent
    BY Before, Ends DEF Row
  <2>2. job[j].state # "succeeded"
    BY DEF SourceChange, Active
  <2>3. QED
    BY <2>1, <2>2, Before DEF Calm
<1>. HIDE DEF new
<1>3. QED
  BY <1>1, <1>2, CalmOne, Before, CalmStep DEF SourceChange

LEMMA ExpireStep ==
  ASSUME IInv, NEW j \in Jobs, Expire(j)
  PROVE  IInv' /\ Moves
<1>. DEFINE new == [job[j] EXCEPT !.past = 1]
<1>1. job' = [job EXCEPT ![j] = new]
  BY Before DEF Expire
<1>2. Calm(job[j], new, calls[j])
  <2>1. 1 \in Pasts
    BY Numbers DEF Pasts
  <2>2. /\ new \in Row /\ new.state = job[j].state /\ new.kind = job[j].kind
        /\ new.spent = job[j].spent /\ (new.current <=> job[j].current)
    BY <2>1, Before DEF Row
  <2>3. QED
    BY <2>2, Before DEF Calm
<1>. HIDE DEF new
<1>3. QED
  BY <1>1, <1>2, CalmOne, Before, CalmStep DEF Expire

LEMMA AdvanceStep ==
  ASSUME IInv, Advance
  PROVE  IInv' /\ Moves
<1>1. \A j \in Jobs : Calm(job[j], job'[j], calls[j])
  BY Before, OlderCalm DEF Advance
<1>2. job' \in [Jobs -> Row]
  BY <1>1 DEF Advance, Calm
<1>3. sched' \in Ticks /\ sched'.at = sched.at /\ sched'.job = sched.job
  <2>. DEFINE lag == IF sched.at = "idle" THEN 0 ELSE sched.lag + 1
  <2>1. lag \in 0..MaxLag
    BY Before, Numbers DEF Advance, Ticks
  <2>2. sched' = [sched EXCEPT !.lag = lag]
    BY DEF Advance
  <2>. HIDE DEF lag
  <2>3. QED
    BY <2>1, <2>2, Before DEF Ticks
<1>4. QED
  BY <1>1, <1>2, <1>3, Before, CalmStep DEF Advance

LEMMA StopStep ==
  ASSUME IInv, Stop
  PROVE  IInv' /\ Moves
<1>1. \A j \in Jobs : Calm(job[j], job'[j], calls[j])
  BY Before, FailCalm, ReconciledCalm DEF Stop, StoppedRow
<1>2. job' \in [Jobs -> Row]
  BY <1>1 DEF Stop, Calm
<1>3. pool' \in [Jobs -> Run] /\ \A j \in Jobs : pool'[j].at = pool[j].at
  <2>1. ASSUME NEW j \in Jobs
        PROVE  /\ [pool[j] EXCEPT !.stopped = TRUE] \in Run
               /\ [pool[j] EXCEPT !.stopped = TRUE].at = pool[j].at
    BY Before DEF Run
  <2>2. QED
    BY <2>1, Before DEF Stop
<1>4. QED
  BY <1>1, <1>2, <1>3, Before, CalmStep DEF Stop

LEMMA DownStep ==
  ASSUME IInv, Down
  PROVE  IInv' /\ Moves
<1>1. ASSUME NEW j \in Jobs
      PROVE  Calm(job[j], job'[j], calls[j])
  <2>. DEFINE new == [job[j] EXCEPT !.mine = FALSE]
  <2>1. /\ new \in Row /\ new.state = job[j].state /\ new.kind = job[j].kind
        /\ new.spent = job[j].spent /\ (new.current <=> job[j].current)
    BY Before DEF Row
  <2>2. job'[j] = new
    BY DEF Down
  <2>. HIDE DEF new
  <2>3. QED
    BY <2>1, <2>2, Before DEF Calm
<1>2. job' \in [Jobs -> Row]
  BY <1>1 DEF Down, Calm
<1>3. pool' \in [Jobs -> Run] /\ \A j \in Jobs : pool'[j].at = "none"
  BY Ends DEF Down, NoRun, Run
<1>4. sched' \in Ticks /\ sched'.at = "idle"
  BY Numbers DEF Down, IdleTick, Ticks
<1>5. QED
  BY <1>1, <1>2, <1>3, <1>4, Before, CalmStep DEF Down

LEMMA RestartStep ==
  ASSUME IInv, Restart
  PROVE  IInv' /\ Moves
  BY Before, CalmStep DEF Restart

-----------------------------------------------------------------------------
(* The steps that take a job further. *)

\* Job j takes the budget of its kind, as a clock that is lag old shows it.
Charge(j) ==
  /\ \E lag \in 0..MaxLag : ~OverBudget(j, lag)
  /\ job[j].kind \in Kinds /\ job'[j].kind = job[j].kind
  /\ job[j].state \notin Settled \cup {"purged"} /\ job'[j].state # "purged"
  /\ \A i \in Jobs \ {j} : Moved(job[i], job'[i])

LEMMA Unmoved ==
  ASSUME NEW row
  PROVE  Moved(row, row)
  BY DEF Moved

\* What the rows become makes up the next invariant, if no tick has just begun a job.
LEMMA TakenFurther ==
  ASSUME TypeOK', \A j \in Jobs : Story(job'[j], calls'[j], pool'[j].at),
         sched'.at # "begun", sched'.at = "claimed" => sched'.job \in Jobs
  PROVE  IInv'
  BY DEF IInv, Stories, Engaged

\* A row that discover forgets has kept its age through the reconciliation, and its
\* charge is remembered.
PurgedFits(j) ==
  LET row == Purged(Reconciled(j))
  IN  row \in Row /\ Story(row, calls[j], pool[j].at) /\ Moved(job[j], row)

LEMMA PurgedRow ==
  ASSUME IInv, NEW j \in Jobs, Forgettable(Reconciled(j))
  PROVE  PurgedFits(j)
<1>. DEFINE old == Reconciled(j)
            row == Purged(old)
<1>1. job[j] \in Row /\ Story(job[j], calls[j], pool[j].at)
  BY Before
<1>2. Calm(job[j], old, calls[j]) /\ old \in Row
  BY <1>1, ReconciledCalm DEF Calm
<1>3. old.state \in Purgeable /\ old.age > Keep
  BY DEF Forgettable
<1>4. old.age = job[j].age /\ old.spent = job[j].spent /\ job[j].state \in Active \cup Purgeable
  BY <1>1, <1>3, SettledRow DEF Reconciled, Cancelled, Settled, Purgeable
<1>. HIDE DEF old
<1>5. Story(old, calls[j], pool[j].at)
  BY <1>1, <1>2, CalmStory
<1>6. row \in Row /\ row.state = "purged" /\ row.kind = old.kind /\ row.spent = old.spent
  BY <1>2, NewJobRow, Ends DEF Purged, Row
<1>. HIDE DEF row
<1>7. Story(row, calls[j], pool[j].at)
  BY <1>5, <1>6 DEF Story, Unspent
<1>8. Moved(job[j], row)
  BY <1>1, <1>2, <1>3, <1>4, <1>6 DEF Moved, Calm, Active, Purgeable, Row
<1>9. QED
  BY <1>6, <1>7, <1>8 DEF PurgedFits, old, row

LEMMA StartTickStep ==
  ASSUME IInv, StartTick
  PROVE  IInv' /\ Moves
<1>. DEFINE rows == [j \in Jobs |-> Reconciled(j)]
            new == {j \in Jobs : rows[j].state = "absent"}
<1>1. pool' \in [Jobs -> Run] /\ \A j \in Jobs : pool'[j].at = pool[j].at
  BY Interruptions DEF StartTick
<1>2. sched' \in Ticks /\ sched'.at = "ready"
  <2>1. IdleTick \in Ticks
    BY Numbers DEF IdleTick, Ticks
  <2>2. QED
    BY <2>1 DEF StartTick, Ticks
<1>3. CASE job' = rows
  <2>1. \A j \in Jobs : Calm(job[j], job'[j], calls[j])
    BY <1>3, Before, ReconciledCalm
  <2>2. job' \in [Jobs -> Row]
    BY <1>3, <2>1 DEF Calm
  <2>3. QED
    BY <1>1, <1>2, <2>1, <2>2, Before, CalmStep DEF StartTick
<1>4. CASE \E found \in SUBSET new : \E kind \in [found -> scope] :
             job' = [j \in Jobs |->
                       IF j \in found
                       THEN [NewJob EXCEPT !.state = "pending", !.kind = kind[j]]
                       ELSE IF Forgettable(rows[j]) THEN Purged(rows[j]) ELSE rows[j]]
  <2>1. PICK found \in SUBSET new :
          \E kind \in [found -> scope] :
            job' = [j \in Jobs |->
                      IF j \in found
                      THEN [NewJob EXCEPT !.state = "pending", !.kind = kind[j]]
                      ELSE IF Forgettable(rows[j]) THEN Purged(rows[j]) ELSE rows[j]]
    BY <1>4
  <2>2. PICK kind \in [found -> scope] :
          job' = [j \in Jobs |->
                    IF j \in found
                    THEN [NewJob EXCEPT !.state = "pending", !.kind = kind[j]]
                    ELSE IF Forgettable(rows[j]) THEN Purged(rows[j]) ELSE rows[j]]
    BY <2>1
  <2>3. ASSUME NEW j \in Jobs
        PROVE  /\ job'[j] \in Row /\ Story(job'[j], calls'[j], pool'[j].at)
               /\ Moved(job[j], job'[j])
    <3>. calls'[j] = calls[j] /\ pool'[j].at = pool[j].at
      BY <1>1 DEF StartTick
    <3>1. CASE j \in found
      <4>. DEFINE row == [NewJob EXCEPT !.state = "pending", !.kind = kind[j]]
      <4>1. kind[j] \in Kinds
        BY <2>2, <3>1, Before
      <4>2. row \in Row /\ row.state = "pending" /\ row.spent = None
        BY <4>1, NewJobRow, Ends DEF Row, Active
      <4>3. job[j].state = "absent"
        <5>1. Reconciled(j).state = "absent"
          BY <3>1 DEF new
        <5>2. CASE job[j].state \in Active
          BY <5>1, <5>2, Before, SettledRow DEF Reconciled, Cancelled, Settled, Purgeable, Active
        <5>3. CASE job[j].state \notin Active
          BY <5>1, <5>3 DEF Reconciled
        <5>4. QED
          BY <5>2, <5>3
      <4>4. job'[j] = row
        BY <2>2, <3>1
      <4>. HIDE DEF row, new, rows
      <4>5. calls[j] = 0 /\ pool[j].at = "none"
        BY <4>3, Before DEF Story, Unspent
      <4>6. Story(row, calls[j], pool[j].at)
        BY <4>2, <4>5 DEF Story, Unspent
      <4>7. Moved(job[j], row)
        BY <4>2, <4>3 DEF Moved, Settled, Purgeable
      <4>8. QED
        BY <4>2, <4>4, <4>6, <4>7
    <3>2. CASE j \notin found /\ Forgettable(Reconciled(j))
      <4>1. job'[j] = Purged(Reconciled(j))
        BY <2>2, <3>2
      <4>2. PurgedFits(j)
        BY <3>2, PurgedRow
      <4>3. QED
        BY <4>1, <4>2 DEF PurgedFits
    <3>3. CASE j \notin found /\ ~Forgettable(Reconciled(j))
      <4>1. job'[j] = Reconciled(j)
        BY <2>2, <3>3
      <4>2. job[j] \in Row /\ Story(job[j], calls[j], pool[j].at)
        BY Before
      <4>3. Calm(job[j], job'[j], calls[j]) /\ job'[j] \in Row
        BY <4>1, <4>2, ReconciledCalm DEF Calm
      <4>4. QED
        BY <4>2, <4>3, CalmStory
    <3>4. QED
      BY <3>1, <3>2, <3>3
  <2>4. job' \in [Jobs -> Row] /\ Moves
    BY <2>2, <2>3 DEF Moves
  <2>5. TypeOK'
    BY <1>1, <1>2, <2>4, Before, TypedNext DEF StartTick
  <2>6. QED
    BY <1>2, <2>3, <2>4, <2>5, TakenFurther
<1>5. QED
  BY <1>3, <1>4 DEF StartTick

\* A lost job is put back only if it has cost nothing.
LEMMA RecoveredRow ==
  ASSUME IInv, NEW j \in Jobs
  PROVE  /\ Recovered(j) \in Row
         /\ Story(Recovered(j), calls[j], pool[j].at) /\ Moved(job[j], Recovered(j))
<1>. job[j] \in Row /\ Story(job[j], calls[j], pool[j].at)
  BY Before
<1>1. CASE ~Expired(job[j])
  BY <1>1, Unmoved DEF Recovered
<1>2. CASE Expired(job[j])
  <2>1. job[j].state \in {"leased", "running"} /\ job[j].state \in Active
    BY <1>2 DEF Expired, Active
  <2>2. Recovered(j) = RecoveredState(j)
    BY <1>2 DEF Recovered
  <2>3. CASE Charged(j)
    <3>1. Calm(job[j], Recovered(j), calls[j]) /\ Recovered(j) \in Row
      BY <2>1, <2>2, <2>3, SettleCalm DEF RecoveredState, Calm
    <3>2. QED
      BY <3>1, CalmStory
  <2>4. CASE ~Charged(j)
    <3>1. job[j].spent = None /\ calls[j] = 0 /\ pool[j].at = "none"
      BY <2>1, <2>4, Before DEF Story, Charged, Unspent, Run
    <3>2. CASE job[j].attempt >= MaxAttempts
      <4>1. Calm(job[j], Recovered(j), calls[j]) /\ Recovered(j) \in Row
        BY <2>1, <2>2, <2>4, <3>1, <3>2, SettleCalm DEF RecoveredState, Calm
      <4>2. QED
        BY <4>1, CalmStory
    <3>3. CASE ~(job[j].attempt >= MaxAttempts)
      <4>1. Retry - sched.lag \in Waits
        BY Before, Numbers DEF Waits, Ticks
      <4>2. /\ Recovered(j) \in Row /\ Recovered(j).state = "pending"
            /\ Recovered(j).kind = job[j].kind /\ Recovered(j).spent = None
        BY <2>2, <2>4, <3>1, <3>3, <4>1, Before, PostponedRow DEF RecoveredState
      <4>3. Story(Recovered(j), calls[j], pool[j].at)
        BY <3>1, <4>2 DEF Story, Unspent
      <4>4. Moved(job[j], Recovered(j))
        BY <2>1, <4>2 DEF Moved, Settled, Purgeable
      <4>5. QED
        BY <4>2, <4>3, <4>4
    <3>4. QED
      BY <3>2, <3>3
  <2>5. QED
    BY <2>3, <2>4
<1>3. QED
  BY <1>1, <1>2

LEMMA MovedOn ==
  ASSUME NEW a, NEW b, NEW c, Moved(a, b), Moved(b, c), c.state # "purged"
  PROVE  Moved(a, c)
  BY DEF Moved

LEMMA ClaimStep ==
  ASSUME IInv, Claim
  PROVE  IInv' /\ Moves
<1>. DEFINE rows == [j \in Jobs |-> Recovered(j)]
            due == {j \in Jobs : rows[j].state = "pending" /\ rows[j].wait + sched.lag <= 0}
            refused == {j \in due : Unwanted(j, sched.lag)}
            kept == [j \in Jobs |-> IF j \in refused THEN Cancelled(rows[j]) ELSE rows[j]]
            Fine(j, row) == /\ row \in Row /\ Story(row, calls[j], pool[j].at)
                            /\ Moved(job[j], row)
<1>1. \A j \in Jobs : Fine(j, rows[j])
  BY RecoveredRow
<1>2. ASSUME NEW j \in Jobs
      PROVE  Fine(j, kept[j])
  <2>1. CASE j \in refused
    <3>1. rows[j].state \in Active
      BY <2>1 DEF Active
    <3>2. Calm(rows[j], Cancelled(rows[j]), calls[j])
      BY <1>1, <3>1, SettleCalm DEF Cancelled
    <3>. HIDE DEF rows
    <3>3. /\ Cancelled(rows[j]) \in Row /\ Moved(rows[j], Cancelled(rows[j]))
          /\ Story(Cancelled(rows[j]), calls[j], pool[j].at)
      BY <1>1, <3>2, CalmStory DEF Calm
    <3>4. Moved(job[j], Cancelled(rows[j]))
      <4>1. Cancelled(rows[j]).state = "cancelled"
        BY <1>1, SettledRow DEF Cancelled, Settled, Purgeable
      <4>2. QED
        BY <1>1, <3>3, <4>1, MovedOn
    <3>5. QED
      BY <2>1, <3>3, <3>4
  <2>2. CASE j \notin refused
    BY <1>1, <2>2
  <2>3. QED
    BY <2>1, <2>2
<1>3. ASSUME NEW j \in due \ refused
      PROVE  Fine(j, Leased(kept[j]))
  <2>1. kept[j] = rows[j] /\ rows[j].state = "pending"
    OBVIOUS
  <2>. HIDE DEF rows, due, refused, kept
  <2>2. j \in Jobs
    BY DEF due
  <2>3. rows[j] \in Row /\ Story(rows[j], calls[j], pool[j].at) /\ Moved(job[j], rows[j])
    BY <1>1, <2>2
  <2>4. rows[j].spent = None /\ calls[j] = 0 /\ pool[j].at = "none"
    BY <2>1, <2>3 DEF Story, Unspent
  <2>5. /\ Leased(rows[j]) \in Row /\ Leased(rows[j]).state = "leased"
        /\ Leased(rows[j]).spent = None
    BY <2>3, <2>4, Before, LeasedRow
  <2>6. Story(Leased(rows[j]), calls[j], pool[j].at)
    BY <2>4, <2>5 DEF Story, Unspent
  <2>7. Moved(rows[j], Leased(rows[j]))
    BY <2>1, <2>5 DEF Moved, Settled, Purgeable
  <2>8. QED
    BY <2>1, <2>3, <2>5, <2>6, <2>7, MovedOn
<1>4. /\ sched' \in Ticks /\ sched'.at # "begun"
      /\ sched'.at = "claimed" => sched'.job \in Jobs
      /\ job' \in [Jobs -> Row] /\ \A j \in Jobs : Fine(j, job'[j])
  <2>1. PICK quiet \in BOOLEAN :
          IF quiet \/ due = refused
          THEN job' = kept /\ sched' = IdleTick
          ELSE \E j \in due \ refused :
                 /\ job' = [kept EXCEPT ![j] = Leased(kept[j])]
                 /\ sched' = [sched EXCEPT !.at = "claimed", !.job = j]
    BY DEF Claim
  <2>2. due \subseteq Jobs /\ DOMAIN kept = Jobs /\ kept = [j \in Jobs |-> kept[j]]
    OBVIOUS
  <2>. HIDE DEF rows, due, refused, kept
  <2>3. CASE quiet \/ due = refused
    <3>1. IdleTick \in Ticks /\ IdleTick.at = "idle"
      BY Numbers DEF IdleTick, Ticks
    <3>2. job' = kept /\ sched' = IdleTick
      BY <2>1, <2>3
    <3>3. kept \in [Jobs -> Row]
      BY <1>2, <2>2
    <3>4. QED
      BY <1>2, <3>1, <3>2, <3>3
  <2>4. CASE ~(quiet \/ due = refused)
    <3>1. PICK j \in due \ refused :
            /\ job' = [kept EXCEPT ![j] = Leased(kept[j])]
            /\ sched' = [sched EXCEPT !.at = "claimed", !.job = j]
      BY <2>1, <2>4
    <3>2. j \in Jobs /\ Fine(j, Leased(kept[j]))
      BY <1>3, <2>2
    <3>3. kept \in [Jobs -> Row]
      BY <1>2, <2>2
    <3>. HIDE DEF Fine
    <3>4. Leased(kept[j]) \in Row
      BY <3>2 DEF Fine
    <3>5. job' \in [Jobs -> Row] /\ \A i \in Jobs : Fine(i, job'[i])
      BY <1>2, <3>1, <3>2, <3>3, <3>4
    <3>6. sched' \in Ticks /\ sched'.at = "claimed" /\ sched'.job = j
      BY <3>1, <3>2, Before DEF Ticks
    <3>7. QED
      BY <3>2, <3>5, <3>6
  <2>5. QED
    BY <2>3, <2>4
<1>5. TypeOK'
  BY <1>4, Before, TypedNext DEF Claim
<1>6. QED
  BY <1>4, <1>5, TakenFurther DEF Claim, Moves

\* The tick goes on to the next job.
LEMMA GoneOn ==
  ASSUME IInv, sched' = [sched EXCEPT !.at = "ready", !.job = None]
  PROVE  sched' \in Ticks /\ sched'.at = "ready"
  BY Before DEF Ticks

LEMMA BeginStep ==
  ASSUME IInv, Begin
  PROVE  IInv' /\ (Moves \/ \E j \in Jobs : Charge(j))
<1>. DEFINE j == sched.job
<1>1. j \in Jobs
  BY DEF IInv, Engaged, Begin
<1>. HIDE DEF j
<1>2. job[j] \in Row /\ Story(job[j], calls[j], pool[j].at)
  BY <1>1, Before
<1>3. UNCHANGED <<calls, pool, scope, proc>>
  BY DEF Begin
<1>4. CASE UNCHANGED job /\ sched' = [sched EXCEPT !.at = "ready", !.job = None]
  BY <1>3, <1>4, GoneOn, Before, CalmStep
<1>5. CASE /\ job[j].state = "leased" /\ job' = [job EXCEPT ![j] = Cancelled(job[j])]
           /\ sched' = [sched EXCEPT !.at = "ready", !.job = None]
  <2>1. Calm(job[j], Cancelled(job[j]), calls[j])
    BY <1>2, <1>5, SettleCalm DEF Cancelled, Active
  <2>2. job' \in [Jobs -> Row] /\ \A i \in Jobs : Calm(job[i], job'[i], calls[i])
    BY <1>1, <1>5, <2>1, CalmOne
  <2>3. QED
    BY <1>3, <1>5, <2>2, GoneOn, Before, CalmStep
<1>6. CASE /\ job[j].state = "leased"
           /\ job' = [job EXCEPT ![j] = Postponed(job[j], Later - sched.lag)]
           /\ sched' = [sched EXCEPT !.at = "ready", !.job = None]
  <2>. DEFINE row == Postponed(job[j], Later - sched.lag)
  <2>1. Later - sched.lag \in Waits
    BY Before, Numbers DEF Waits, Ticks
  <2>2. job[j].spent = None /\ calls[j] = 0 /\ pool[j].at = "none"
    BY <1>2, <1>6 DEF Story, Unspent
  <2>3. row \in Row /\ row.state = "pending" /\ row.spent = None
    BY <1>2, <2>1, <2>2, PostponedRow
  <2>. HIDE DEF row
  <2>4. Story(row, calls[j], pool[j].at) /\ Moved(job[j], row)
    BY <1>6, <2>2, <2>3 DEF Story, Unspent, Moved, Settled, Purgeable
  <2>5. job' = [job EXCEPT ![j] = row]
    BY <1>6 DEF row
  <2>6. job' \in [Jobs -> Row]
    BY <2>3, <2>5, Before
  <2>7. Moves /\ \A i \in Jobs : Story(job'[i], calls'[i], pool'[i].at)
    BY <1>1, <1>3, <2>4, <2>5, Before, Unmoved DEF Moves
  <2>8. sched' \in Ticks /\ sched'.at = "ready"
    BY <1>6, GoneOn
  <2>9. TypeOK'
    BY <1>3, <2>6, <2>8, Before, TypedNext
  <2>10. QED
    BY <2>7, <2>8, <2>9, TakenFurther
<1>7. CASE /\ job[j].state = "leased" /\ ~OverBudget(j, sched.lag)
           /\ job' = [job EXCEPT ![j] = Begun(j)] /\ sched' = [sched EXCEPT !.at = "begun"]
  <2>1. job[j].spent = None /\ calls[j] = 0 /\ pool[j].at = "none"
    BY <1>2, <1>7 DEF Story, Unspent
  <2>2. /\ Begun(j) \in Row /\ Begun(j).state = "running" /\ Begun(j).kind = job[j].kind
        /\ Begun(j).spent = IF job[j].kind = "draft" THEN sched.lag ELSE None
    BY <1>1, <1>2, <2>1, Before, BegunRow
  <2>3. sched.lag # None
    BY Before, NoneAssumption, Numbers DEF Ticks
  <2>4. Story(Begun(j), calls[j], pool[j].at) /\ Ready(Begun(j), calls[j], pool[j].at)
    BY <2>1, <2>2, <2>3 DEF Story, Ready, Unspent
  <2>5. job' \in [Jobs -> Row]
    BY <1>7, <2>2, Before
  <2>6. sched' \in Ticks /\ sched'.at = "begun" /\ sched'.job = j
    BY <1>7, Before DEF Ticks, j
  <2>7. TypeOK'
    BY <1>3, <2>5, <2>6, Before, TypedNext
  <2>8. Stories'
    BY <1>1, <1>3, <1>7, <2>4, Before DEF Stories
  <2>9. Engaged'
    BY <1>1, <1>3, <1>7, <2>4, <2>6, Before DEF Engaged
  <2>10. Moves \/ Charge(j)
    <3>1. \A i \in Jobs \ {j} : Moved(job[i], job'[i])
      BY <1>7, Before, Unmoved
    <3>2. job'[j] = Begun(j)
      BY <1>1, <1>7, Before
    <3>3. CASE job[j].kind = "draft"
      <4>1. sched.lag \in 0..MaxLag /\ job[j].kind \in Kinds
            /\ job[j].state \notin Settled \cup {"purged"}
        BY <1>7, <3>3, Before DEF Ticks, Kinds, Settled, Purgeable
      <4>2. QED
        BY <1>7, <2>2, <3>1, <3>2, <4>1 DEF Charge
    <3>4. CASE job[j].kind # "draft"
      <4>1. Moved(job[j], Begun(j))
        BY <1>7, <2>2, <3>4 DEF Moved, Settled, Purgeable
      <4>2. QED
        BY <3>1, <3>2, <4>1 DEF Moves
    <3>5. QED
      BY <3>3, <3>4
  <2>11. QED
    BY <1>1, <2>7, <2>8, <2>9, <2>10 DEF IInv
<1>8. QED
  BY <1>4, <1>5, <1>6, <1>7 DEF Begin, j

LEMMA PublishReminderStep ==
  ASSUME IInv, PublishReminder
  PROVE  IInv' /\ (Moves \/ \E j \in Jobs : Charge(j))
<1>. DEFINE j == sched.job
<1>1. j \in Jobs /\ Ready(job[j], calls[j], pool[j].at) /\ job[j].kind = "reminder"
  BY DEF IInv, Engaged, PublishReminder
<1>2. sched' = [sched EXCEPT !.at = "ready", !.job = None]
  BY DEF PublishReminder
<1>3. PICK quiet \in BOOLEAN : job' = [job EXCEPT ![j] = Published(j, job[j].attempt, quiet)]
  BY <1>1, Before DEF PublishReminder
<1>. HIDE DEF j
<1>4. job[j] \in Row /\ Story(job[j], calls[j], pool[j].at)
  BY <1>1, Before
<1>5. UNCHANGED <<calls, pool, scope, proc>>
  BY DEF PublishReminder
<1>6. CASE job' = [job EXCEPT ![j] = job[j]]
  <2>1. job' \in [Jobs -> Row] /\ \A i \in Jobs : Calm(job[i], job'[i], calls[i])
    BY <1>1, <1>6, Before
  <2>2. QED
    BY <1>2, <1>5, <2>1, GoneOn, Before, CalmStep
<1>7. CASE job[j].state = "running" /\ job' = [job EXCEPT ![j] = Cancelled(job[j])]
  <2>1. Calm(job[j], Cancelled(job[j]), calls[j])
    BY <1>4, <1>7, SettleCalm DEF Cancelled, Active
  <2>2. job' \in [Jobs -> Row] /\ \A i \in Jobs : Calm(job[i], job'[i], calls[i])
    BY <1>1, <1>7, <2>1, CalmOne
  <2>3. QED
    BY <1>2, <1>5, <2>2, GoneOn, Before, CalmStep
<1>8. CASE /\ job[j].state = "running" /\ job[j].current /\ ~OverBudget(j, 0)
           /\ job' = [job EXCEPT ![j] = Result(j)]
  <2>1. /\ Result(j) \in Row /\ Result(j).state = "succeeded" /\ Result(j).kind = "reminder"
        /\ Result(j).current /\ Result(j).spent = 0
    BY <1>1, <1>4, <1>8, ResultRow
  <2>2. calls[j] = 0 /\ pool[j].at = "none"
    BY <1>1 DEF Ready
  <2>3. Story(Result(j), calls[j], pool[j].at)
    BY <2>1, <2>2 DEF Story, Unspent
  <2>4. job' \in [Jobs -> Row]
    BY <1>8, <2>1, Before
  <2>5. sched' \in Ticks /\ sched'.at = "ready"
    BY <1>2, GoneOn
  <2>6. TypeOK'
    BY <1>5, <2>4, <2>5, Before, TypedNext
  <2>7. \A i \in Jobs : Story(job'[i], calls'[i], pool'[i].at)
    BY <1>1, <1>5, <1>8, <2>3, Before
  <2>8. Charge(j)
    <3>1. 0 \in 0..MaxLag /\ job[j].kind \in Kinds /\ job[j].state \notin Settled \cup {"purged"}
      BY <1>1, <1>8, Numbers DEF Kinds, Settled, Purgeable
    <3>2. /\ job'[j].kind = job[j].kind /\ job'[j].state # "purged"
          /\ \A i \in Jobs \ {j} : Moved(job[i], job'[i])
      BY <1>1, <1>8, <2>1, Before, Unmoved
    <3>3. QED
      BY <1>8, <3>1, <3>2 DEF Charge
  <2>9. QED
    BY <1>1, <2>5, <2>6, <2>7, <2>8, TakenFurther
<1>9. QED
  BY <1>1, <1>3, <1>6, <1>7, <1>8 DEF Published, Lost, Unwanted

LEMMA DispatchStep ==
  ASSUME IInv, Dispatch
  PROVE  IInv' /\ Moves
<1>. DEFINE j == sched.job
<1>1. j \in Jobs /\ Ready(job[j], calls[j], pool[j].at) /\ job[j].kind = "draft"
  BY DEF IInv, Engaged, Dispatch
<1>2. sched' = [sched EXCEPT !.at = "ready", !.job = None] /\ UNCHANGED <<calls, scope, proc>>
  BY DEF Dispatch
<1>. HIDE DEF j
<1>3. job[j] \in Row /\ Story(job[j], calls[j], pool[j].at)
  BY <1>1, Before
<1>4. ASSUME NEW state \in {"result_unknown", "failed"},
             job' = [job EXCEPT ![j] = Fail(job[j], state)], UNCHANGED pool
      PROVE  IInv' /\ Moves
  <2>1. Calm(job[j], Fail(job[j], state), calls[j])
    BY <1>1, <1>3, FailCalm DEF Ready
  <2>2. job' \in [Jobs -> Row] /\ \A i \in Jobs : Calm(job[i], job'[i], calls[i])
    BY <1>1, <1>4, <2>1, CalmOne
  <2>3. QED
    BY <1>2, <1>4, <2>2, GoneOn, Before, CalmStep
<1>5. ASSUME UNCHANGED job,
             pool' = [pool EXCEPT ![j] = [at |-> "queued", stopped |-> FALSE,
                                          generation |-> job[j].attempt]]
      PROVE  IInv' /\ Moves
  <2>1. pool' \in [Jobs -> Run]
    BY <1>3, <1>5, Before DEF Run, Row
  <2>2. sched' \in Ticks /\ sched'.at = "ready"
    BY <1>2, GoneOn
  <2>3. TypeOK'
    BY <1>2, <1>5, <2>1, <2>2, Before, TypedNext
  <2>4. Story(job[j], calls[j], "queued")
    BY <1>1, <1>3 DEF Story, Ready, Unspent
  <2>5. pool'[j].at = "queued" /\ \A i \in Jobs \ {j} : pool'[i] = pool[i]
    BY <1>1, <1>5, Before
  <2>6. \A i \in Jobs : Story(job'[i], calls'[i], pool'[i].at)
    BY <1>2, <1>5, <2>4, <2>5, Before
  <2>7. QED
    BY <1>5, <2>2, <2>3, <2>6, TakenFurther, Unmoved DEF Moves
<1>6. QED
  <2>1. CASE job' = [job EXCEPT ![j] = Fail(@, "failed")] /\ UNCHANGED pool
    BY <1>1, <1>4, <2>1, Before
  <2>2. CASE job' = [job EXCEPT ![j] = Fail(@, "result_unknown")] /\ UNCHANGED pool
    BY <1>1, <1>4, <2>2, Before
  <2>3. QED
    BY <1>5, <2>1, <2>2 DEF Dispatch, j

LEMMA StartStep ==
  ASSUME IInv, NEW j \in Jobs, Start(j)
  PROVE  IInv' /\ Moves
<1>1. job[j] \in Row /\ Story(job[j], calls[j], pool[j].at) /\ pool[j].at = "queued"
  BY Before DEF Start
<1>2. calls[j] = 0 /\ UNCHANGED <<sched, scope, proc>>
  BY <1>1 DEF Story, Start
<1>3. ASSUME NEW new, Calm(job[j], new, calls[j]), job' = [job EXCEPT ![j] = new],
             pool' = [pool EXCEPT ![j] = NoRun], UNCHANGED calls
      PROVE  IInv' /\ Moves
  <2>1. job' \in [Jobs -> Row] /\ \A i \in Jobs : Calm(job[i], job'[i], calls[i])
    BY <1>3, CalmOne
  <2>2. pool' \in [Jobs -> Run] /\ \A i \in Jobs : pool'[i].at \in {pool[i].at, "none"}
    BY <1>3, DroppedRun
  <2>3. QED
    BY <1>2, <1>3, <2>1, <2>2, Before, CalmStep
<1>4. CASE /\ job[j].state = "running" /\ UNCHANGED job
           /\ calls' = [calls EXCEPT ![j] = @ + 1] /\ pool' = [pool EXCEPT ![j].at = "called"]
  <2>1. calls' \in [Jobs -> Nat] /\ calls'[j] = 1
    BY <1>2, <1>4, Before
  <2>2. pool' \in [Jobs -> Run] /\ pool'[j].at = "called"
    BY <1>4, Before DEF Run
  <2>3. \A i \in Jobs \ {j} : calls'[i] = calls[i] /\ pool'[i] = pool[i]
    BY <1>4, Before
  <2>4. TypeOK'
    BY <1>2, <1>4, <2>1, <2>2, Before, TypedNext
  <2>5. Story(job[j], 1, "called")
    BY <1>1, <1>4 DEF Story, Unspent
  <2>6. Stories'
    BY <1>4, <2>1, <2>2, <2>3, <2>5, Before DEF Stories
  <2>7. Engaged'
    BY <1>1, <1>2, <1>4, <2>3 DEF IInv, Engaged, Ready
  <2>8. Moves
    BY <1>4, Unmoved DEF Moves
  <2>9. QED
    BY <2>4, <2>6, <2>7, <2>8 DEF IInv
<1>5. QED
  <2>1. CASE Over(j) /\ job' = [job EXCEPT ![j] = Fail(job[j], "failed")]
             /\ pool' = [pool EXCEPT ![j] = NoRun] /\ UNCHANGED calls
    <3>1. Calm(job[j], Fail(job[j], "failed"), calls[j])
      BY <1>1, <1>2, FailCalm
    <3>2. QED
      BY <1>3, <2>1, <3>1
  <2>2. CASE job' = [job EXCEPT ![j] = job[j]] /\ pool' = [pool EXCEPT ![j] = NoRun]
             /\ UNCHANGED calls
    BY <1>3, <2>2, Before
  <2>3. CASE /\ job[j].state = "running" /\ job' = [job EXCEPT ![j] = Cancelled(job[j])]
             /\ pool' = [pool EXCEPT ![j] = NoRun] /\ UNCHANGED calls
    <3>1. Calm(job[j], Cancelled(job[j]), calls[j])
      BY <1>1, <2>3, SettleCalm DEF Cancelled, Active
    <3>2. QED
      BY <1>3, <2>3, <3>1
  <2>4. QED
    BY <1>4, <2>1, <2>2, <2>3, Before DEF Start, Lost

LEMMA FinishStep ==
  ASSUME IInv, NEW j \in Jobs, Finish(j)
  PROVE  IInv' /\ Moves
<1>1. job[j] \in Row /\ Story(job[j], calls[j], pool[j].at) /\ pool[j].at = "called"
  BY Before DEF Finish
<1>2. calls[j] = 1 /\ UNCHANGED <<calls, sched, scope, proc>>
  BY <1>1 DEF Story, Finish
<1>3. pool' = [pool EXCEPT ![j] = NoRun]
  BY DEF Finish
<1>4. pool' \in [Jobs -> Run] /\ \A i \in Jobs : pool'[i].at \in {pool[i].at, "none"}
  BY <1>3, DroppedRun
<1>5. ASSUME NEW new, Calm(job[j], new, calls[j]), job' = [job EXCEPT ![j] = new]
      PROVE  IInv' /\ Moves
  <2>1. job' \in [Jobs -> Row] /\ \A i \in Jobs : Calm(job[i], job'[i], calls[i])
    BY <1>5, CalmOne
  <2>2. QED
    BY <1>2, <1>4, <2>1, Before, CalmStep
<1>6. CASE job' = [job EXCEPT ![j] = Outcome(j)]
  BY <1>1, <1>5, <1>6, FailCalm DEF Outcome
<1>7. CASE job' = [job EXCEPT ![j] = job[j]]
  BY <1>5, <1>7, Before
<1>8. CASE job[j].state = "running" /\ job' = [job EXCEPT ![j] = Cancelled(job[j])]
  <2>1. Calm(job[j], Cancelled(job[j]), calls[j])
    BY <1>1, <1>8, SettleCalm DEF Cancelled, Active
  <2>2. QED
    BY <1>5, <1>8, <2>1
<1>9. CASE job[j].state = "running" /\ job[j].current /\ job' = [job EXCEPT ![j] = Result(j)]
  <2>1. job[j].kind = "draft" /\ job[j].spent # None
    BY <1>1, <1>2, <1>9 DEF Story
  <2>2. /\ Result(j) \in Row /\ Result(j).state = "succeeded" /\ Result(j).kind = "draft"
        /\ Result(j).current /\ Result(j).spent = job[j].spent
    BY <1>1, <1>9, <2>1, ResultRow
  <2>3. Story(Result(j), 1, "none") /\ Moved(job[j], Result(j))
    BY <1>9, <2>1, <2>2 DEF Story, Moved, Unspent, Settled, Purgeable
  <2>4. job' \in [Jobs -> Row]
    BY <1>9, <2>2, Before
  <2>5. pool'[j].at = "none" /\ \A i \in Jobs \ {j} : pool'[i] = pool[i] /\ job'[i] = job[i]
    BY <1>3, <1>9, Before DEF NoRun
  <2>6. TypeOK'
    BY <1>2, <1>4, <2>4, Before, TypedNext
  <2>7. job'[j] = Result(j)
    BY <1>9, Before
  <2>8. Stories' /\ Moves
    BY <1>2, <2>3, <2>5, <2>7, Before, Unmoved DEF Stories, Moves
  <2>9. Engaged'
    BY <1>1, <1>2, <2>5 DEF IInv, Engaged, Ready
  <2>10. QED
    BY <2>6, <2>8, <2>9 DEF IInv
<1>10. QED
  BY <1>6, <1>7, <1>8, <1>9, Before DEF Finish, Published, Lost, Unwanted

-----------------------------------------------------------------------------
(* All steps together. *)

LEMMA Begins ==
  ASSUME Init
  PROVE  IInv
<1>1. /\ NoRun \in Run /\ NoRun.at = "none" /\ IdleTick \in Ticks /\ IdleTick.at = "idle"
  BY Ends, Numbers DEF NoRun, Run, IdleTick, Ticks
<1>2. TypeOK
  BY <1>1, NewJobRow, Typed, ScopeAssumption DEF Init
<1>3. Story(NewJob, 0, "none")
  BY NewJobRow DEF Story, Unspent
<1>4. Stories /\ Engaged
  BY <1>1, <1>3 DEF Init, Stories, Engaged
<1>5. QED
  BY <1>2, <1>4 DEF IInv

LEMMA Stutters ==
  ASSUME IInv, UNCHANGED vars
  PROVE  IInv' /\ Moves
  BY Before, CalmStep DEF vars

LEMMA NextStep ==
  ASSUME IInv, [Next]_vars
  PROVE  IInv' /\ (Moves \/ \E j \in Jobs : Charge(j))
<1>1. CASE StartTick
  BY <1>1, StartTickStep
<1>2. CASE Claim
  BY <1>2, ClaimStep
<1>3. CASE EndTick
  BY <1>3, EndTickStep
<1>4. CASE Begin
  BY <1>4, BeginStep
<1>5. CASE PublishReminder
  BY <1>5, PublishReminderStep
<1>6. CASE Dispatch
  BY <1>6, DispatchStep
<1>7. ASSUME NEW j \in Jobs, Revoke(j) \/ Drop(j) \/ Start(j) \/ Finish(j)
      PROVE  IInv' /\ Moves
  BY <1>7, RevokeStep, DropStep, StartStep, FinishStep
<1>8. ASSUME NEW j \in Jobs, UserCancel(j) \/ SourceChange(j) \/ Expire(j)
      PROVE  IInv' /\ Moves
  BY <1>8, UserCancelStep, SourceChangeStep, ExpireStep
<1>9. ASSUME NEW kinds \in Scopes, SetScope(kinds)
      PROVE  IInv' /\ Moves
  BY <1>9, SetScopeStep
<1>10. CASE Advance
  BY <1>10, AdvanceStep
<1>11. CASE Stop
  BY <1>11, StopStep
<1>12. CASE Down
  BY <1>12, DownStep
<1>13. CASE Restart
  BY <1>13, RestartStep
<1>14. CASE UNCHANGED vars
  BY <1>14, Stutters
<1>15. QED
  BY <1>1, <1>2, <1>3, <1>4, <1>5, <1>6, <1>7, <1>8, <1>9, <1>10, <1>11, <1>12, <1>13,
     <1>14 DEF Next, Tick

-----------------------------------------------------------------------------
(* The budget. *)

\* What is spent was spent before, by a job of the same kind, and what is counted was
\* counted.
LEMMA NothingSpent ==
  ASSUME NEW j \in Jobs, Moved(job[j], job'[j]), NEW k
  PROVE  j \in Spent(k)' => j \in Spent(k)
  BY DEF Moved, Spent

LEMMA NothingCounted ==
  ASSUME IInv, NEW j \in Jobs, Moved(job[j], job'[j]), NEW k, j \in Counted(k)'
  PROVE  j \in Counted(k)
<1>1. j \in Spent(k) /\ job'[j].state # "purged"
  BY NothingSpent DEF Counted, Retained
<1>2. job[j].state # "purged"
  BY <1>1 DEF Moved
<1>3. job[j].state # "absent"
  BY <1>1, Before DEF Spent, Story, Unspent
<1>4. QED
  BY <1>1, <1>2, <1>3 DEF Counted, Retained

\* What is counted is in the count of any job of its kind.
LEMMA CountCounts ==
  ASSUME IInv, NEW j \in Jobs, NEW lag \in 0..MaxLag
  PROVE  Counted(job[j].kind) \subseteq Recent(j, lag)
<1>. SUFFICES ASSUME NEW i \in Counted(job[j].kind)
              PROVE  i \in Recent(j, lag)
  OBVIOUS
<1>1. /\ i \in Jobs /\ job[i].kind = job[j].kind /\ job[i].spent # None /\ job[i].spent < Day
      /\ Retained(i)
  BY DEF Spent, Counted
<1>2. job[i].spent \in Int
  BY <1>1, Before, Numbers DEF Row, Ages
<1>3. job[i].spent - lag < Day
  BY <1>1, <1>2, Numbers
<1>4. QED
  BY <1>1, <1>3 DEF Recent

LEMMA Few ==
  ASSUME NEW S, NEW T, S \subseteq T, T \subseteq Jobs
  PROVE  /\ IsFiniteSet(S) /\ Cardinality(S) \in Nat /\ Cardinality(T) \in Nat
         /\ Cardinality(S) <= Cardinality(T)
<1>1. IsFiniteSet(T) /\ IsFiniteSet(S)
  BY JobAssumption, FS_Subset
<1>2. QED
  BY <1>1, FS_Subset, FS_CardinalityType

LEMMA Budgets ==
  ASSUME NEW k \in Kinds
  PROVE  Budget[k] \in Nat \ {0}
  BY DurationAssumption

LEMMA BudgetStays ==
  ASSUME IInv, CountedBudgetKept, [Next]_vars
  PROVE  CountedBudgetKept'
<1>. SUFFICES ASSUME NEW k \in Kinds
              PROVE  Cardinality(Counted(k)') <= Budget[k]
  BY DEF CountedBudgetKept
<1>1. /\ Counted(k) \subseteq Jobs /\ Counted(k)' \subseteq Jobs
      /\ Cardinality(Counted(k)) <= Budget[k]
  BY DEF Counted, Spent, CountedBudgetKept
<1>2. ASSUME Counted(k)' \subseteq Counted(k)
      PROVE  Cardinality(Counted(k)') <= Budget[k]
  BY <1>1, <1>2, Few, Budgets
<1>3. CASE Moves
  BY <1>1, <1>2, <1>3, NothingCounted DEF Moves
<1>4. ASSUME NEW j \in Jobs, Charge(j)
      PROVE  Cardinality(Counted(k)') <= Budget[k]
  <2>1. \A i \in Jobs \ {j} : i \in Counted(k)' => i \in Counted(k)
    BY <1>4, NothingCounted DEF Charge
  <2>2. CASE job[j].kind # k
    <3>1. j \notin Counted(k)'
      BY <1>4, <2>2 DEF Charge, Counted, Spent
    <3>2. QED
      BY <1>1, <1>2, <2>1, <3>1
  <2>3. CASE job[j].kind = k
    <3>1. PICK lag \in 0..MaxLag : ~OverBudget(j, lag)
      BY <1>4 DEF Charge
    <3>2. Counted(k) \subseteq Recent(j, lag) /\ Recent(j, lag) \subseteq Jobs
      BY <2>3, CountCounts DEF Recent
    <3>3. Cardinality(Recent(j, lag)) < Budget[k]
      BY <2>3, <3>1, <3>2, Few, Budgets DEF OverBudget
    <3>4. Cardinality(Counted(k)) < Budget[k] /\ IsFiniteSet(Counted(k))
          /\ Cardinality(Counted(k)) \in Nat
      BY <3>2, <3>3, Few, Budgets
    <3>5. Counted(k)' \subseteq Counted(k) \cup {j}
      BY <1>1, <2>1
    <3>6. /\ IsFiniteSet(Counted(k) \cup {j})
          /\ Cardinality(Counted(k) \cup {j})
               \in {Cardinality(Counted(k)), Cardinality(Counted(k)) + 1}
      BY <3>4, FS_AddElement
    <3>7. Cardinality(Counted(k)') <= Cardinality(Counted(k) \cup {j})
          /\ Cardinality(Counted(k)') \in Nat
      BY <1>1, <3>5, Few
    <3>8. QED
      BY <3>4, <3>6, <3>7, Budgets
  <2>4. QED
    BY <2>2, <2>3
<1>5. QED
  BY <1>3, <1>4, NextStep

\* A charge or a publication comes early, if it does at least a day before the row may
\* be forgotten.
Early(j) ==
  Retained(j) /\ job[j].spent # None /\ job[j].spent < Day =>
    job[j].age - job[j].spent <= Keep - Day
AllEarly == \A j \in Jobs : Early(j)

\* Then nothing that is forgotten is in the day's count.
Gone == \A k \in Kinds : Spent(k) = Counted(k)

LEMMA GoneStays ==
  ASSUME IInv, AllEarly, Gone, [Next]_vars
  PROVE  Gone'
<1>. SUFFICES ASSUME NEW k \in Kinds, NEW j \in Spent(k)'
              PROVE  Retained(j)'
  BY DEF Gone, Counted
<1>1. j \in Jobs
  BY DEF Spent
<1>2. job'[j] \in Row /\ Story(job'[j], calls'[j], pool'[j].at)
  BY <1>1, NextStep, TypedNext DEF IInv, Stories
<1>3. job'[j].state # "absent"
  BY <1>2 DEF Spent, Story, Unspent
<1>4. ASSUME job'[j].state = "purged", Moved(job[j], job'[j])
      PROVE  FALSE
  <2>1. j \in Spent(k)
    BY <1>1, <1>4, NothingSpent
  <2>2. Retained(j)
    BY <2>1 DEF Gone, Counted
  <2>3. job[j].age > Keep /\ job[j].age \in Int
    BY <1>1, <1>4, <2>2, Before, Numbers DEF Moved, Retained, Row, Kept
  <2>4. job[j].spent # None /\ job[j].spent < Day /\ job[j].spent \in Int
    BY <1>1, <2>1, Before, Numbers DEF Spent, Row, Ages
  <2>5. job[j].age - job[j].spent <= Keep - Day
    BY <1>1, <2>2, <2>4 DEF AllEarly, Early
  <2>6. QED
    BY <2>3, <2>4, <2>5, Numbers
<1>5. job'[j].state # "purged"
  BY <1>1, <1>4, NextStep DEF Moves, Charge
<1>6. QED
  BY <1>3, <1>5 DEF Retained

-----------------------------------------------------------------------------
(* The theorems. *)

\* The inductive invariant holds in every state of the queue: rows, model calls, the
\* pool and the tick agree with each other.
THEOREM Invariance == Spec => []IInv
<1>1. Init => IInv
  BY Begins
<1>2. IInv /\ [Next]_vars => IInv'
  BY NextStep
<1>3. QED
  BY <1>1, <1>2, PTL DEF Spec

\* Every variable keeps to its type: attempts, ages, leases and waits stay within
\* their bounds however long the queue runs.
THEOREM TypeCorrect == Spec => []TypeOK
<1>1. IInv => TypeOK
  BY DEF IInv
<1>2. QED
  BY <1>1, Invariance, PTL

\* No draft is sent to the model twice, and none before its charge is in the table,
\* over lost leases, stops, crashes and late answers.
THEOREM OneCallEach == Spec => []ModelCalledOnce
<1>1. ASSUME IInv
      PROVE  ModelCalledOnce
  <2>. SUFFICES ASSUME NEW j \in Jobs
                PROVE  calls[j] <= 1
                       /\ (calls[j] > 0 => job[j].kind = "draft" /\ job[j].spent # None)
    BY DEF ModelCalledOnce
  <2>1. Story(job[j], calls[j], pool[j].at)
    BY <1>1, Before
  <2>2. QED
    BY <2>1 DEF Story
<1>2. QED
  BY <1>1, Invariance, PTL

\* What the inbox says of a job is what happened: failed drafts have cost nothing, and
\* results come from the source the job was queued for.
THEOREM OutcomesTrue == Spec => []OutcomeTruthful
<1>1. IInv => OutcomeTruthful
  BY DEF IInv, Stories, Story, OutcomeTruthful
<1>2. QED
  BY <1>1, Invariance, PTL

\* A settled job stays settled the way it was, until it is forgotten.
THEOREM SettledForGood == Spec => SettledIsFinal
<1>1. ASSUME IInv, [Next]_vars
      PROVE  [\A j \in Jobs : job[j].state \in Settled =>
                job'[j].state \in {job[j].state, "purged"}]_vars
  <2>1. ASSUME NEW j \in Jobs, job[j].state \in Settled
        PROVE  job'[j].state \in {job[j].state, "purged"}
    <3>1. Moved(job[j], job'[j])
      BY <1>1, <2>1, NextStep DEF Moves, Charge
    <3>2. QED
      BY <2>1, <3>1 DEF Moved
  <2>2. QED
    BY <2>1
<1>2. QED
  BY <1>1, Invariance, PTL DEF Spec, SettledIsFinal

\* What the table holds never shows more charges or publications in a rolling day than
\* the budget, although the tick's clock is stale and workers publish beside it.
THEOREM BudgetsHold == Spec => []CountedBudgetKept
<1>1. Init => CountedBudgetKept
  <2>. SUFFICES ASSUME Init, NEW k \in Kinds
                PROVE  Cardinality(Counted(k)) <= Budget[k]
    BY DEF CountedBudgetKept
  <2>1. Counted(k) = {}
    BY NewJobRow DEF Init, Counted, Spent
  <2>2. QED
    BY <2>1, FS_EmptySet, Budgets
<1>2. IInv /\ CountedBudgetKept /\ [Next]_vars => CountedBudgetKept'
  BY BudgetStays
<1>3. QED
  BY <1>1, <1>2, Invariance, PTL DEF Spec

\* The budgets hold of everything charged and published, forgotten rows included, as
\* long as no job is charged or published later than Keep - Day after it was queued:
\* six days in the code.  The code sees to no such thing.
THEOREM EarlyBudgetsHold == Spec /\ []AllEarly => []BudgetKept
<1>1. Init => Gone
  BY NewJobRow DEF Init, Gone, Spent, Counted
<1>2. IInv /\ AllEarly /\ Gone /\ [Next]_vars => Gone'
  BY GoneStays
<1>3. CountedBudgetKept /\ Gone => BudgetKept
  BY DEF CountedBudgetKept, BudgetKept, Gone
<1>4. QED
  BY <1>1, <1>2, <1>3, Invariance, BudgetsHold, PTL DEF Spec

==============================================================================
