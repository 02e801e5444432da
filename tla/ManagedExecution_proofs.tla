----------------------- MODULE ManagedExecution_proofs -----------------------
(***************************************************************************)
(* Proofs about ManagedExecution, for any set of runs and of workers, any  *)
(* queue limit and any number of retained runs.                            *)
(***************************************************************************)
EXTENDS ManagedExecution, FiniteSetTheorems, WellFoundedInduction, TLAPS

-----------------------------------------------------------------------------
(* The inductive invariant. *)

RunRec == [state : RunStates, terminal : BOOLEAN, done : BOOLEAN, stop : BOOLEAN,
           late : BOOLEAN, started : BOOLEAN, published : Nat]
ControlStates == {"ACTIVE", "CANCELLED", "TIMED_OUT", "COMPLETED"}
ControlRec == [state : ControlStates, heartbeat : BOOLEAN]
Results == Outcomes \cup Exceptions \cup {"none"}
WorkerRec == [at : Places, run : Runs \cup {None}, result : Results]

\* What a run and its control say of each other.
Story(m, c) ==
  /\ m.published = IF m.terminal THEN 1 ELSE 0
  /\ m.done => m.terminal
  /\ m.state \in {"absent", "queued"} => ~m.terminal /\ ~m.started
  /\ m.state = "evicted" => m.done
  /\ c.state = "COMPLETED" => m.started
  /\ m.terminal /\ m.started => ~(c.heartbeat /\ c.state = "ACTIVE")

\* A run that a worker has not begun yet, in the queue or just taken from it.
Waiting(m) == m.state # "absent" /\ ~m.started /\ ~m.done

\* What a busy worker knows of its run.
Behind == {"ended", "titling", "titled"}
Ongoing == {"operating"} \cup Behind
Known(m, c, p) ==
  /\ m.state # "absent" /\ ~m.done
  /\ m.started <=> p.at \in Ongoing
  /\ p.at = "entered" => m.state # "queued" /\ (m.terminal => c.state # "ACTIVE")
  /\ p.at \in Behind => ~c.heartbeat /\ p.result # "none"

Holds(w, h) == worker[w].at # "idle" /\ worker[w].run = h

Stories == \A h \in Runs : Story(run[h], control[h])
Entries == \A i \in 1..Len(queue) : Waiting(run[queue[i]])
Holders == \A w \in Workers : worker[w].at # "idle" =>
             /\ worker[w].run \in Runs
             /\ Known(run[worker[w].run], control[worker[w].run], worker[w])

\* A run is in one place: once in the queue, or with one worker.
OnePlace ==
  /\ \A i, j \in 1..Len(queue) : queue[i] = queue[j] => i = j
  /\ \A i \in 1..Len(queue) : \A w \in Workers : ~Holds(w, queue[i])
  /\ \A v, w \in Workers : \A h \in Runs : Holds(v, h) /\ Holds(w, h) => v = w

\* The runs the manager has accepted, each once.
Admission ==
  /\ \A i, j \in 1..Len(accepted) : accepted[i] = accepted[j] => i = j
  /\ \A h \in Runs : run[h].state # "absent" <=> \E i \in 1..Len(accepted) : accepted[i] = h

Capacity == QueueWithinCapacity /\ IsFiniteSet(reserved)

Records ==
  /\ run \in [Runs -> RunRec] /\ control \in [Runs -> ControlRec]
  /\ worker \in [Workers -> WorkerRec]
  /\ queue \in Seq(Runs) /\ accepted \in Seq(Runs)

Working == Records /\ Stories /\ Entries /\ Holders /\ OnePlace /\ Admission
IInv == TypeOK /\ Capacity /\ Working /\ RetentionBounded

LEMMA Typed ==
  TypeOK <=> /\ Records /\ queued \in 0..MaxQueue
             /\ reserved \subseteq Runs /\ cancelDue \subseteq Runs
             /\ phase \in {"open", "closed", "shut"}
  BY DEF TypeOK, Records, RunRec, ControlRec, ControlStates, WorkerRec, Results

LEMMA TypedNext ==
  TypeOK' <=> /\ Records' /\ queued' \in 0..MaxQueue
              /\ reserved' \subseteq Runs /\ cancelDue' \subseteq Runs
              /\ phase' \in {"open", "closed", "shut"}
  BY DEF TypeOK, Records, RunRec, ControlRec, ControlStates, WorkerRec, Results

-----------------------------------------------------------------------------
(* The capacity of the queue. *)

\* No step but an admission, a dequeue and the closing touches the queue.
LEMMA CapacityStep ==
  ASSUME TypeOK, Capacity, [Next]_vars
  PROVE  Capacity' /\ queued' \in 0..MaxQueue /\ queue' \in Seq(Runs) /\ reserved' \subseteq Runs
<1>1. /\ queue \in Seq(Runs) /\ queued \in 0..MaxQueue /\ queued = Len(queue)
      /\ reserved \subseteq Runs /\ IsFiniteSet(reserved) /\ Cardinality(reserved) \in Nat
      /\ queued + Cardinality(reserved) <= MaxQueue /\ MaxQueue \in Nat
  BY FS_CardinalityType, LimitAssumption DEF TypeOK, Capacity, QueueWithinCapacity
<1>2. CASE UNCHANGED <<queue, queued, reserved>>
  BY <1>1, <1>2 DEF Capacity, QueueWithinCapacity
<1>3. ASSUME NEW h \in Runs, Reserve(h)
      PROVE  Capacity' /\ queued' \in 0..MaxQueue /\ queue' \in Seq(Runs) /\ reserved' \subseteq Runs
  <2>1. IsFiniteSet(reserved') /\ Cardinality(reserved') = Cardinality(reserved) + 1
    BY <1>1, <1>3, FS_AddElement DEF Reserve
  <2>2. queue' = queue /\ queued' = queued
    BY <1>3 DEF Reserve
  <2>3. QED
    BY <1>1, <1>3, <2>1, <2>2 DEF Reserve, Free, Capacity, QueueWithinCapacity
<1>4. ASSUME NEW h \in Runs, Withdraw(h)
      PROVE  Capacity' /\ queued' \in 0..MaxQueue /\ queue' \in Seq(Runs) /\ reserved' \subseteq Runs
  <2>1. IsFiniteSet(reserved') /\ Cardinality(reserved') = Cardinality(reserved) - 1
    BY <1>1, <1>4, FS_RemoveElement DEF Withdraw
  <2>2. queue' = queue /\ queued' = queued
    BY <1>4 DEF Withdraw
  <2>3. QED
    BY <1>1, <1>4, <2>1, <2>2 DEF Withdraw, Capacity, QueueWithinCapacity
<1>5. ASSUME NEW h \in Runs, Submit(h)
      PROVE  Capacity' /\ queued' \in 0..MaxQueue /\ queue' \in Seq(Runs) /\ reserved' \subseteq Runs
  <2>1. /\ IsFiniteSet(reserved') /\ reserved' \subseteq Runs
        /\ Cardinality(reserved') = IF h \in reserved THEN Cardinality(reserved) - 1
                                    ELSE Cardinality(reserved)
    BY <1>1, <1>5, FS_RemoveElement DEF Submit
  <2>2. queue' \in Seq(Runs) /\ Len(queue') = Len(queue) + 1 /\ queued' = queued + 1
    BY <1>1, <1>5 DEF Submit
  <2>3. Cardinality(reserved') \in Nat /\ Len(queue') \in Nat
    BY <2>1, <2>2, FS_CardinalityType
  <2>4. Len(queue') + Cardinality(reserved') <= MaxQueue
    BY <1>1, <1>5, <2>1, <2>2 DEF Submit, MaySubmit, Free
  <2>5. QED
    BY <1>1, <2>1, <2>2, <2>3, <2>4 DEF Capacity, QueueWithinCapacity
<1>6. ASSUME NEW w \in Workers, Dequeue(w)
      PROVE  Capacity' /\ queued' \in 0..MaxQueue /\ queue' \in Seq(Runs) /\ reserved' \subseteq Runs
  <2>1. /\ queue' \in Seq(Runs) /\ Len(queue') = Len(queue) - 1 /\ queued' = queued - 1
        /\ Len(queue) >= 1 /\ reserved' = reserved
    BY <1>1, <1>6 DEF Dequeue, hostVars
  <2>2. QED
    BY <1>1, <2>1 DEF Capacity, QueueWithinCapacity
<1>7. CASE Close
  <2>1. queue' = <<>> /\ queued' = 0 /\ reserved' = reserved /\ Len(queue') = 0
    BY <1>7 DEF Close
  <2>2. QED
    BY <1>1, <2>1 DEF Capacity, QueueWithinCapacity
<1>8. ASSUME NEW w \in Workers, WorkerStep(w), ~Dequeue(w)
      PROVE  UNCHANGED <<queue, queued, reserved>>
  BY <1>8 DEF WorkerStep, Enter, Start, MarkCompleted, EmitLate, OperationEnds, BeginTitle,
              EndTitle, Publish, hostVars
<1>9. ASSUME NEW h \in Runs, Interrupt(h) \/ CancelInterrupted(h) \/ Expire(h)
      PROVE  UNCHANGED <<queue, queued, reserved>>
  BY <1>9 DEF Interrupt, CancelInterrupted, Expire, hostVars
<1>10. PoolStartFails \/ Watchdog \/ RegistryClose \/ UNCHANGED vars
         => UNCHANGED <<queue, queued, reserved>>
  BY DEF PoolStartFails, Watchdog, RegistryClose, hostVars, vars
<1>11. QED
  BY <1>2, <1>3, <1>4, <1>5, <1>6, <1>7, <1>8, <1>9, <1>10 DEF Next, HostStep

-----------------------------------------------------------------------------
(* What happens to a run and its control. *)

\* From (m, c) to (n, d): nothing comes back, and a run that ends but stays with its
\* worker lost its control, unless it was still queued.
Moved(m, c, n, d) ==
  /\ n \in RunRec /\ d \in ControlRec /\ Story(n, d)
  /\ n.started <=> m.started
  /\ m.done => n.done
  /\ n.state = "absent" <=> m.state = "absent"
  /\ n.state = "queued" => m.state = "queued"
  /\ m.terminal => n.terminal /\ n.state \in {m.state, "evicted"}
  /\ d.heartbeat => c.heartbeat
  /\ c.state # "ACTIVE" => d.state # "ACTIVE"
  /\ ~m.terminal /\ n.terminal /\ ~n.done => m.state = "queued" \/ d.state # "ACTIVE"

LEMMA SameMoved ==
  ASSUME NEW m \in RunRec, NEW c \in ControlRec, Story(m, c)
  PROVE  Moved(m, c, m, c)
  BY DEF Moved

\* A worker that knew a run still knows it after the step.
LEMMA MovedKnown ==
  ASSUME NEW m \in RunRec, NEW c, NEW n, NEW d, NEW p,
         Moved(m, c, n, d), Known(m, c, p), ~n.done
  PROVE  Known(n, d, p)
  BY DEF Moved, Known

LEMMA MovedWaiting ==
  ASSUME NEW m \in RunRec, NEW c, NEW n, NEW d,
         Moved(m, c, n, d), Waiting(m), ~n.done
  PROVE  Waiting(n)
  BY DEF Moved, Waiting

LEMMA RevokedControl ==
  ASSUME NEW c \in ControlRec, NEW how \in ControlStates \ {"ACTIVE"}
  PROVE  /\ Revoked(c, how) \in ControlRec /\ Revoked(c, how).state # "ACTIVE"
         /\ Revoked(c, how).heartbeat => c.heartbeat
         /\ Revoked(c, how).state \in {c.state, how}
         /\ Silent(c) \in ControlRec /\ ~Silent(c).heartbeat /\ Silent(c).state = c.state
  BY DEF ControlRec, ControlStates, Revoked, Silent

LEMMA EndedRun ==
  ASSUME NEW m \in RunRec, NEW s \in RunStates
  PROVE  LET n == Ended(m, s)
         IN  /\ n \in RunRec /\ n.terminal /\ n.state = s /\ n.published = m.published + 1
             /\ (n.done <=> m.done) /\ (n.started <=> m.started) /\ (n.stop <=> m.stop)
             /\ (n.late <=> m.late)
<1>. DEFINE n1 == [m EXCEPT !.state = s]
            n2 == [n1 EXCEPT !.terminal = TRUE]
            n3 == [n2 EXCEPT !.published = m.published + 1]
<1>1. /\ n1 \in RunRec /\ n1.state = s /\ n1.published = m.published
      /\ (n1.done <=> m.done) /\ (n1.started <=> m.started) /\ (n1.stop <=> m.stop)
      /\ (n1.late <=> m.late)
  BY DEF RunRec
<1>. HIDE DEF n1
<1>2. /\ n2 \in RunRec /\ n2.state = s /\ n2.published = m.published /\ n2.terminal
      /\ (n2.done <=> m.done) /\ (n2.started <=> m.started) /\ (n2.stop <=> m.stop)
      /\ (n2.late <=> m.late)
  BY <1>1 DEF RunRec
<1>. HIDE DEF n2
<1>3. m.published + 1 \in Nat
  BY DEF RunRec
<1>4. /\ n3 \in RunRec /\ n3.state = s /\ n3.published = m.published + 1 /\ n3.terminal
      /\ (n3.done <=> m.done) /\ (n3.started <=> m.started) /\ (n3.stop <=> m.stop)
      /\ (n3.late <=> m.late)
  BY <1>2, <1>3 DEF RunRec
<1>5. Ended(m, s) = n3
  BY DEF Ended, n1, n2, n3
<1>6. QED
  BY <1>4, <1>5

\* Flags that say nothing about the end of a run.
LEMMA MarkedRun ==
  ASSUME NEW m \in RunRec, NEW s \in RunStates
  PROVE  /\ [m EXCEPT !.late = TRUE] \in RunRec /\ [m EXCEPT !.stop = TRUE] \in RunRec
         /\ [m EXCEPT !.done = TRUE] \in RunRec /\ [m EXCEPT !.started = TRUE] \in RunRec
         /\ [m EXCEPT !.state = s] \in RunRec
         /\ [m EXCEPT !.stop = TRUE, !.state = s] \in RunRec
  BY DEF RunRec

FinalStates == Outcomes \cup {"result_unknown"}

\* A run that ends, and whose control is as the step left it.
LEMMA EndedMoved ==
  ASSUME NEW m \in RunRec, NEW c \in ControlRec, NEW d \in ControlRec, NEW s \in FinalStates,
         Story(m, c), ~m.terminal, m.state # "absent",
         d.heartbeat => c.heartbeat,
         c.state # "ACTIVE" => d.state # "ACTIVE",
         d.state = "COMPLETED" => m.started,
         m.state = "queued" \/ d.state # "ACTIVE"
  PROVE  Moved(m, c, Ended(m, s), d)
<1>. DEFINE n == Ended(m, s)
<1>1. s \in RunStates /\ s \notin {"absent", "queued", "evicted"}
  BY DEF FinalStates, RunStates, Outcomes
<1>2. m.published = 0 /\ ~m.done
  BY DEF Story
<1>3. n.published = 1
  BY <1>1, EndedRun DEF Story
<1>4. /\ n \in RunRec /\ n.terminal /\ n.state = s /\ ~n.done /\ (n.started <=> m.started)
  BY <1>1, <1>2, EndedRun
<1>. HIDE DEF n
<1>5. Story(n, d)
  BY <1>1, <1>3, <1>4 DEF Story
<1>6. Moved(m, c, n, d)
  BY <1>1, <1>2, <1>4, <1>5 DEF Moved
<1>7. QED
  BY <1>6 DEF n

\* A run that ends and is let go by its worker.
DoneRun(m) == [m EXCEPT !.done = TRUE]

LEMMA DoneMoved ==
  ASSUME NEW m \in RunRec, NEW c, NEW n, NEW d, Moved(m, c, n, d), n.terminal
  PROVE  Moved(m, c, DoneRun(n), d) /\ DoneRun(n).done
<1>1. n \in RunRec
  BY DEF Moved
<1>2. /\ DoneRun(n) \in RunRec /\ DoneRun(n).done /\ DoneRun(n).terminal /\ DoneRun(n).state = n.state
      /\ DoneRun(n).published = n.published /\ (DoneRun(n).started <=> n.started)
  BY <1>1 DEF DoneRun, RunRec
<1>3. Story(DoneRun(n), d)
  BY <1>2 DEF Moved, Story
<1>4. QED
  BY <1>2, <1>3 DEF Moved

LEMMA EndedDone ==
  ASSUME NEW m \in RunRec, NEW c \in ControlRec, NEW d \in ControlRec, NEW s \in FinalStates,
         Story(m, c), ~m.terminal, m.state # "absent",
         d.heartbeat => c.heartbeat,
         c.state # "ACTIVE" => d.state # "ACTIVE",
         d.state = "COMPLETED" => m.started,
         m.started => ~(d.heartbeat /\ d.state = "ACTIVE")
  PROVE  Moved(m, c, DoneRun(Ended(m, s)), d)
<1>. DEFINE n == Ended(m, s)
<1>1. s \in RunStates /\ s \notin {"absent", "queued"}
  BY DEF FinalStates, RunStates, Outcomes
<1>2. /\ n \in RunRec /\ n.terminal /\ n.state = s /\ n.published = 1
      /\ (n.started <=> m.started)
  BY <1>1, EndedRun DEF Story
<1>. HIDE DEF n
<1>3. /\ DoneRun(n) \in RunRec /\ DoneRun(n).done /\ DoneRun(n).terminal
      /\ DoneRun(n).state = s /\ DoneRun(n).published = 1 /\ (DoneRun(n).started <=> m.started)
  BY <1>2 DEF DoneRun, RunRec
<1>4. Story(DoneRun(n), d)
  BY <1>1, <1>3 DEF Story
<1>5. Moved(m, c, DoneRun(n), d)
  BY <1>1, <1>3, <1>4 DEF Moved
<1>6. QED
  BY <1>5 DEF n

\* A deadline that has passed or a mark to stop makes no difference to that.
LEMMA MarkMoved ==
  ASSUME NEW m \in RunRec, NEW c, NEW m2 \in {[m EXCEPT !.late = TRUE], [m EXCEPT !.stop = TRUE]}
  PROVE  /\ m2 \in RunRec /\ m2.state = m.state /\ (m2.terminal <=> m.terminal)
         /\ (m2.done <=> m.done) /\ (m2.started <=> m.started)
         /\ Story(m, c) => Story(m2, c)
         /\ \A n, d : Moved(m2, c, n, d) => Moved(m, c, n, d)
<1>1. /\ m2 \in RunRec /\ m2.state = m.state /\ (m2.terminal <=> m.terminal)
      /\ (m2.done <=> m.done) /\ (m2.started <=> m.started) /\ m2.published = m.published
  BY DEF RunRec
<1>2. Story(m, c) => Story(m2, c)
  BY <1>1 DEF Story
<1>3. \A n, d : Moved(m2, c, n, d) => Moved(m, c, n, d)
  BY <1>1 DEF Moved
<1>4. QED
  BY <1>1, <1>2, <1>3

LEMMA EvictedMoved ==
  ASSUME NEW m \in RunRec, NEW c, NEW n, NEW d, Moved(m, c, n, d), n.terminal, n.done
  PROVE  Moved(m, c, [n EXCEPT !.state = "evicted"], d)
<1>. DEFINE e == [n EXCEPT !.state = "evicted"]
<1>1. n \in RunRec
  BY DEF Moved
<1>2. "evicted" \in RunStates
  BY DEF RunStates
<1>3. /\ e \in RunRec /\ e.state = "evicted" /\ e.done /\ e.terminal
      /\ e.published = n.published /\ (e.started <=> n.started)
  BY <1>1, <1>2 DEF RunRec
<1>. HIDE DEF e
<1>4. Story(e, d)
  BY <1>3 DEF Moved, Story
<1>5. n.state # "absent"
  BY DEF Moved, Story
<1>6. Moved(m, c, e, d)
  BY <1>3, <1>4, <1>5 DEF Moved
<1>7. QED
  BY <1>6 DEF e

-----------------------------------------------------------------------------
(* Most steps take no run in and begin none: every run moves, busy workers stay   *)
(* with their runs or let go of them, and the queue is as it was or empty.        *)

Released(h) == \/ \E w \in Workers : Holds(w, h) /\ worker'[w] = Idle
               \/ InQueue(h) /\ queue' = <<>>
WorkerMoves(w) ==
  \/ worker'[w] = worker[w]
  \/ worker'[w] = Idle
  \/ /\ worker[w].at # "idle" /\ worker'[w].at # "idle" /\ worker'[w].run = worker[w].run
     /\ Known(run'[worker[w].run], control'[worker[w].run], worker'[w])

RowsMove ==
  /\ run' \in [Runs -> RunRec] /\ control' \in [Runs -> ControlRec]
  /\ \A h \in Runs : Moved(run[h], control[h], run'[h], control'[h])

\* No run is done with now that was not, or the oldest are forgotten.
Retires ==
  \/ \A h \in Runs : run'[h].done => run[h].done
  \/ \E r \in [Runs -> RunRec], h \in Runs \cup {None} :
       /\ run' = Evict(r, h)
       /\ \A x \in Runs : r[x].state = "absent" <=> run[x].state = "absent"

Keeps ==
  /\ RowsMove /\ Retires
  /\ worker' \in [Workers -> WorkerRec] /\ \A w \in Workers : WorkerMoves(w)
  /\ queue' \in {queue, <<>>} /\ accepted' = accepted
  /\ \A h \in Runs : run'[h].done => run[h].done \/ Released(h)

LEMMA KeepsWorking ==
  ASSUME Working, Keeps
  PROVE  Working'
<1>1. Records'
  <2>. <<>> \in Seq(Runs)
    OBVIOUS
  <2>1. queue' \in Seq(Runs)
    BY DEF Working, Records, Keeps
  <2>2. accepted' \in Seq(Runs)
    BY DEF Working, Records, Keeps
  <2>3. QED
    BY <2>1, <2>2 DEF Records, Keeps, RowsMove
<1>2. Stories'
  BY DEF Keeps, RowsMove, Moved, Stories
<1>3. \A h \in Runs : run[h] \in RunRec
  BY DEF Working, Records
<1>4. ASSUME NEW w \in Workers, worker'[w].at # "idle"
      PROVE  /\ worker[w].at # "idle" /\ worker'[w].run = worker[w].run /\ worker[w].run \in Runs
             /\ Known(run'[worker[w].run], control'[worker[w].run], worker'[w])
  <2>1. Idle.at = "idle"
    BY DEF Idle
  <2>2. worker[w].at # "idle" /\ worker'[w].run = worker[w].run
    BY <1>4, <2>1 DEF Keeps, WorkerMoves
  <2>3. /\ worker[w].run \in Runs
        /\ Known(run[worker[w].run], control[worker[w].run], worker[w])
    BY <2>2 DEF Working, Holders
  <2>4. CASE worker'[w] = worker[w]
    <3>1. ~Released(worker[w].run)
      <4>1. ASSUME NEW v \in Workers, Holds(v, worker[w].run), worker'[v] = Idle
            PROVE  FALSE
        <5>1. Holds(w, worker[w].run)
          BY <2>2 DEF Holds
        <5>2. v = w
          BY <2>3, <4>1, <5>1 DEF Working, OnePlace
        <5>3. QED
          BY <1>4, <2>1, <4>1, <5>2
      <4>2. ~InQueue(worker[w].run)
        BY <2>2 DEF Working, OnePlace, InQueue, Holds
      <4>3. QED
        BY <4>1, <4>2 DEF Released
    <3>2. ~run[worker[w].run].done
      BY <2>3 DEF Known
    <3>3. ~run'[worker[w].run].done
      BY <2>3, <3>1, <3>2 DEF Keeps
    <3>4. QED
      BY <1>3, <2>2, <2>3, <2>4, <3>3, MovedKnown DEF Keeps, RowsMove
  <2>5. CASE worker'[w] # worker[w]
    BY <1>4, <2>1, <2>2, <2>3, <2>5 DEF Keeps, WorkerMoves
  <2>6. QED
    BY <2>4, <2>5
<1>5. Holders'
  BY <1>4 DEF Holders
<1>6. \A w \in Workers : \A h : worker'[w].at # "idle" /\ worker'[w].run = h => Holds(w, h)
  BY <1>4 DEF Holds
<1>7. ASSUME queue' = queue
      PROVE  Entries' /\ OnePlace'
  <2>1. Entries'
    <3>1. ASSUME NEW i \in 1..Len(queue)
          PROVE  Waiting(run'[queue[i]])
      <4>1. queue[i] \in Runs /\ Waiting(run[queue[i]])
        BY DEF Working, Records, Entries
      <4>2. ~Released(queue[i])
        BY <1>7 DEF Released, Working, OnePlace, Holds
      <4>3. ~run'[queue[i]].done
        BY <4>1, <4>2 DEF Keeps, Waiting
      <4>4. QED
        BY <1>3, <4>1, <4>3, MovedWaiting DEF Keeps, RowsMove
    <3>2. QED
      BY <1>7, <3>1 DEF Entries
  <2>2. OnePlace'
    BY <1>6, <1>7 DEF Working, OnePlace, Holds
  <2>3. QED
    BY <2>1, <2>2
<1>8. ASSUME queue' = <<>>
      PROVE  Entries' /\ OnePlace'
  <2>1. 1..Len(queue') = {}
    BY <1>8
  <2>2. OnePlace'
    BY <1>6, <2>1 DEF Working, OnePlace, Holds
  <2>3. QED
    BY <2>1, <2>2 DEF Entries
<1>9. Admission'
  BY DEF Working, Admission, Keeps, RowsMove, Moved
<1>10. QED
  BY <1>1, <1>2, <1>5, <1>7, <1>8, <1>9 DEF Working, Keeps

\* The row of one run changes, and it stays where it is.
LEMMA OneRow ==
  ASSUME Working, NEW h \in Runs, NEW n, NEW d, Moved(run[h], control[h], n, d),
         n.done <=> run[h].done,
         run' = [run EXCEPT ![h] = n], control' = [control EXCEPT ![h] = d]
  PROVE  /\ RowsMove /\ run'[h] = n /\ control'[h] = d
         /\ \A x \in Runs : run'[x].done <=> run[x].done
<1>1. \A x \in Runs : /\ run[x] \in RunRec /\ control[x] \in ControlRec
                      /\ Moved(run[x], control[x], run[x], control[x])
  BY SameMoved DEF Working, Records, Stories
<1>2. n \in RunRec /\ d \in ControlRec
  BY DEF Moved
<1>3. QED
  BY <1>1, <1>2 DEF Working, Records, RowsMove

LEMMA NoRow ==
  ASSUME Working, UNCHANGED <<run, control>>
  PROVE  RowsMove /\ \A x \in Runs : run'[x].done <=> run[x].done
  BY SameMoved DEF Working, Records, Stories, RowsMove

LEMMA EvictRows ==
  ASSUME Working, NEW r \in [Runs -> RunRec], NEW cs, NEW h,
         \A x \in Runs : Moved(run[x], control[x], r[x], cs[x])
  PROVE  /\ Evict(r, h) \in [Runs -> RunRec]
         /\ \A x \in Runs : /\ Moved(run[x], control[x], Evict(r, h)[x], cs[x])
                            /\ Evict(r, h)[x].done <=> r[x].done
<1>1. ASSUME NEW x \in Runs
      PROVE  /\ Moved(run[x], control[x], Evict(r, h)[x], cs[x])
             /\ Evict(r, h)[x].done <=> r[x].done
             /\ Evict(r, h)[x] \in RunRec
  <2>1. \/ Evict(r, h)[x] = r[x]
        \/ Over(r, x) /\ Evict(r, h)[x] = [r[x] EXCEPT !.state = "evicted"]
    BY DEF Evict
  <2>2. CASE Evict(r, h)[x] = r[x]
    BY <2>2
  <2>3. CASE Over(r, x) /\ Evict(r, h)[x] = [r[x] EXCEPT !.state = "evicted"]
    <3>1. [r[x] EXCEPT !.state = "evicted"].done = r[x].done
      BY DEF RunRec
    <3>2. Moved(run[x], control[x], Evict(r, h)[x], cs[x])
      BY <2>3, EvictedMoved DEF Over, Working, Records
    <3>3. QED
      BY <2>3, <3>1, <3>2 DEF Moved
  <2>4. QED
    BY <2>1, <2>2, <2>3
<1>2. QED
  BY <1>1 DEF Evict

\* A run ends, if it had not, and is let go; the oldest may be forgotten.
LEMMA DoneRow ==
  ASSUME Working, NEW h \in Runs, NEW n, NEW d, Moved(run[h], control[h], DoneRun(n), d),
         run' = Done(h, n), control' = [control EXCEPT ![h] = d]
  PROVE  RowsMove /\ Retires /\ \A x \in Runs \ {h} : run'[x].done <=> run[x].done
<1>. DEFINE r == [run EXCEPT ![h] = DoneRun(n)]
<1>1. \A x \in Runs : /\ run[x] \in RunRec /\ control[x] \in ControlRec
                      /\ Moved(run[x], control[x], run[x], control[x])
  BY SameMoved DEF Working, Records, Stories
<1>2. DoneRun(n) \in RunRec /\ d \in ControlRec
  BY DEF Moved
<1>3. control' \in [Runs -> ControlRec] /\ control'[h] = d
      /\ \A x \in Runs \ {h} : control'[x] = control[x]
  BY <1>2 DEF Working, Records
<1>4. r \in [Runs -> RunRec] /\ r[h] = DoneRun(n) /\ \A x \in Runs \ {h} : r[x] = run[x]
  BY <1>2 DEF Working, Records
<1>5. run' = Evict(r, h)
  BY DEF Done, DoneRun
<1>. HIDE DEF r
<1>6. \A x \in Runs : Moved(run[x], control[x], r[x], control'[x])
  BY <1>1, <1>2, <1>3, <1>4
<1>7. /\ Evict(r, h) \in [Runs -> RunRec]
      /\ \A x \in Runs : /\ Moved(run[x], control[x], Evict(r, h)[x], control'[x])
                         /\ Evict(r, h)[x].done <=> r[x].done
  BY <1>4, <1>6, EvictRows
<1>8. Retires
  BY <1>4, <1>5, <1>6 DEF Retires, Moved
<1>9. QED
  BY <1>3, <1>4, <1>5, <1>7, <1>8 DEF RowsMove

\* Who moves in a step of that kind: nobody, one worker on, one worker home.
LEMMA KeepsStill ==
  ASSUME Working, RowsMove, \A x \in Runs : run'[x].done <=> run[x].done,
         UNCHANGED <<worker, queue, accepted>>
  PROVE  Keeps
  BY DEF Keeps, Retires, WorkerMoves, Working, Records

LEMMA KeepsGoing ==
  ASSUME Working, RowsMove, \A x \in Runs : run'[x].done <=> run[x].done,
         NEW w \in Workers, NEW p \in WorkerRec, worker[w].at # "idle", p.at # "idle",
         p.run = worker[w].run, worker' = [worker EXCEPT ![w] = p],
         Known(run'[worker[w].run], control'[worker[w].run], p),
         UNCHANGED <<queue, accepted>>
  PROVE  Keeps
<1>1. /\ worker' \in [Workers -> WorkerRec] /\ worker'[w] = p
      /\ \A v \in Workers \ {w} : worker'[v] = worker[v]
  BY DEF Working, Records
<1>2. \A v \in Workers : WorkerMoves(v)
  BY <1>1 DEF WorkerMoves
<1>3. QED
  BY <1>1, <1>2 DEF Keeps, Retires

LEMMA KeepsLeaving ==
  ASSUME Working, RowsMove, Retires, NEW w \in Workers, worker[w].at # "idle", Leave(w),
         \A x \in Runs \ {worker[w].run} : run'[x].done <=> run[x].done,
         UNCHANGED <<queue, accepted>>
  PROVE  Keeps
<1>1. Idle \in WorkerRec
  BY DEF Idle, WorkerRec, Places, Results
<1>2. /\ worker' \in [Workers -> WorkerRec] /\ worker'[w] = Idle
      /\ \A v \in Workers \ {w} : worker'[v] = worker[v]
  BY <1>1 DEF Working, Records, Leave
<1>3. \A v \in Workers : WorkerMoves(v)
  BY <1>2 DEF WorkerMoves
<1>4. Released(worker[w].run)
  BY <1>2 DEF Released, Holds
<1>5. QED
  BY <1>2, <1>3, <1>4 DEF Keeps

\* What a busy worker may take for granted.
LEMMA Busy ==
  ASSUME Working, NEW w \in Workers, worker[w].at # "idle"
  PROVE  /\ worker[w] \in WorkerRec /\ worker[w].run \in Runs
         /\ run[worker[w].run] \in RunRec /\ control[worker[w].run] \in ControlRec
         /\ Story(run[worker[w].run], control[worker[w].run])
         /\ Known(run[worker[w].run], control[worker[w].run], worker[w])
         /\ Moved(run[worker[w].run], control[worker[w].run],
                  run[worker[w].run], control[worker[w].run])
  BY SameMoved DEF Working, Records, Stories, Holders

LEMMA SameControl ==
  ASSUME Working, NEW h \in Runs, UNCHANGED control
  PROVE  control' = [control EXCEPT ![h] = control[h]]
  BY DEF Working, Records

LEMMA SameRun ==
  ASSUME Working, NEW h \in Runs, UNCHANGED run
  PROVE  run' = [run EXCEPT ![h] = run[h]]
  BY DEF Working, Records

\* A worker that goes to another place with its run and without a result.
LEMMA Going ==
  ASSUME NEW p \in WorkerRec, NEW place \in Places
  PROVE  LET q == [p EXCEPT !.at = place]
         IN  q \in WorkerRec /\ q.at = place /\ q.run = p.run /\ q.result = p.result
  BY DEF WorkerRec

LEMMA EnterKeeps ==
  ASSUME Working, NEW w \in Workers, Enter(w)
  PROVE  Keeps
<1>. DEFINE h == worker[w].run
<1>1. /\ worker[w].at = "dequeued" /\ worker[w].at # "idle"
      /\ UNCHANGED <<queue, accepted>>
  BY DEF Enter
<1>2. /\ worker[w] \in WorkerRec /\ h \in Runs /\ run[h] \in RunRec /\ control[h] \in ControlRec
      /\ Story(run[h], control[h]) /\ Known(run[h], control[h], worker[w])
      /\ Moved(run[h], control[h], run[h], control[h])
  BY <1>1, Busy
<1>3. ~run[h].started /\ ~run[h].done /\ run[h].state # "absent"
  BY <1>1, <1>2 DEF Known, Ongoing, Behind
<1>4. CASE ~Enters(h) /\ run' = Done(h, run[h]) /\ Leave(w) /\ UNCHANGED control
  <2>1. Moved(run[h], control[h], DoneRun(run[h]), control[h])
    BY <1>2, <1>4, DoneMoved DEF Enters
  <2>2. RowsMove /\ Retires /\ \A x \in Runs \ {h} : run'[x].done <=> run[x].done
    BY <1>2, <1>4, <2>1, DoneRow, SameControl
  <2>3. QED
    BY <1>1, <1>4, <2>2, KeepsLeaving
<1>5. CASE /\ Enters(h) /\ run[h].late
           /\ run' = Done(h, FinishBeforeStart(run[h])) /\ Leave(w) /\ UNCHANGED control
  <2>1. Moved(run[h], control[h], DoneRun(FinishBeforeStart(run[h])), control[h])
    <3>1. "failed" \in FinalStates /\ (control[h].state = "COMPLETED" => run[h].started)
      BY <1>2 DEF FinalStates, Outcomes, Story
    <3>2. QED
      BY <1>2, <1>3, <1>5, <3>1, EndedDone DEF Enters, FinishBeforeStart
  <2>2. RowsMove /\ Retires /\ \A x \in Runs \ {h} : run'[x].done <=> run[x].done
    BY <1>2, <1>5, <2>1, DoneRow, SameControl
  <2>3. QED
    BY <1>1, <1>5, <2>2, KeepsLeaving
<1>6. CASE Enters(h) /\ Goto(w, "entered")
  <2>. DEFINE p == [worker[w] EXCEPT !.at = "entered"]
  <2>1. p \in WorkerRec /\ p.at = "entered" /\ p.at # "idle" /\ p.run = worker[w].run
    BY <1>2, Going DEF Places
  <2>2. worker' = [worker EXCEPT ![w] = p]
    BY <1>6 DEF Goto
  <2>. HIDE DEF p
  <2>3. CASE run' = [run EXCEPT ![h].state = "running"] /\ UNCHANGED control
    <3>. DEFINE n == [run[h] EXCEPT !.state = "running"]
    <3>1. /\ n \in RunRec /\ n.state = "running" /\ n.published = run[h].published
          /\ (n.terminal <=> run[h].terminal) /\ (n.done <=> run[h].done)
          /\ (n.started <=> run[h].started)
      BY <1>2 DEF RunRec, RunStates
    <3>2. run' = [run EXCEPT ![h] = n]
      BY <2>3
    <3>. HIDE DEF n
    <3>3. Moved(run[h], control[h], n, control[h])
      <4>1. Story(n, control[h])
        BY <1>2, <1>3, <3>1 DEF Story
      <4>2. QED
        BY <1>2, <1>3, <1>6, <3>1, <4>1 DEF Moved, Enters
    <3>4. /\ RowsMove /\ run'[h] = n /\ control'[h] = control[h]
          /\ \A x \in Runs : run'[x].done <=> run[x].done
      <4>1. control' = [control EXCEPT ![h] = control[h]]
        BY <1>2, <2>3, SameControl
      <4>2. n.done <=> run[h].done
        BY <3>1
      <4>3. QED
        BY <1>2, <3>2, <3>3, <4>1, <4>2, OneRow
    <3>5. Known(run'[h], control'[h], p)
      BY <1>3, <1>6, <2>1, <3>1, <3>4 DEF Known, Ongoing, Behind, Enters
    <3>6. QED
      BY <1>1, <1>2, <2>1, <2>2, <3>4, <3>5, KeepsGoing
  <2>4. CASE /\ run' = [run EXCEPT ![h] = FinishUnknown([run[h] EXCEPT !.late = TRUE])]
             /\ control' = [control EXCEPT ![h] = Revoked(@, "TIMED_OUT")]
    <3>. DEFINE m == [run[h] EXCEPT !.late = TRUE]
                n == FinishUnknown(m)
                d == Revoked(control[h], "TIMED_OUT")
    <3>1. /\ d \in ControlRec /\ d.state # "ACTIVE" /\ (d.heartbeat => control[h].heartbeat)
          /\ d.state \in {control[h].state, "TIMED_OUT"}
      BY <1>2, RevokedControl DEF ControlStates
    <3>2. run' = [run EXCEPT ![h] = n] /\ control' = [control EXCEPT ![h] = d]
      BY <2>4
    <3>3. /\ m \in RunRec /\ m.state = run[h].state /\ ~m.terminal /\ ~m.done /\ ~m.started
          /\ Story(m, control[h])
          /\ \A a, b : Moved(m, control[h], a, b) => Moved(run[h], control[h], a, b)
      BY <1>2, <1>3, <1>6, MarkMoved DEF Enters
    <3>. HIDE DEF m, d
    <3>4. "result_unknown" \in FinalStates /\ "result_unknown" \in RunStates
      BY DEF FinalStates, RunStates
    <3>5. /\ n \in RunRec /\ n.state = "result_unknown" /\ n.terminal /\ ~n.done /\ ~n.started
      BY <3>3, <3>4, EndedRun DEF FinishUnknown
    <3>6. d.state = "COMPLETED" => run[h].started
      BY <1>2, <3>1 DEF Story
    <3>7. Moved(m, control[h], n, d)
      BY <1>2, <1>3, <3>1, <3>3, <3>4, <3>6, EndedMoved DEF FinishUnknown
    <3>. HIDE DEF n
    <3>8. /\ RowsMove /\ run'[h] = n /\ control'[h] = d
          /\ \A x \in Runs : run'[x].done <=> run[x].done
      BY <1>2, <1>3, <3>2, <3>3, <3>5, <3>7, OneRow
    <3>9. Known(run'[h], control'[h], p)
      BY <2>1, <3>1, <3>5, <3>8 DEF Known, Ongoing, Behind
    <3>10. QED
      BY <1>1, <1>2, <2>1, <2>2, <3>8, <3>9, KeepsGoing
  <2>5. QED
    BY <1>4, <1>5, <1>6, <2>3, <2>4 DEF Enter
<1>7. QED
  BY <1>4, <1>5, <1>6 DEF Enter

\* A run that becomes unknown while its control is revoked, and stays or is let go.
LEMMA UnknownMoved ==
  ASSUME NEW m \in RunRec, NEW c \in ControlRec, Story(m, c), ~m.terminal, m.state # "absent",
         NEW how \in {"TIMED_OUT", "CANCELLED"}
  PROVE  /\ Moved(m, c, FinishUnknown(m), Revoked(c, how))
         /\ Moved(m, c, DoneRun(FinishUnknown(m)), Revoked(c, how))
         /\ FinishUnknown(m).done <=> m.done
<1>. DEFINE d == Revoked(c, how)
<1>1. /\ d \in ControlRec /\ d.state # "ACTIVE" /\ (d.heartbeat => c.heartbeat)
      /\ d.state \in {c.state, how}
  BY RevokedControl DEF ControlStates
<1>2. d.state = "COMPLETED" => m.started
  BY <1>1 DEF Story
<1>. HIDE DEF d
<1>3. "result_unknown" \in FinalStates /\ "result_unknown" \in RunStates
  BY DEF FinalStates, RunStates
<1>4. Moved(m, c, FinishUnknown(m), d)
  BY <1>1, <1>2, <1>3, EndedMoved DEF FinishUnknown
<1>5. Moved(m, c, DoneRun(FinishUnknown(m)), d)
  BY <1>1, <1>2, <1>3, EndedDone DEF FinishUnknown
<1>6. FinishUnknown(m).done <=> m.done
  BY <1>3, EndedRun DEF FinishUnknown
<1>7. QED
  BY <1>4, <1>5, <1>6 DEF d

\* A control that loses its permission, its heartbeat or nothing.
LEMMA ControlMoved ==
  ASSUME NEW m \in RunRec, NEW c \in ControlRec, Story(m, c), NEW d \in ControlRec,
         d.heartbeat => c.heartbeat, c.state # "ACTIVE" => d.state # "ACTIVE",
         d.state = "COMPLETED" => m.started
  PROVE  Moved(m, c, m, d)
  BY DEF Story, Moved

LEMMA StartKeeps ==
  ASSUME Working, NEW w \in Workers, Start(w), run[worker[w].run].late
  PROVE  Keeps
<1>. DEFINE h == worker[w].run
            n == IF run[h].terminal THEN run[h] ELSE FinishUnknown(run[h])
            d == IF run[h].terminal THEN control[h] ELSE Revoked(control[h], "TIMED_OUT")
<1>1. /\ worker[w].at # "idle" /\ Leave(w) /\ UNCHANGED <<queue, accepted>>
      /\ run' = Done(h, n)
      /\ control' = IF run[h].terminal THEN control
                    ELSE [control EXCEPT ![h] = Revoked(@, "TIMED_OUT")]
  BY DEF Start
<1>2. /\ h \in Runs /\ run[h] \in RunRec /\ control[h] \in ControlRec
      /\ Story(run[h], control[h]) /\ Known(run[h], control[h], worker[w])
      /\ Moved(run[h], control[h], run[h], control[h])
  BY <1>1, Busy
<1>3. control' = [control EXCEPT ![h] = d]
  BY <1>1, <1>2, SameControl
<1>4. Moved(run[h], control[h], DoneRun(n), d)
  <2>1. CASE run[h].terminal
    BY <1>2, <2>1, DoneMoved
  <2>2. CASE ~run[h].terminal
    BY <1>2, <2>2, UnknownMoved DEF Known
  <2>3. QED
    BY <2>1, <2>2
<1>. HIDE DEF n, d
<1>5. RowsMove /\ Retires /\ \A x \in Runs \ {h} : run'[x].done <=> run[x].done
  BY <1>1, <1>2, <1>3, <1>4, DoneRow
<1>6. QED
  BY <1>1, <1>5, KeepsLeaving

LEMMA MarkCompletedKeeps ==
  ASSUME Working, NEW w \in Workers, MarkCompleted(w)
  PROVE  Keeps
<1>. DEFINE h == worker[w].run
            d == Revoked(control[h], "COMPLETED")
<1>1. /\ worker[w].at = "operating" /\ UNCHANGED <<run, worker, queue, accepted>>
      /\ control' = [control EXCEPT ![h] = d]
  BY DEF MarkCompleted
<1>2. /\ h \in Runs /\ run[h] \in RunRec /\ control[h] \in ControlRec
      /\ Story(run[h], control[h]) /\ Known(run[h], control[h], worker[w])
  BY <1>1, Busy
<1>3. run[h].started
  BY <1>1, <1>2 DEF Known, Ongoing
<1>4. d \in ControlRec /\ (d.heartbeat => control[h].heartbeat) /\ d.state # "ACTIVE"
  BY <1>2, RevokedControl DEF ControlStates
<1>. HIDE DEF d
<1>5. Moved(run[h], control[h], run[h], d)
  BY <1>2, <1>3, <1>4, ControlMoved
<1>6. RowsMove /\ \A x \in Runs : run'[x].done <=> run[x].done
  BY <1>1, <1>2, <1>5, OneRow, SameRun
<1>7. QED
  BY <1>1, <1>6, KeepsStill

LEMMA EmitLateKeeps ==
  ASSUME Working, NEW w \in Workers, EmitLate(w)
  PROVE  Keeps
<1>. DEFINE h == worker[w].run
            n == FinishUnknown(run[h])
            d == Revoked(control[h], "TIMED_OUT")
<1>1. /\ worker[w].at = "operating" /\ UNCHANGED <<worker, queue, accepted>>
      /\ run' = [run EXCEPT ![h] = n] /\ control' = [control EXCEPT ![h] = d]
      /\ ~run[h].terminal
  BY DEF EmitLate, Live
<1>2. /\ h \in Runs /\ run[h] \in RunRec /\ control[h] \in ControlRec
      /\ Story(run[h], control[h]) /\ Known(run[h], control[h], worker[w])
  BY <1>1, Busy
<1>3. Moved(run[h], control[h], n, d) /\ (n.done <=> run[h].done)
  BY <1>1, <1>2, UnknownMoved DEF Known
<1>. HIDE DEF n, d
<1>4. RowsMove /\ \A x \in Runs : run'[x].done <=> run[x].done
  BY <1>1, <1>2, <1>3, OneRow
<1>5. QED
  BY <1>1, <1>4, KeepsStill

LEMMA OperationEndsKeeps ==
  ASSUME Working, NEW w \in Workers, NEW result \in Outcomes \cup Exceptions,
         OperationEnds(w, result)
  PROVE  Keeps
<1>. DEFINE h == worker[w].run
            c == Revoked(control[h], "COMPLETED")
            p == [worker[w] EXCEPT !.at = "ended", !.result = result]
<1>1. /\ worker[w].at = "operating" /\ UNCHANGED <<run, queue, accepted>>
      /\ worker' = [worker EXCEPT ![w] = p]
      /\ \/ control' = [control EXCEPT ![h] = Silent(c)]
         \/ control' = [control EXCEPT ![h] = Silent(control[h])]
  BY DEF OperationEnds
<1>2. /\ h \in Runs /\ run[h] \in RunRec /\ control[h] \in ControlRec
      /\ Story(run[h], control[h]) /\ Known(run[h], control[h], worker[w])
      /\ worker[w] \in WorkerRec
  BY <1>1, Busy
<1>3. run[h].started /\ ~run[h].done /\ run[h].state # "absent"
  BY <1>1, <1>2 DEF Known, Ongoing
<1>4. c \in ControlRec /\ c.state # "ACTIVE"
  BY <1>2, RevokedControl DEF ControlStates
<1>. HIDE DEF c
<1>5. PICK d \in ControlRec : /\ control' = [control EXCEPT ![h] = d] /\ ~d.heartbeat
                              /\ control[h].state # "ACTIVE" => d.state # "ACTIVE"
  <2>1. /\ Silent(c) \in ControlRec /\ ~Silent(c).heartbeat /\ Silent(c).state # "ACTIVE"
    BY <1>4, RevokedControl DEF ControlStates
  <2>2. /\ Silent(control[h]) \in ControlRec /\ ~Silent(control[h]).heartbeat
        /\ Silent(control[h]).state = control[h].state
    BY <1>2, RevokedControl DEF ControlStates
  <2>3. QED
    BY <1>1, <2>1, <2>2
<1>6. Moved(run[h], control[h], run[h], d)
  BY <1>2, <1>3, <1>5, ControlMoved
<1>7. /\ RowsMove /\ run'[h] = run[h] /\ control'[h] = d
      /\ \A x \in Runs : run'[x].done <=> run[x].done
  BY <1>1, <1>2, <1>5, <1>6, OneRow, SameRun
<1>8. /\ p \in WorkerRec /\ p.at = "ended" /\ p.at # "idle" /\ p.run = worker[w].run
      /\ p.result # "none"
  <2>1. result \in Results /\ result # "none"
    BY DEF Results, Outcomes, Exceptions
  <2>2. QED
    BY <1>2, <2>1 DEF WorkerRec, Places
<1>. HIDE DEF p
<1>9. Known(run'[h], control'[h], p)
  BY <1>3, <1>5, <1>7, <1>8 DEF Known, Ongoing, Behind
<1>10. QED
  BY <1>1, <1>2, <1>7, <1>8, <1>9, KeepsGoing

LEMMA TitleKeeps ==
  ASSUME Working, NEW w \in Workers, BeginTitle(w) \/ EndTitle(w)
  PROVE  Keeps
<1>1. /\ worker[w].at \in Behind /\ worker[w].at # "idle" /\ UNCHANGED <<run, control, queue, accepted>>
  BY DEF BeginTitle, EndTitle, Behind
<1>2. PICK p \in WorkerRec : /\ worker' = [worker EXCEPT ![w] = p]
                             /\ p.run = worker[w].run /\ p.at \in Behind /\ p.result # "none"
  <2>1. worker[w] \in WorkerRec /\ worker[w].result # "none"
    BY <1>1, Busy DEF Known
  <2>2. CASE BeginTitle(w)
    <3>. DEFINE p == [worker[w] EXCEPT !.at = "titling"]
    <3>1. p \in WorkerRec /\ p.at = "titling" /\ p.run = worker[w].run /\ p.result = worker[w].result
      BY <2>1, Going DEF Places
    <3>2. worker' = [worker EXCEPT ![w] = p]
      BY <2>2 DEF BeginTitle, Goto
    <3>3. QED
      BY <2>1, <3>1, <3>2 DEF Behind
  <2>3. CASE EndTitle(w) /\ Goto(w, "titled")
    <3>. DEFINE p == [worker[w] EXCEPT !.at = "titled"]
    <3>1. p \in WorkerRec /\ p.at = "titled" /\ p.run = worker[w].run /\ p.result = worker[w].result
      BY <2>1, Going DEF Places
    <3>2. worker' = [worker EXCEPT ![w] = p]
      BY <2>3 DEF Goto
    <3>3. QED
      BY <2>1, <3>1, <3>2 DEF Behind
  <2>4. CASE worker' = [worker EXCEPT ![w].at = "titled", ![w].result = "error"]
    <3>. DEFINE p == [worker[w] EXCEPT !.at = "titled", !.result = "error"]
    <3>1. p \in WorkerRec /\ p.at = "titled" /\ p.run = worker[w].run /\ p.result = "error"
      BY <2>1 DEF WorkerRec, Places, Results, Exceptions
    <3>2. worker' = [worker EXCEPT ![w] = p]
      BY <2>4
    <3>3. QED
      BY <3>1, <3>2 DEF Behind
  <2>5. QED
    BY <2>2, <2>3, <2>4 DEF EndTitle
<1>3. p.at # "idle"
  BY <1>2 DEF Behind
<1>4. RowsMove /\ \A x \in Runs : run'[x].done <=> run[x].done
  BY <1>1, NoRow
<1>5. Known(run[worker[w].run], control[worker[w].run], worker[w])
  BY <1>1, Busy
<1>6. Known(run[worker[w].run], control[worker[w].run], p)
  BY <1>1, <1>2, <1>5 DEF Known, Behind, Ongoing
<1>7. QED
  BY <1>1, <1>2, <1>3, <1>4, <1>6, KeepsGoing

\* The word of the worker, if the run has not ended yet.
LEMMA ResultRun ==
  ASSUME NEW m \in RunRec, NEW result \in Outcomes \cup Exceptions
  PROVE  \/ m.terminal /\ Result(m, result) = m
         \/ ~m.terminal /\ \E s \in FinalStates : Result(m, result) = Ended(m, s)
<1>1. CASE m.terminal
  BY <1>1 DEF Result
<1>2. CASE ~m.terminal /\ result \in Outcomes
  <2>1. Result(m, result) = IF m.stop THEN FinishException(m) ELSE FinishFromOutcome(m, result)
    BY <1>2 DEF Result, Outcomes
  <2>2. result \in FinalStates /\ "failed" \in FinalStates
    BY <1>2 DEF FinalStates, Outcomes
  <2>3. QED
    BY <1>2, <2>1, <2>2 DEF FinishException, FinishFromOutcome
<1>3. CASE ~m.terminal /\ result \in {"timed_out", "budget", "aborted"}
  <2>1. Result(m, result) = FinishUnknown(m)
    BY <1>3 DEF Result, Outcomes
  <2>2. QED
    BY <1>3, <2>1 DEF FinalStates, FinishUnknown
<1>4. CASE ~m.terminal /\ result \in {"cancelled", "error"}
  <2>1. Result(m, result) = FinishException(m)
    BY <1>4 DEF Result, Outcomes
  <2>2. QED
    BY <1>4, <2>1 DEF FinalStates, Outcomes, FinishException
<1>5. QED
  BY <1>1, <1>2, <1>3, <1>4 DEF Exceptions

LEMMA PublishKeeps ==
  ASSUME Working, NEW w \in Workers, Publish(w)
  PROVE  Keeps
<1>. DEFINE h == worker[w].run
            n == Result(run[h], worker[w].result)
            d == IF worker[w].result = "timed_out" /\ ~run[h].terminal
                 THEN Revoked(control[h], "TIMED_OUT") ELSE control[h]
<1>1. /\ worker[w].at \in Behind /\ worker[w].at # "idle" /\ Leave(w) /\ UNCHANGED <<queue, accepted>>
      /\ run' = Done(h, n)
      /\ control' = IF worker[w].result = "timed_out" /\ ~run[h].terminal
                    THEN [control EXCEPT ![h] = Revoked(@, "TIMED_OUT")] ELSE control
  BY DEF Publish, Behind
<1>2. /\ h \in Runs /\ run[h] \in RunRec /\ control[h] \in ControlRec
      /\ Story(run[h], control[h]) /\ Known(run[h], control[h], worker[w])
      /\ worker[w] \in WorkerRec /\ Moved(run[h], control[h], run[h], control[h])
  BY <1>1, Busy
<1>3. /\ run[h].started /\ ~run[h].done /\ run[h].state # "absent" /\ ~control[h].heartbeat
      /\ worker[w].result \in Outcomes \cup Exceptions
  BY <1>1, <1>2 DEF Known, Ongoing, WorkerRec, Results
<1>4. control' = [control EXCEPT ![h] = d]
  BY <1>1, <1>2, SameControl
<1>5. /\ d \in ControlRec /\ (d.heartbeat => control[h].heartbeat)
      /\ control[h].state # "ACTIVE" => d.state # "ACTIVE"
      /\ run[h].terminal => d = control[h]
  BY <1>2, RevokedControl DEF ControlStates
<1>6. Moved(run[h], control[h], DoneRun(n), d)
  <2>1. CASE run[h].terminal /\ n = run[h]
    BY <1>2, <1>5, <2>1, DoneMoved
  <2>2. ASSUME ~run[h].terminal, NEW s \in FinalStates, n = Ended(run[h], s)
        PROVE  Moved(run[h], control[h], DoneRun(n), d)
    <3>. HIDE DEF d, n
    <3>1. Moved(run[h], control[h], DoneRun(Ended(run[h], s)), d)
      BY <1>2, <1>3, <1>5, <2>2, EndedDone
    <3>2. QED
      BY <2>2, <3>1
  <2>3. QED
    BY <1>2, <1>3, <2>1, <2>2, ResultRun
<1>. HIDE DEF n, d
<1>7. RowsMove /\ Retires /\ \A x \in Runs \ {h} : run'[x].done <=> run[x].done
  BY <1>1, <1>2, <1>4, <1>6, DoneRow
<1>8. QED
  BY <1>1, <1>7, KeepsLeaving

LEMMA HostKeeps ==
  ASSUME Working, NEW h \in Runs, Reserve(h) \/ Withdraw(h) \/ PoolStartFails \/ UNCHANGED vars
  PROVE  Keeps
<1>1. UNCHANGED <<run, control, worker, queue, accepted>>
  BY DEF Reserve, Withdraw, PoolStartFails, vars
<1>2. QED
  BY <1>1, NoRow, KeepsStill

LEMMA ExpireKeeps ==
  ASSUME Working, NEW h \in Runs, Expire(h)
  PROVE  Keeps
<1>. DEFINE n == [run[h] EXCEPT !.late = TRUE]
<1>1. run[h] \in RunRec /\ control[h] \in ControlRec /\ Story(run[h], control[h])
  BY DEF Working, Records, Stories
<1>2. /\ n \in RunRec /\ (n.done <=> run[h].done) /\ Story(n, control[h])
      /\ Moved(n, control[h], n, control[h]) => Moved(run[h], control[h], n, control[h])
  BY <1>1, MarkMoved
<1>3. run' = [run EXCEPT ![h] = n] /\ UNCHANGED <<control, worker, queue, accepted>>
  BY DEF Expire
<1>. HIDE DEF n
<1>4. Moved(run[h], control[h], n, control[h])
  BY <1>1, <1>2, SameMoved
<1>5. control' = [control EXCEPT ![h] = control[h]]
  BY <1>3, SameControl
<1>6. RowsMove /\ \A x \in Runs : run'[x].done <=> run[x].done
  BY <1>2, <1>3, <1>4, <1>5, OneRow
<1>7. QED
  BY <1>3, <1>6, KeepsStill

\* A queued run ends whatever its control says.
LEMMA FailedMoved ==
  ASSUME NEW m \in RunRec, NEW c \in ControlRec, Story(m, c), m.state = "queued"
  PROVE  Moved(m, c, FinishException(m), c) /\ (FinishException(m).done <=> m.done)
<1>1. "failed" \in FinalStates /\ "failed" \in RunStates
  BY DEF FinalStates, RunStates, Outcomes
<1>2. ~m.terminal /\ (c.state = "COMPLETED" => m.started)
  BY DEF Story
<1>3. Moved(m, c, FinishException(m), c)
  BY <1>1, <1>2, EndedMoved DEF FinishException
<1>4. QED
  BY <1>1, <1>3, EndedRun DEF FinishException

LEMMA StoppedMoved ==
  ASSUME NEW m \in RunRec, NEW c \in ControlRec, Story(m, c), m.state \notin {"absent", "evicted"}
  PROVE  LET d == IF ~m.terminal /\ m.state # "queued" THEN Revoked(c, "CANCELLED") ELSE c
         IN  Moved(m, c, Stopped(m), d) /\ (Stopped(m).done <=> m.done)
<1>. DEFINE d == IF ~m.terminal /\ m.state # "queued" THEN Revoked(c, "CANCELLED") ELSE c
<1>1. CASE m.terminal
  BY <1>1, SameMoved DEF Stopped
<1>2. CASE ~m.terminal /\ m.state = "queued"
  <2>. DEFINE k == [m EXCEPT !.stop = TRUE]
  <2>1. /\ k \in RunRec /\ k.state = "queued" /\ Story(k, c) /\ (k.done <=> m.done)
        /\ Moved(k, c, FinishException(k), c) => Moved(m, c, FinishException(k), c)
    BY <1>2, MarkMoved
  <2>2. Stopped(m) = FinishException(k) /\ d = c
    BY <1>2 DEF Stopped
  <2>. HIDE DEF k
  <2>3. Moved(m, c, FinishException(k), c) /\ (FinishException(k).done <=> m.done)
    BY <2>1, FailedMoved
  <2>4. QED
    BY <2>2, <2>3
<1>3. CASE ~m.terminal /\ m.state # "queued"
  <2>. DEFINE n == [m EXCEPT !.stop = TRUE, !.state = "stopped"]
  <2>1. /\ n \in RunRec /\ n.state = "stopped" /\ ~n.terminal /\ n.published = m.published
        /\ (n.done <=> m.done) /\ (n.started <=> m.started)
    BY <1>3 DEF RunRec, RunStates
  <2>2. Stopped(m) = n /\ d = Revoked(c, "CANCELLED")
    BY <1>3 DEF Stopped
  <2>. HIDE DEF n
  <2>3. /\ d \in ControlRec /\ (d.heartbeat => c.heartbeat) /\ d.state # "ACTIVE"
        /\ d.state \in {c.state, "CANCELLED"}
    BY <2>2, RevokedControl DEF ControlStates
  <2>. HIDE DEF d
  <2>4. Story(n, d)
    BY <1>3, <2>1, <2>3 DEF Story
  <2>5. Moved(m, c, n, d)
    BY <1>3, <2>1, <2>3, <2>4 DEF Moved
  <2>6. QED
    BY <2>1, <2>2, <2>5 DEF d
<1>4. QED
  BY <1>1, <1>2, <1>3

LEMMA InterruptKeeps ==
  ASSUME Working, NEW h \in Runs, Interrupt(h)
  PROVE  Keeps
<1>. DEFINE n == Stopped(run[h])
            d == IF ~run[h].terminal /\ run[h].state # "queued"
                 THEN Revoked(control[h], "CANCELLED") ELSE control[h]
<1>1. run[h] \in RunRec /\ control[h] \in ControlRec /\ Story(run[h], control[h])
  BY DEF Working, Records, Stories
<1>2. run[h].state \notin {"absent", "evicted"} /\ UNCHANGED <<worker, queue, accepted>>
  BY DEF Interrupt, Retained
<1>3. Moved(run[h], control[h], n, d) /\ (n.done <=> run[h].done)
  BY <1>1, <1>2, StoppedMoved
<1>4. run' = [run EXCEPT ![h] = n]
  BY DEF Interrupt
<1>5. control' = [control EXCEPT ![h] = d]
  BY <1>2, SameControl DEF Interrupt, Live, Retained
<1>. HIDE DEF n, d
<1>6. RowsMove /\ \A x \in Runs : run'[x].done <=> run[x].done
  BY <1>3, <1>4, <1>5, OneRow
<1>7. QED
  BY <1>2, <1>6, KeepsStill

LEMMA CancelInterruptedKeeps ==
  ASSUME Working, NEW h \in Runs, CancelInterrupted(h)
  PROVE  Keeps
<1>. DEFINE d == Revoked(control[h], "CANCELLED")
<1>1. run[h] \in RunRec /\ control[h] \in ControlRec /\ Story(run[h], control[h])
  BY DEF Working, Records, Stories
<1>2. /\ d \in ControlRec /\ (d.heartbeat => control[h].heartbeat) /\ d.state # "ACTIVE"
      /\ d.state \in {control[h].state, "CANCELLED"}
  BY <1>1, RevokedControl DEF ControlStates
<1>3. control' = [control EXCEPT ![h] = d] /\ UNCHANGED <<run, worker, queue, accepted>>
  BY DEF CancelInterrupted
<1>. HIDE DEF d
<1>4. Moved(run[h], control[h], run[h], d)
  BY <1>1, <1>2, ControlMoved DEF Story
<1>5. RowsMove /\ \A x \in Runs : run'[x].done <=> run[x].done
  BY <1>3, <1>4, OneRow, SameRun
<1>6. QED
  BY <1>3, <1>5, KeepsStill

LEMMA RegistryCloseKeeps ==
  ASSUME Working, RegistryClose
  PROVE  Keeps
<1>1. ASSUME NEW x \in Runs
      PROVE  control'[x] \in ControlRec /\ Moved(run[x], control[x], run'[x], control'[x])
  <2>. DEFINE d == Revoked(control[x], "CANCELLED")
  <2>1. run[x] \in RunRec /\ control[x] \in ControlRec /\ Story(run[x], control[x])
    BY DEF Working, Records, Stories
  <2>2. d \in ControlRec /\ d.state # "ACTIVE" /\ d.state \in {control[x].state, "CANCELLED"}
    BY <2>1, RevokedControl DEF ControlStates
  <2>3. control'[x] = Silent(d) /\ run'[x] = run[x]
    BY DEF RegistryClose
  <2>. HIDE DEF d
  <2>4. Silent(d) \in ControlRec /\ ~Silent(d).heartbeat /\ Silent(d).state = d.state
    BY <2>2, RevokedControl DEF ControlStates
  <2>5. Moved(run[x], control[x], run[x], Silent(d))
    BY <2>1, <2>2, <2>4, ControlMoved DEF Story
  <2>6. QED
    BY <2>3, <2>4, <2>5
<1>2. UNCHANGED <<run, worker, queue, accepted>> /\ control' \in [Runs -> ControlRec]
  BY <1>1 DEF RegistryClose
<1>3. RowsMove /\ \A x \in Runs : run'[x].done <=> run[x].done
  BY <1>1, <1>2 DEF RowsMove, Working, Records
<1>4. QED
  BY <1>2, <1>3, KeepsStill

LEMMA WatchdogKeeps ==
  ASSUME Working, Watchdog
  PROVE  Keeps
<1>1. ASSUME NEW x \in Runs
      PROVE  /\ Moved(run[x], control[x], run'[x], control'[x])
             /\ run'[x].done <=> run[x].done
  <2>1. /\ run[x] \in RunRec /\ control[x] \in ControlRec /\ Story(run[x], control[x])
        /\ Moved(run[x], control[x], run[x], control[x])
    BY SameMoved DEF Working, Records, Stories
  <2>2. /\ run'[x] = IF x \in DueQueued THEN FinishBeforeStart(run[x])
                     ELSE IF x \in DueRunning THEN FinishUnknown(run[x]) ELSE run[x]
        /\ control'[x] = IF x \in DueRunning THEN Revoked(control[x], "TIMED_OUT")
                         ELSE control[x]
    BY DEF Watchdog
  <2>3. CASE x \in DueQueued
    <3>1. run[x].state = "queued" /\ x \notin DueRunning
      BY <2>3 DEF DueQueued, DueRunning
    <3>2. FinishBeforeStart(run[x]) = FinishException(run[x])
      BY DEF FinishBeforeStart, FinishException
    <3>3. QED
      BY <2>1, <2>2, <2>3, <3>1, <3>2, FailedMoved
  <2>4. CASE x \in DueRunning
    <3>1. x \notin DueQueued /\ ~run[x].terminal /\ run[x].state # "absent"
      BY <2>4 DEF DueQueued, DueRunning, Live, Retained
    <3>2. QED
      BY <2>1, <2>2, <2>4, <3>1, UnknownMoved
  <2>5. CASE x \notin DueQueued \cup DueRunning
    BY <2>1, <2>2, <2>5
  <2>6. QED
    BY <2>3, <2>4, <2>5
<1>2. \A x \in Runs : run'[x] \in RunRec /\ control'[x] \in ControlRec
  BY <1>1 DEF Moved
<1>3. /\ UNCHANGED <<worker, queue, accepted>>
      /\ run' \in [Runs -> RunRec] /\ control' \in [Runs -> ControlRec]
  BY <1>2 DEF Watchdog
<1>4. RowsMove /\ \A x \in Runs : run'[x].done <=> run[x].done
  BY <1>1, <1>3 DEF RowsMove
<1>5. QED
  BY <1>3, <1>4, KeepsStill

LEMMA CloseKeeps ==
  ASSUME Working, Close
  PROVE  Keeps
<1>1. ASSUME NEW x \in Runs
      PROVE  /\ Closed[x] \in RunRec
             /\ Moved(run[x], control[x], Closed[x], control'[x])
             /\ Closed[x].done <=> run[x].done
             /\ run[x].state \notin {"absent", "evicted"} => Closed[x].terminal
  <2>1. /\ run[x] \in RunRec /\ control[x] \in ControlRec /\ Story(run[x], control[x])
        /\ Moved(run[x], control[x], run[x], control[x])
    BY SameMoved DEF Working, Records, Stories
  <2>2. Closed[x] = (IF Live(x) THEN CloseRun(run[x]) ELSE run[x]) /\ control'[x] = ClosedControl(x)
    BY DEF Closed, Close
  <2>3. CASE Live(x) /\ run[x].state = "queued"
    <3>1. Closed[x] = FinishException(run[x]) /\ control'[x] = control[x]
      BY <2>2, <2>3 DEF CloseRun, ClosedControl
    <3>2. FinishException(run[x]).terminal
      BY <2>1, EndedRun DEF FinishException, RunStates, Outcomes
    <3>3. QED
      BY <2>1, <2>3, <3>1, <3>2, FailedMoved DEF Moved
  <2>4. CASE Live(x) /\ run[x].state # "queued"
    <3>. DEFINE k == [run[x] EXCEPT !.stop = TRUE]
                d == Revoked(control[x], "CANCELLED")
    <3>1. Closed[x] = FinishUnknown(k) /\ control'[x] = d
      BY <2>2, <2>4 DEF CloseRun, ClosedControl
    <3>2. /\ k \in RunRec /\ k.state = run[x].state /\ ~k.terminal /\ (k.done <=> run[x].done)
          /\ Story(k, control[x])
          /\ \A a, b : Moved(k, control[x], a, b) => Moved(run[x], control[x], a, b)
      BY <2>1, <2>4, MarkMoved DEF Live
    <3>. HIDE DEF k
    <3>3. Moved(k, control[x], FinishUnknown(k), d) /\ (FinishUnknown(k).done <=> k.done)
      BY <2>1, <2>4, <3>2, UnknownMoved DEF Live, Retained
    <3>4. FinishUnknown(k).terminal
      BY <3>2, EndedRun DEF FinishUnknown, RunStates
    <3>. HIDE DEF d
    <3>5. QED
      BY <3>1, <3>2, <3>3, <3>4 DEF Moved
  <2>5. CASE ~Live(x)
    <3>1. Closed[x] = run[x] /\ control'[x] = control[x]
      BY <2>2, <2>5 DEF ClosedControl
    <3>2. QED
      BY <2>1, <2>5, <3>1 DEF Live, Retained
  <2>6. QED
    BY <2>3, <2>4, <2>5
<1>2. UNCHANGED <<worker, accepted>> /\ queue' = <<>> /\ control' \in [Runs -> ControlRec]
  <2>1. \A x \in Runs : control'[x] \in ControlRec
    BY <1>1 DEF Moved
  <2>2. QED
    BY <2>1 DEF Close
<1>3. CASE queue = <<>>
  <2>1. run' = Closed
    BY <1>3 DEF Close
  <2>2. RowsMove /\ \A x \in Runs : run'[x].done <=> run[x].done
    BY <1>1, <1>2, <2>1 DEF RowsMove, Closed
  <2>3. QED
    BY <1>2, <1>3, <2>2, KeepsStill
<1>4. CASE queue # <<>>
  <2>1. run' = Evict(Discarded, None)
    BY <1>4 DEF Close
  <2>2. ASSUME NEW x \in Runs
        PROVE  /\ Discarded[x] \in RunRec
               /\ Moved(run[x], control[x], Discarded[x], control'[x])
               /\ Discarded[x].done => run[x].done \/ InQueue(x)
    <3>1. CASE InQueue(x)
      <4>1. Waiting(run[x]) /\ Story(run[x], control[x])
        BY <3>1 DEF InQueue, Working, Entries, Stories
      <4>2. Closed[x].terminal
        BY <1>1, <4>1 DEF Waiting, Story
      <4>3. Discarded[x] = DoneRun(Closed[x])
        BY <3>1 DEF Discarded, DoneRun
      <4>4. run[x] \in RunRec
        BY DEF Working, Records
      <4>5. Moved(run[x], control[x], DoneRun(Closed[x]), control'[x])
        BY <1>1, <4>2, <4>4, DoneMoved
      <4>6. QED
        BY <3>1, <4>3, <4>5 DEF Moved
    <3>2. CASE ~InQueue(x)
      <4>1. Discarded[x] = Closed[x]
        BY <3>2 DEF Discarded
      <4>2. QED
        BY <1>1, <4>1
    <3>3. QED
      BY <3>1, <3>2
  <2>3. Discarded \in [Runs -> RunRec]
    BY <2>2 DEF Discarded
  <2>4. /\ Evict(Discarded, None) \in [Runs -> RunRec]
        /\ \A x \in Runs : /\ Moved(run[x], control[x], Evict(Discarded, None)[x], control'[x])
                           /\ Evict(Discarded, None)[x].done <=> Discarded[x].done
    BY <2>2, <2>3, EvictRows
  <2>5. Retires
    BY <2>1, <2>2, <2>3 DEF Retires, Moved
  <2>6. RowsMove
    BY <1>2, <2>1, <2>4 DEF RowsMove
  <2>7. \A x \in Runs : run'[x].done => run[x].done \/ Released(x)
    BY <1>2, <2>1, <2>2, <2>4 DEF Released
  <2>8. QED
    BY <1>2, <2>5, <2>6, <2>7 DEF Keeps, WorkerMoves, Working, Records
<1>5. QED
  BY <1>3, <1>4

-----------------------------------------------------------------------------
(* The three other steps: a run is accepted, taken by a worker, or begun. *)

LEMMA Accepted ==
  ASSUME Working, NEW h \in Runs, Submit(h)
  PROVE  /\ run'[h] \in RunRec /\ control'[h] \in ControlRec
         /\ Story(run'[h], control'[h]) /\ Waiting(run'[h])
         /\ \A x \in Runs \ {h} : run'[x] = run[x] /\ control'[x] = control[x]
         /\ run' \in [Runs -> RunRec] /\ control' \in [Runs -> ControlRec]
<1>. DEFINE m == [run[h] EXCEPT !.state = "queued"]
            k == [m EXCEPT !.late = TRUE]
<1>1. run[h] \in RunRec /\ run[h].state = "absent" /\ Story(run[h], control[h])
  BY DEF Working, Records, Stories, Submit
<1>2. ~run[h].started /\ ~run[h].terminal /\ ~run[h].done /\ run[h].published = 0
  BY <1>1 DEF Story
<1>3. /\ m \in RunRec /\ m.state = "queued" /\ ~m.started /\ ~m.terminal /\ ~m.done
      /\ m.published = 0
  BY <1>1, <1>2 DEF RunRec, RunStates
<1>4. /\ \/ /\ run' = [run EXCEPT ![h] = m]
            /\ control' = [control EXCEPT ![h] = [state |-> "ACTIVE", heartbeat |-> TRUE]]
         \/ /\ run' = [run EXCEPT ![h] = FinishUnknown(k)]
            /\ control' = [control EXCEPT ![h] = [state |-> "TIMED_OUT", heartbeat |-> FALSE]]
  BY DEF Submit, WithStatus
<1>5. run \in [Runs -> RunRec] /\ control \in [Runs -> ControlRec]
  BY DEF Working, Records
<1>. HIDE DEF m
<1>6. CASE /\ run' = [run EXCEPT ![h] = m]
           /\ control' = [control EXCEPT ![h] = [state |-> "ACTIVE", heartbeat |-> TRUE]]
  <2>. DEFINE c == [state |-> "ACTIVE", heartbeat |-> TRUE]
  <2>1. c \in ControlRec /\ c.state = "ACTIVE"
    BY DEF ControlRec, ControlStates
  <2>. HIDE DEF c
  <2>2. Story(m, c) /\ Waiting(m)
    BY <1>3, <2>1 DEF Story, Waiting
  <2>3. run' = [run EXCEPT ![h] = m] /\ control' = [control EXCEPT ![h] = c]
    BY <1>6 DEF c
  <2>4. QED
    BY <1>3, <1>5, <2>1, <2>2, <2>3
<1>7. CASE /\ run' = [run EXCEPT ![h] = FinishUnknown(k)]
           /\ control' = [control EXCEPT ![h] = [state |-> "TIMED_OUT", heartbeat |-> FALSE]]
  <2>. DEFINE n == FinishUnknown(k)
              c == [state |-> "TIMED_OUT", heartbeat |-> FALSE]
  <2>1. c \in ControlRec /\ c.state = "TIMED_OUT"
    BY DEF ControlRec, ControlStates
  <2>2. k \in RunRec /\ ~k.started /\ ~k.done /\ k.published = 0
    BY <1>3 DEF RunRec
  <2>. HIDE DEF c, k
  <2>3. n.published = 0 + 1
    BY <2>2, EndedRun DEF FinishUnknown, RunStates
  <2>4. n \in RunRec /\ n.state = "result_unknown" /\ n.terminal /\ ~n.started /\ ~n.done
    BY <2>2, EndedRun DEF FinishUnknown, RunStates
  <2>5. run' = [run EXCEPT ![h] = n] /\ control' = [control EXCEPT ![h] = c]
    BY <1>7 DEF c
  <2>. HIDE DEF n
  <2>6. Story(n, c) /\ Waiting(n)
    BY <2>1, <2>3, <2>4 DEF Story, Waiting
  <2>7. QED
    BY <1>5, <2>1, <2>4, <2>5, <2>6
<1>8. QED
  BY <1>4, <1>6, <1>7

LEMMA SubmitWorking ==
  ASSUME Working, NEW h \in Runs, Submit(h)
  PROVE  Working'
<1>1. /\ queue \in Seq(Runs) /\ accepted \in Seq(Runs) /\ run[h].state = "absent"
      /\ queue' = Append(queue, h) /\ accepted' = Append(accepted, h) /\ worker' = worker
      /\ worker \in [Workers -> WorkerRec]
  BY DEF Working, Records, Submit
<1>2. /\ Len(queue') = Len(queue) + 1 /\ queue'[Len(queue) + 1] = h /\ Len(queue) \in Nat
      /\ \A i \in 1..Len(queue) : queue'[i] = queue[i] /\ queue[i] \in Runs
      /\ queue' \in Seq(Runs)
  BY <1>1
<1>3. /\ Len(accepted') = Len(accepted) + 1 /\ accepted'[Len(accepted) + 1] = h
      /\ Len(accepted) \in Nat
      /\ \A i \in 1..Len(accepted) : accepted'[i] = accepted[i] /\ accepted[i] \in Runs
      /\ accepted' \in Seq(Runs)
  BY <1>1
<1>4. \A i \in 1..Len(queue) : queue[i] # h
  BY <1>1 DEF Working, Entries, Waiting
<1>5. \A w \in Workers : ~Holds(w, h)
  BY <1>1 DEF Working, Holders, Holds, Known
<1>6. \A i \in 1..Len(accepted) : accepted[i] # h
  BY <1>1 DEF Working, Admission
<1>7. \A i \in 1..Len(queue') : i \in 1..Len(queue) \/ i = Len(queue) + 1
  BY <1>2
<1>8. \A i \in 1..Len(accepted') : i \in 1..Len(accepted) \/ i = Len(accepted) + 1
  BY <1>3
<1>9. Records'
  BY <1>1, <1>2, <1>3, Accepted DEF Records
<1>10. Stories'
  BY Accepted DEF Working, Stories
<1>11. Entries'
  <2>1. ASSUME NEW i \in 1..Len(queue')
        PROVE  Waiting(run'[queue'[i]])
    <3>1. CASE i \in 1..Len(queue)
      BY <1>2, <1>4, <3>1, Accepted DEF Working, Entries
    <3>2. CASE i = Len(queue) + 1
      BY <1>2, <3>2, Accepted
    <3>3. QED
      BY <1>7, <3>1, <3>2
  <2>2. QED
    BY <2>1 DEF Entries
<1>12. Holders'
  <2>1. ASSUME NEW w \in Workers, worker[w].at # "idle"
        PROVE  /\ worker[w].run \in Runs
               /\ Known(run'[worker[w].run], control'[worker[w].run], worker[w])
    <3>1. worker[w].run # h
      BY <1>5, <2>1 DEF Holds
    <3>2. QED
      BY <2>1, <3>1, Accepted DEF Working, Holders
  <2>2. QED
    BY <1>1, <2>1 DEF Holders
<1>13. OnePlace'
  <2>1. ASSUME NEW i \in 1..Len(queue'), NEW j \in 1..Len(queue'), queue'[i] = queue'[j]
        PROVE  i = j
    BY <1>2, <1>4, <1>7, <2>1 DEF Working, OnePlace
  <2>2. ASSUME NEW i \in 1..Len(queue'), NEW w \in Workers
        PROVE  ~Holds(w, queue'[i])
    BY <1>2, <1>5, <1>7 DEF Working, OnePlace
  <2>3. \A v, w \in Workers : \A x \in Runs : Holds(v, x) /\ Holds(w, x) => v = w
    BY DEF Working, OnePlace
  <2>4. QED
    BY <1>1, <2>1, <2>2, <2>3 DEF OnePlace, Holds
<1>14. Admission'
  <2>1. ASSUME NEW i \in 1..Len(accepted'), NEW j \in 1..Len(accepted'), accepted'[i] = accepted'[j]
        PROVE  i = j
    BY <1>3, <1>6, <1>8, <2>1 DEF Working, Admission
  <2>2. ASSUME NEW x \in Runs
        PROVE  run'[x].state # "absent" <=> \E i \in 1..Len(accepted') : accepted'[i] = x
    <3>1. CASE x = h
      <4>1. Len(accepted) + 1 \in 1..Len(accepted')
        BY <1>3
      <4>2. QED
        BY <1>3, <3>1, <4>1, Accepted DEF Waiting
    <3>2. CASE x # h
      <4>1. run[x].state # "absent" <=> \E i \in 1..Len(accepted) : accepted[i] = x
        BY DEF Working, Admission
      <4>2. 1..Len(accepted) \subseteq 1..Len(accepted')
        BY <1>3
      <4>3. run'[x] = run[x]
        BY <3>2, Accepted
      <4>4. QED
        BY <1>3, <1>8, <3>2, <4>1, <4>2, <4>3
    <3>3. QED
      BY <3>1, <3>2
  <2>3. QED
    BY <2>1, <2>2 DEF Admission
<1>15. QED
  BY <1>9, <1>10, <1>11, <1>12, <1>13, <1>14 DEF Working

LEMMA DequeueWorking ==
  ASSUME Working, NEW w \in Workers, Dequeue(w)
  PROVE  Working'
<1>. DEFINE h == queue[1]
            p == [Idle EXCEPT !.at = "dequeued", !.run = h]
<1>1. /\ worker[w].at = "idle" /\ queue \in Seq(Runs) /\ queue # <<>> /\ Len(queue) \in Nat
      /\ queue' = Tail(queue) /\ UNCHANGED <<run, control, accepted>>
      /\ worker' = [worker EXCEPT ![w] = p]
  BY DEF Working, Records, Dequeue
<1>2. /\ Len(queue) >= 1 /\ h \in Runs /\ 1 \in 1..Len(queue)
      /\ queue' \in Seq(Runs) /\ Len(queue') = Len(queue) - 1
      /\ \A i \in 1..Len(queue') : queue'[i] = queue[i + 1] /\ i + 1 \in 1..Len(queue) /\ i + 1 # 1
  BY <1>1
<1>3. p \in WorkerRec /\ p.at = "dequeued" /\ p.run = h /\ p.result = "none"
  BY <1>2 DEF Idle, WorkerRec, Places, Results
<1>4. Waiting(run[h]) /\ \A v \in Workers : ~Holds(v, h)
  BY <1>2 DEF Working, Entries, OnePlace
<1>. HIDE DEF p
<1>5. /\ worker' \in [Workers -> WorkerRec] /\ worker'[w] = p
      /\ \A v \in Workers \ {w} : worker'[v] = worker[v]
  BY <1>1, <1>3 DEF Working, Records
<1>6. Records' /\ Stories' /\ Admission'
  BY <1>1, <1>2, <1>5 DEF Working, Records, Stories, Admission
<1>7. Entries'
  BY <1>1, <1>2 DEF Working, Entries
<1>8. Holders'
  <2>1. Known(run[h], control[h], p)
    BY <1>3, <1>4 DEF Known, Waiting, Ongoing, Behind
  <2>2. QED
    BY <1>1, <1>2, <1>3, <1>5, <2>1 DEF Working, Holders
<1>9. OnePlace'
  <2>. DEFINE HoldsNext(v, x) == worker'[v].at # "idle" /\ worker'[v].run = x
  <2>1. \A v \in Workers : \A x : HoldsNext(v, x) => IF v = w THEN x = h ELSE Holds(v, x)
    BY <1>3, <1>5 DEF Holds
  <2>2. ASSUME NEW i \in 1..Len(queue'), NEW j \in 1..Len(queue'), queue'[i] = queue'[j]
        PROVE  i = j
    <3>1. i + 1 = j + 1
      BY <1>2, <2>2 DEF Working, OnePlace
    <3>2. QED
      BY <3>1
  <2>3. ASSUME NEW i \in 1..Len(queue'), NEW v \in Workers
        PROVE  ~HoldsNext(v, queue'[i])
    <3>1. queue[i + 1] # h
      BY <1>2 DEF Working, OnePlace
    <3>2. ~Holds(v, queue[i + 1])
      BY <1>2 DEF Working, OnePlace
    <3>3. QED
      BY <1>2, <2>1, <3>1, <3>2
  <2>4. ASSUME NEW u \in Workers, NEW v \in Workers, NEW x \in Runs,
               HoldsNext(u, x), HoldsNext(v, x)
        PROVE  u = v
    BY <1>4, <2>1, <2>4 DEF Working, OnePlace
  <2>5. QED
    BY <2>2, <2>3, <2>4 DEF OnePlace, Holds
<1>10. QED
  BY <1>6, <1>7, <1>8, <1>9 DEF Working

\* The operation begins.
LEMMA Begun ==
  ASSUME Working, NEW w \in Workers, Start(w), ~run[worker[w].run].late
  PROVE  LET h == worker[w].run
             n == [run[h] EXCEPT !.started = TRUE]
         IN  /\ h \in Runs /\ n \in RunRec /\ run' = [run EXCEPT ![h] = n]
             /\ n.started /\ (n.terminal <=> run[h].terminal) /\ (n.done <=> run[h].done)
             /\ n.state = run[h].state /\ n.published = run[h].published
             /\ worker[w].at = "entered"
             /\ UNCHANGED <<control, queue, accepted>> /\ Goto(w, "operating")
             /\ run[h] \in RunRec /\ Story(run[h], control[h])
             /\ Known(run[h], control[h], worker[w])
<1>. DEFINE h == worker[w].run
<1>1. worker[w].at = "entered" /\ worker[w].at # "idle"
  BY DEF Start
<1>2. /\ h \in Runs /\ run[h] \in RunRec /\ Story(run[h], control[h])
      /\ Known(run[h], control[h], worker[w])
  BY <1>1, Busy
<1>3. LET n == [run[h] EXCEPT !.started = TRUE]
      IN  /\ n \in RunRec /\ n.started /\ (n.terminal <=> run[h].terminal)
          /\ (n.done <=> run[h].done) /\ n.state = run[h].state /\ n.published = run[h].published
  BY <1>2 DEF RunRec
<1>4. /\ run' = [run EXCEPT ![h].started = TRUE] /\ Goto(w, "operating")
      /\ UNCHANGED <<control, queue, accepted>>
  BY DEF Start
<1>5. QED
  BY <1>1, <1>2, <1>3, <1>4

LEMMA StartWorking ==
  ASSUME Working, NEW w \in Workers, Start(w), ~run[worker[w].run].late
  PROVE  Working'
<1>. DEFINE h == worker[w].run
            n == [run[h] EXCEPT !.started = TRUE]
            p == [worker[w] EXCEPT !.at = "operating"]
<1>1. /\ h \in Runs /\ n \in RunRec /\ run' = [run EXCEPT ![h] = n]
      /\ n.started /\ (n.terminal <=> run[h].terminal) /\ (n.done <=> run[h].done)
      /\ n.state = run[h].state /\ n.published = run[h].published
      /\ worker[w].at = "entered" /\ UNCHANGED <<control, queue, accepted>>
      /\ worker' = [worker EXCEPT ![w] = p]
      /\ run[h] \in RunRec /\ Story(run[h], control[h]) /\ Known(run[h], control[h], worker[w])
  BY Begun DEF Goto
<1>2. p \in WorkerRec /\ p.at = "operating" /\ p.run = worker[w].run
  BY Going DEF Working, Records, Places
<1>. HIDE DEF n, p
<1>3. /\ worker' \in [Workers -> WorkerRec] /\ worker'[w] = p
      /\ \A v \in Workers \ {w} : worker'[v] = worker[v]
  BY <1>1, <1>2 DEF Working, Records
<1>4. run' \in [Runs -> RunRec] /\ run'[h] = n /\ \A x \in Runs \ {h} : run'[x] = run[x]
  BY <1>1 DEF Working, Records
<1>5. Holds(w, h) /\ worker[w].at # "idle"
  BY <1>1 DEF Holds
<1>6. Records'
  BY <1>1, <1>3, <1>4 DEF Working, Records
<1>7. Stories'
  <2>1. run[h].state # "queued" /\ (run[h].terminal => control[h].state # "ACTIVE")
    BY <1>1 DEF Known
  <2>2. run[h].state # "absent"
    BY <1>1 DEF Known
  <2>3. Story(n, control[h])
    BY <1>1, <2>1, <2>2 DEF Story
  <2>4. QED
    BY <1>1, <1>4, <2>3 DEF Working, Stories
<1>8. Entries'
  <2>1. \A i \in 1..Len(queue) : queue[i] # h /\ queue[i] \in Runs
    BY <1>5 DEF Working, OnePlace, Records
  <2>2. QED
    BY <1>1, <1>4, <2>1 DEF Working, Entries
<1>9. Holders'
  <2>1. Known(n, control[h], p)
    BY <1>1, <1>2 DEF Known, Ongoing, Behind
  <2>2. ASSUME NEW v \in Workers \ {w}, worker[v].at # "idle"
        PROVE  /\ worker[v].run \in Runs /\ worker[v].run # h
               /\ Known(run[worker[v].run], control[worker[v].run], worker[v])
    BY <1>1, <1>5, <2>2 DEF Working, Holders, OnePlace, Holds
  <2>3. QED
    BY <1>1, <1>2, <1>3, <1>4, <2>1, <2>2 DEF Holders
<1>10. OnePlace'
  <2>1. p.at # "idle"
    BY <1>2
  <2>2. \A v \in Workers : /\ worker'[v].at # "idle" <=> worker[v].at # "idle"
                           /\ worker'[v].run = worker[v].run
    BY <1>2, <1>3, <1>5, <2>1
  <2>3. QED
    BY <1>1, <2>2 DEF Working, OnePlace, Holds
<1>11. Admission'
  BY <1>1, <1>4 DEF Working, Admission
<1>12. QED
  BY <1>6, <1>7, <1>8, <1>9, <1>10, <1>11 DEF Working

LEMMA NextWorking ==
  ASSUME Working, [Next]_vars
  PROVE  \/ Keeps /\ Working'
         \/ /\ Working'
            /\ \/ \E h \in Runs : Submit(h)
               \/ \E w \in Workers : Dequeue(w)
               \/ \E w \in Workers : Start(w) /\ ~run[worker[w].run].late
<1>1. ASSUME NEW w \in Workers, WorkerStep(w)
      PROVE  Keeps \/ Dequeue(w) \/ (Start(w) /\ ~run[worker[w].run].late)
  BY <1>1, EnterKeeps, StartKeeps, MarkCompletedKeeps, EmitLateKeeps, OperationEndsKeeps,
     TitleKeeps, PublishKeeps DEF WorkerStep
<1>2. ASSUME NEW h \in Runs, HostStep(h) \/ Expire(h)
      PROVE  Keeps \/ Submit(h)
  BY <1>2, HostKeeps, ExpireKeeps, InterruptKeeps, CancelInterruptedKeeps DEF HostStep
<1>3. PoolStartFails \/ UNCHANGED vars => Keeps
  <2>1. PoolStartFails \/ UNCHANGED vars => UNCHANGED <<run, control, worker, queue, accepted>>
    BY DEF PoolStartFails, vars
  <2>2. QED
    BY <2>1, NoRow, KeepsStill
<1>4. Watchdog \/ Close \/ RegistryClose => Keeps
  BY WatchdogKeeps, CloseKeeps, RegistryCloseKeeps
<1>5. QED
  BY <1>1, <1>2, <1>3, <1>4, KeepsWorking, SubmitWorking, DequeueWorking, StartWorking DEF Next

-----------------------------------------------------------------------------
(* What the steps may never do. *)

StaysFinal == \A h \in Runs : run[h].terminal => run'[h].state \in {run[h].state, "evicted"}
BeginsInTime == \A h \in Runs : ~run[h].started /\ run'[h].started =>
                  ~run[h].terminal \/ control[h].state # "ACTIVE"

LEMMA StepFacts ==
  ASSUME Working, [Next]_vars
  PROVE  StaysFinal /\ BeginsInTime
<1>1. CASE Keeps
  BY <1>1 DEF Keeps, RowsMove, Moved, StaysFinal, BeginsInTime
<1>2. ASSUME NEW h \in Runs, Submit(h)
      PROVE  StaysFinal /\ BeginsInTime
  <2>1. ~run[h].terminal
    BY <1>2 DEF Submit, Working, Stories, Story
  <2>2. QED
    BY <1>2, <2>1, Accepted DEF StaysFinal, BeginsInTime
<1>3. ASSUME NEW w \in Workers, Dequeue(w)
      PROVE  StaysFinal /\ BeginsInTime
  BY <1>3 DEF Dequeue, StaysFinal, BeginsInTime
<1>4. ASSUME NEW w \in Workers, Start(w), ~run[worker[w].run].late
      PROVE  StaysFinal /\ BeginsInTime
  <2>. DEFINE h == worker[w].run
              n == [run[h] EXCEPT !.started = TRUE]
  <2>1. /\ h \in Runs /\ run' = [run EXCEPT ![h] = n] /\ n.state = run[h].state
        /\ worker[w].at = "entered" /\ Known(run[h], control[h], worker[w])
    BY <1>4, Begun
  <2>. HIDE DEF n
  <2>2. run'[h] = n /\ \A x \in Runs \ {h} : run'[x] = run[x]
    BY <2>1 DEF Working, Records
  <2>3. run[h].terminal => control[h].state # "ACTIVE"
    BY <2>1 DEF Known
  <2>4. StaysFinal
    BY <2>1, <2>2 DEF StaysFinal
  <2>5. BeginsInTime
    BY <2>2, <2>3 DEF BeginsInTime
  <2>6. QED
    BY <2>4, <2>5
<1>5. QED
  BY <1>1, <1>2, <1>3, <1>4, NextWorking

\* A completed control belongs to a run that was begun, so it is not queued, and the
\* watchdog leaves it alone.
LEMMA WatchdogHonours ==
  ASSUME Working, Watchdog, NEW h \in Runs, control[h].state = "COMPLETED"
  PROVE  run'[h].terminal = run[h].terminal
<1>1. run[h].started /\ run[h].state # "queued"
  BY DEF Working, Stories, Story
<1>2. h \notin DueQueued /\ h \notin DueRunning
  BY <1>1 DEF DueQueued, DueRunning
<1>3. QED
  BY <1>2 DEF Watchdog

-----------------------------------------------------------------------------
(* How many finished runs are kept. *)

\* Every nonempty set of natural numbers has a least element.
LEMMA Least ==
  ASSUME NEW T \in SUBSET Nat, T # {}
  PROVE  \E x \in T : \A y \in T : x <= y
<1>. DEFINE R == {ss \in Nat \X Nat : ss[1] < ss[2]}
<1>1. IsWellFoundedOn(R, Nat)
  BY NatLessThanWellFounded DEF OpToRel
<1>2. \A x, y \in Nat : <<y, x>> \in R <=> y < x
  OBVIOUS
<1>. HIDE DEF R
<1>3. PICK x \in T : \A y \in T : ~ (<<y, x>> \in R)
  BY <1>1, WFMin
<1>4. \A y \in T : x \in Nat /\ y \in Nat /\ ~(y < x)
  BY <1>2, <1>3
<1>5. \A y \in T : x <= y
  BY <1>4
<1>6. QED
  BY <1>5

\* The runs the manager has accepted are finitely many.
LEMMA AcceptedFinite ==
  ASSUME Working
  PROVE  IsFiniteSet({h \in Runs : run[h].state # "absent"})
<1>. DEFINE D == 1..Len(accepted)
            S == {h \in Runs : run[h].state # "absent"}
<1>1. accepted \in Seq(Runs) /\ Len(accepted) \in Nat
  BY DEF Working, Records
<1>2. IsFiniteSet(D)
  BY <1>1, FS_Interval
<1>3. accepted \in [D -> S]
  BY <1>1 DEF Working, Admission
<1>4. \A h \in S : \E i \in D : accepted[i] = h
  BY DEF Working, Admission
<1>5. accepted \in Surjection(D, S)
  BY <1>3, <1>4 DEF Surjection
<1>. HIDE DEF D, S
<1>6. IsFiniteSet(S)
  BY <1>2, <1>5, FS_Surjection
<1>7. QED
  BY <1>6 DEF S

\* The runs that fewer than MaxRetained others came after are at most MaxRetained:
\* all the others of them came after the oldest.
LEMMA NewestAreFew ==
  ASSUME Working, NEW r,
         \A x \in Runs : Over(r, x) => run[x].state # "absent"
  PROVE  LET K == {x \in Runs : Over(r, x) /\ Cardinality(Newer(r, x)) < MaxRetained}
         IN  IsFiniteSet(K) /\ Cardinality(K) <= MaxRetained
<1>. DEFINE S == {h \in Runs : run[h].state # "absent"}
            K == {x \in Runs : Over(r, x) /\ Cardinality(Newer(r, x)) < MaxRetained}
            T == {i \in 1..Len(accepted) : accepted[i] \in K}
<1>1. IsFiniteSet(S) /\ K \in SUBSET S /\ \A x : Newer(r, x) \in SUBSET S
  BY AcceptedFinite DEF Newer
<1>2. IsFiniteSet(K) /\ Cardinality(K) \in Nat
  BY <1>1, FS_Subset, FS_CardinalityType
<1>3. MaxRetained \in Nat \ {0}
  BY LimitAssumption
<1>4. CASE K = {}
  <2>1. Cardinality(K) = 0
    BY <1>4, FS_EmptySet
  <2>2. QED
    BY <1>2, <1>3, <2>1
<1>5. CASE K # {}
  <2>1. Len(accepted) \in Nat
    BY DEF Working, Records
  <2>2. T \in SUBSET Nat
    BY <2>1
  <2>3. \A x \in K : \E i \in T : accepted[i] = x
    BY DEF Working, Admission
  <2>4. PICK i \in T : \A j \in T : i <= j
    <3>1. T # {}
      BY <1>5, <2>3
    <3>. HIDE DEF T
    <3>2. QED
      BY <2>2, <3>1, Least
  <2>5. K \ {accepted[i]} \subseteq Newer(r, accepted[i])
    <3>1. ASSUME NEW y \in K, y # accepted[i]
          PROVE  y \in Newer(r, accepted[i])
      <4>1. PICK j \in T : accepted[j] = y
        BY <2>3
      <4>2. i <= j /\ i # j /\ i \in Nat /\ j \in Nat
        BY <2>2, <2>4, <3>1, <4>1
      <4>3. i \in 1..Len(accepted) /\ j \in 1..Len(accepted) /\ i < j
        BY <4>2
      <4>4. After(accepted[i], y)
        BY <4>1, <4>3 DEF After
      <4>5. QED
        BY <4>4 DEF Newer
    <3>2. QED
      BY <3>1
  <2>. DEFINE x == accepted[i]
  <2>6. x \in K /\ Cardinality(Newer(r, x)) < MaxRetained
    BY <2>4
  <2>7. IsFiniteSet(Newer(r, x)) /\ Cardinality(Newer(r, x)) \in Nat
    BY <1>1, FS_Subset, FS_CardinalityType
  <2>. HIDE DEF x, K
  <2>8. Cardinality(K \ {x}) = Cardinality(K) - 1
    BY <1>2, <2>6, FS_RemoveElement
  <2>9. Cardinality(K \ {x}) <= Cardinality(Newer(r, x))
    BY <2>5, <2>7, FS_Subset DEF x
  <2>10. Cardinality(K) <= MaxRetained
    BY <1>2, <1>3, <2>6, <2>7, <2>8, <2>9
  <2>11. QED
    BY <1>2, <2>10 DEF K
<1>6. QED
  BY <1>2, <1>4, <1>5

\* Forgetting the oldest leaves the newest, and the run that just ended.
LEMMA EvictBounds ==
  ASSUME Working, NEW r \in [Runs -> RunRec], NEW h,
         \A x \in Runs : r[x].state = "absent" <=> run[x].state = "absent"
  PROVE  Cardinality({x \in Runs : Over(Evict(r, h), x)}) <= MaxRetained + 1
<1>. DEFINE K == {x \in Runs : Over(r, x) /\ Cardinality(Newer(r, x)) < MaxRetained}
            E == {x \in Runs : Over(Evict(r, h), x)}
<1>1. \A x \in Runs : Over(r, x) => run[x].state # "absent"
  BY DEF Over
<1>2. IsFiniteSet(K) /\ Cardinality(K) <= MaxRetained /\ Cardinality(K) \in Nat
  BY <1>1, NewestAreFew, FS_CardinalityType
<1>3. E \in SUBSET (K \cup {h})
  <2>1. ASSUME NEW x \in Runs, Over(Evict(r, h), x), x # h
        PROVE  Over(r, x) /\ Cardinality(Newer(r, x)) < MaxRetained
    <3>1. [r[x] EXCEPT !.state = "evicted"].state = "evicted"
      BY DEF RunRec
    <3>2. Evict(r, h)[x] = r[x] /\ ~(Over(r, x) /\ Cardinality(Newer(r, x)) >= MaxRetained)
      BY <2>1, <3>1 DEF Evict, Over
    <3>3. Over(r, x)
      BY <2>1, <3>2 DEF Over
    <3>4. Cardinality(Newer(r, x)) \in Nat
      <4>1. Newer(r, x) \in SUBSET {y \in Runs : run[y].state # "absent"}
        BY <1>1 DEF Newer
      <4>2. QED
        BY <4>1, AcceptedFinite, FS_Subset, FS_CardinalityType
    <3>5. QED
      BY <3>2, <3>3, <3>4, LimitAssumption
  <2>2. QED
    BY <2>1
<1>. HIDE DEF K, E
<1>4. /\ IsFiniteSet(K \cup {h}) /\ Cardinality(K \cup {h}) <= Cardinality(K) + 1
      /\ Cardinality(K \cup {h}) \in Nat
  <2>1. /\ IsFiniteSet(K \cup {h})
        /\ Cardinality(K \cup {h}) = IF h \in K THEN Cardinality(K) ELSE Cardinality(K) + 1
    BY <1>2, FS_AddElement
  <2>2. QED
    BY <1>2, <2>1
<1>5. Cardinality(E) <= Cardinality(K \cup {h}) /\ Cardinality(E) \in Nat
  BY <1>3, <1>4, FS_Subset, FS_CardinalityType
<1>6. Cardinality(E) <= MaxRetained + 1
  BY <1>2, <1>4, <1>5, LimitAssumption
<1>7. QED
  BY <1>6 DEF E

LEMMA RetentionStep ==
  ASSUME Working, Working', RetentionBounded, [Next]_vars
  PROVE  RetentionBounded'
<1>. DEFINE E == {h \in Runs : Over(run, h)}
            F == {h \in Runs : Over(run', h)}
<1>1. IsFiniteSet(E) /\ Cardinality(E) \in Nat /\ Cardinality(E) <= MaxRetained + 1
  <2>1. E \in SUBSET {h \in Runs : run[h].state # "absent"}
    BY DEF Over
  <2>2. QED
    BY <2>1, AcceptedFinite, FS_Subset, FS_CardinalityType DEF RetentionBounded
<1>2. ASSUME \A h \in Runs : run'[h].done => run[h].done
      PROVE  RetentionBounded'
  <2>1. F \in SUBSET E
    <3>1. ASSUME NEW h \in Runs, Over(run', h)
          PROVE  Over(run, h)
      <4>1. run[h].done /\ run[h].terminal
        BY <1>2, <3>1 DEF Over, Working, Stories, Story
      <4>2. run'[h].state = run[h].state
        BY <3>1, <4>1, StepFacts DEF StaysFinal, Over
      <4>3. QED
        BY <3>1, <4>1, <4>2 DEF Over
    <3>2. QED
      BY <3>1
  <2>. HIDE DEF E
  <2>2. Cardinality(F) <= Cardinality(E) /\ Cardinality(F) \in Nat
    BY <1>1, <2>1, FS_Subset, FS_CardinalityType
  <2>3. Cardinality(F) <= MaxRetained + 1
    <3>. HIDE DEF F
    <3>1. QED
      BY <1>1, <2>2, LimitAssumption
  <2>4. QED
    BY <2>3 DEF RetentionBounded
<1>3. ASSUME NEW r \in [Runs -> RunRec], NEW h \in Runs \cup {None}, run' = Evict(r, h),
             \A x \in Runs : r[x].state = "absent" <=> run[x].state = "absent"
      PROVE  RetentionBounded'
  <2>1. Cardinality({x \in Runs : Over(Evict(r, h), x)}) <= MaxRetained + 1
    BY <1>3, EvictBounds
  <2>2. QED
    BY <1>3, <2>1 DEF RetentionBounded
<1>4. ASSUME NEW h \in Runs, Submit(h)
      PROVE  RetentionBounded'
  <2>1. \A x \in Runs : run'[x].done => run[x].done
    BY <1>4, Accepted DEF Waiting
  <2>2. QED
    BY <1>2, <2>1
<1>5. ASSUME NEW w \in Workers, Dequeue(w)
      PROVE  RetentionBounded'
  BY <1>2, <1>5 DEF Dequeue
<1>6. ASSUME NEW w \in Workers, Start(w), ~run[worker[w].run].late
      PROVE  RetentionBounded'
  <2>1. \A x \in Runs : run'[x].done => run[x].done
    BY <1>6, Begun DEF Working, Records
  <2>2. QED
    BY <1>2, <2>1
<1>7. CASE Keeps
  BY <1>2, <1>3, <1>7 DEF Keeps, Retires
<1>8. QED
  BY <1>4, <1>5, <1>6, <1>7, NextWorking

-----------------------------------------------------------------------------
(* The theorems. *)

LEMMA Initially ==
  ASSUME Init
  PROVE  IInv
<1>1. NewRun \in RunRec /\ NewRun.state = "absent" /\ ~NewRun.terminal /\ ~NewRun.started
      /\ ~NewRun.done /\ NewRun.published = 0
  BY DEF NewRun, RunRec, RunStates
<1>2. LET c == [state |-> "ACTIVE", heartbeat |-> FALSE] IN c \in ControlRec /\ c.state = "ACTIVE"
  BY DEF ControlRec, ControlStates
<1>3. Idle \in WorkerRec /\ Idle.at = "idle"
  BY DEF Idle, WorkerRec, Places, Results
<1>4. /\ Len(queue) = 0 /\ Len(accepted) = 0 /\ queue \in Seq(Runs) /\ accepted \in Seq(Runs)
      /\ \A h \in Runs : run[h] = NewRun
      /\ \A w \in Workers : worker[w] = Idle
  BY DEF Init
<1>5. Records
  BY <1>1, <1>2, <1>3, <1>4 DEF Init, Records
<1>6. Capacity /\ queued \in 0..MaxQueue
  BY <1>4, FS_EmptySet, LimitAssumption DEF Init, Capacity, QueueWithinCapacity
<1>7. TypeOK
  BY <1>5, <1>6, Typed DEF Init
<1>8. Stories
  BY <1>1, <1>2 DEF Init, Stories, Story
<1>9. Entries /\ Holders /\ OnePlace
  BY <1>3, <1>4 DEF Entries, Holders, OnePlace, Holds
<1>10. Admission
  BY <1>1, <1>4 DEF Admission
<1>11. RetentionBounded
  <2>1. {h \in Runs : Over(run, h)} = {}
    BY <1>1, <1>4 DEF Over
  <2>2. QED
    BY <2>1, FS_EmptySet, LimitAssumption DEF RetentionBounded
<1>12. QED
  BY <1>5, <1>6, <1>7, <1>8, <1>9, <1>10, <1>11 DEF IInv, Working

LEMMA Invariance ==
  ASSUME IInv, [Next]_vars
  PROVE  IInv'
<1>1. Working'
  BY NextWorking DEF IInv
<1>2. Capacity' /\ queued' \in 0..MaxQueue /\ reserved' \subseteq Runs
  BY CapacityStep DEF IInv
<1>3. RetentionBounded'
  BY <1>1, RetentionStep DEF IInv
<1>4. cancelDue' \subseteq Runs /\ phase' \in {"open", "closed", "shut"}
  <2>1. cancelDue \subseteq Runs /\ phase \in {"open", "closed", "shut"}
    BY DEF IInv, TypeOK
  <2>2. ASSUME NEW w \in Workers, WorkerStep(w)
        PROVE  UNCHANGED hostVars
    BY <2>2 DEF WorkerStep, Dequeue, Enter, Start, MarkCompleted, EmitLate, OperationEnds,
                BeginTitle, EndTitle, Publish
  <2>3. ASSUME NEW h \in Runs, HostStep(h) \/ Expire(h)
        PROVE  cancelDue' \subseteq Runs /\ phase' = phase
    BY <2>1, <2>3 DEF HostStep, Reserve, Withdraw, Submit, Interrupt, CancelInterrupted, Expire,
                      hostVars
  <2>4. Watchdog \/ UNCHANGED vars => UNCHANGED hostVars
    BY DEF Watchdog, vars, hostVars
  <2>5. PoolStartFails \/ Close \/ RegistryClose =>
          cancelDue' = cancelDue /\ phase' \in {"closed", "shut"}
    BY DEF PoolStartFails, Close, RegistryClose
  <2>6. QED
    BY <2>1, <2>2, <2>3, <2>4, <2>5 DEF Next, hostVars
<1>5. TypeOK'
  BY <1>1, <1>2, <1>4, TypedNext DEF Working
<1>6. QED
  BY <1>1, <1>2, <1>3, <1>5 DEF IInv

\* The inductive invariant holds in every reachable state: among other things, a run
\* is in one place, once in the queue or with one worker.
THEOREM ExecutionInvariant == Spec => []IInv
<1>1. Init => IInv
  BY Initially
<1>2. IInv /\ [Next]_vars => IInv'
  BY Invariance
<1>3. QED
  BY <1>1, <1>2, PTL DEF Spec

\* Type correctness of the manager's state.
THEOREM TypeCorrect == Spec => []TypeOK
<1>1. IInv => TypeOK
  BY DEF IInv
<1>2. QED
  BY <1>1, ExecutionInvariant, PTL

\* The queue and the reservations never exceed max_queue, and the counter counts the
\* entries physically in the queue.
THEOREM QueueBounded == Spec => []QueueWithinCapacity
<1>1. IInv => QueueWithinCapacity
  BY DEF IInv, Capacity
<1>2. QED
  BY <1>1, ExecutionInvariant, PTL

\* Whoever ends a run publishes the one terminal event it has, and a worker that
\* leaves a run leaves it ended.
THEOREM OneTerminalEvent == Spec => []PublishedOnce
<1>1. IInv => PublishedOnce
  BY DEF IInv, Working, Stories, Story, PublishedOnce
<1>2. QED
  BY <1>1, ExecutionInvariant, PTL

\* A run that began and has ended does not renew its conversation's lease.
THEOREM EndedRunsRelease == Spec => []EndedReleases
<1>1. IInv => EndedReleases
  BY DEF IInv, Working, Stories, Story, EndedReleases, Renewing
<1>2. QED
  BY <1>1, ExecutionInvariant, PTL

\* Of the finished runs that nobody reads at most one more than max_retained_runs
\* is kept.
THEOREM FewRunsRetained == Spec => []RetentionBounded
<1>1. IInv => RetentionBounded
  BY DEF IInv
<1>2. QED
  BY <1>1, ExecutionInvariant, PTL

\* A published state is never replaced by a later one.
THEOREM ResultsStay == Spec => ResultIsFinal
<1>1. IInv /\ [Next]_vars => [\A h \in Runs : run[h].terminal => run'[h].state \in {run[h].state, "evicted"}]_vars
  BY StepFacts DEF IInv, StaysFinal
<1>2. QED
  BY <1>1, ExecutionInvariant, PTL DEF Spec, ResultIsFinal

\* An operation never begins for a run that has ended and still has its control.
THEOREM NoOperationTooLate == Spec => NoLateStart
<1>1. IInv /\ [Next]_vars =>
        [\A h \in Runs : ~run[h].started /\ run'[h].started =>
           ~run[h].terminal \/ control[h].state # "ACTIVE"]_vars
  BY StepFacts DEF IInv, BeginsInTime
<1>2. QED
  BY <1>1, ExecutionInvariant, PTL DEF Spec, NoLateStart

\* The watchdog never ends a run whose operation completed its control first.
THEOREM CompletionHonoured == Spec => CompletionWins
<1>1. IInv /\ [Next]_vars =>
        [Watchdog => \A h \in Runs : control[h].state = "COMPLETED" =>
           run'[h].terminal = run[h].terminal]_vars
  BY WatchdogHonours DEF IInv
<1>2. QED
  BY <1>1, ExecutionInvariant, PTL DEF Spec, CompletionWins

==============================================================================
