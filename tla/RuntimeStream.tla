--------------------------- MODULE RuntimeStream ---------------------------
(***************************************************************************)
(* The progress events of one detached run and its readers (the event half *)
(* of pilot_runtime/managed_execution.py with the counters of              *)
(* execution_budget.py): a bounded ring of numbered events, an event       *)
(* budget, and bounded subscriptions which a slow reader overflows.        *)
(*                                                                         *)
(* A reader is a client of runtime_transport.py: it keeps the cursor of    *)
(* the last event it knows of, takes snapshots, subscribes after its       *)
(* cursor, reads, disconnects and comes back.  An event is its sequence    *)
(* number and the size of its payload; the envelope around it adds         *)
(* Overhead to that.                                                       *)
(***************************************************************************)
EXTENDS Integers, Sequences, FiniteSetsExt

CONSTANTS
  Readers,
  Sizes,          \* sizes of event payloads
  Overhead,       \* size of an envelope without its payload
  RingMaxEvents, RingMaxBytes,   \* the manager's limits for one run's ring
  SubMaxEvents, SubMaxBytes,     \* and for one subscription
  MaxEvents, MaxEventBytes,      \* the run's event budget
  MaxEmits        \* bound: progress events the operation emits

ASSUME LimitAssumption ==
  /\ Sizes \subseteq Nat \ {0} /\ Overhead \in Nat
  /\ {RingMaxEvents, RingMaxBytes, SubMaxEvents, SubMaxBytes,
      MaxEvents, MaxEventBytes, MaxEmits} \subseteq Nat \ {0}
\* A recovery marker fits into an empty subscription.
ASSUME MarkerAssumption == Overhead <= SubMaxBytes

VARIABLES
  seq,       \* next_seq: number of the last event
  ring,      \* history: retained events, oldest first
  ringBytes, \* history_bytes
  truncated, \* history_truncated
  budget,    \* events and bytes recorded, and whether progress was cut off
  terminal,  \* the run has published its completed event
  closing,   \* the run is being ended: the manager's lock is held until the
             \* readers are told that nothing follows
  emits,     \* progress events tried so far
  reader     \* the readers

vars == <<seq, ring, ringBytes, truncated, budget, terminal, closing, emits, reader>>
runVars == <<seq, ring, ringBytes, truncated, budget, terminal, closing, emits>>

Event(n, size) == [kind |-> "event", seq |-> n, size |-> size]
Mark(kind) == [kind |-> kind, seq |-> 0, size |-> 0]
FrameSize(f) == f.size + Overhead
Bytes(frames) ==
  LET sum[i \in 0..Len(frames)] == IF i = 0 THEN 0 ELSE sum[i-1] + FrameSize(frames[i])
  IN  sum[Len(frames)]

Events == [kind : {"event"}, seq : Nat, size : Sizes]
Marks == [kind : {"subscribed", "resync_required"}, seq : {0}, size : {0}]

Unsubscribed == [frames |-> <<>>, attached |-> FALSE, finishing |-> FALSE]
NewReader == [phase |-> "none", sub |-> Unsubscribed, cursor |-> 0, resync |-> FALSE]

LastSeq == MaxEmits + 2   \* a failed run adds an error event and the terminal one
TypeOK ==
  /\ seq \in 0..LastSeq /\ emits \in 0..MaxEmits
  /\ ring \in Seq(Events) /\ ringBytes \in Nat /\ truncated \in BOOLEAN
  /\ budget \in [events : 0..MaxEvents, bytes : 0..MaxEventBytes, cut : BOOLEAN]
  /\ terminal \in BOOLEAN /\ closing \in BOOLEAN
  /\ reader \in [Readers ->
       [phase : {"none", "snapshot", "open", "ended"}, cursor : 0..seq, resync : BOOLEAN,
        sub : [frames : Seq(Events \cup Marks), attached : BOOLEAN, finishing : BOOLEAN]]]

Init ==
  /\ seq = 0 /\ ring = <<>> /\ ringBytes = 0 /\ truncated = FALSE
  /\ budget = [events |-> 0, bytes |-> 0, cut |-> FALSE]
  /\ terminal = FALSE /\ closing = FALSE /\ emits = 0
  /\ reader = [r \in Readers |-> NewReader]

-----------------------------------------------------------------------------
(* Subscriptions: RuntimeSubscription. *)

Overflows_Count(s, f) == Len(s.frames) >= SubMaxEvents   \* mutant: bytes do not count
Overflows(s, f) == \/ Len(s.frames) >= SubMaxEvents
                   \/ Bytes(s.frames) + FrameSize(f) > SubMaxBytes
Resynced == [frames |-> <<Mark("resync_required")>>, attached |-> FALSE, finishing |-> TRUE]

\* On overflow the queued frames give way to one recovery marker, and the
\* manager drops the subscription.
Push_Silent(s, f) ==   \* mutant: a full subscription loses the frame, no more
  IF Overflows(s, f) THEN s ELSE [s EXCEPT !.frames = Append(@, f)]
Push(s, f) == IF Overflows(s, f) THEN Resynced
              ELSE [s EXCEPT !.frames = Append(@, f)]

Deliver(s, f) == IF s.attached THEN Push(s, f) ELSE s
Finish_Detached(s) == [s EXCEPT !.attached = FALSE]   \* mutant: only forgotten
Finish(s) == IF s.attached THEN [s EXCEPT !.attached = FALSE, !.finishing = TRUE] ELSE s

\* _subscribe_locked: a control frame, then the retained events past the cursor.
\* Pushed one by one they overflow if and only if they are too many together.
Past(after) ==
  LET new == {i \in DOMAIN ring : ring[i].seq > after}
  IN  IF new = {} THEN <<>> ELSE SubSeq(ring, Min(new), Len(ring))
Subscribed(after) ==
  LET frames == <<Mark("subscribed")>> \o Past(after)
  IN  IF Len(frames) > SubMaxEvents \/ Bytes(frames) > SubMaxBytes THEN Resynced
      ELSE [frames |-> frames, attached |-> TRUE, finishing |-> FALSE]
Subscription(after) == IF terminal THEN Finish(Subscribed(after)) ELSE Subscribed(after)

-----------------------------------------------------------------------------
(* The ring: _emit_event_locked. *)

TooLong(h) == Len(h.ring) > RingMaxEvents \/ (h.ring # <<>> /\ h.bytes > RingMaxBytes)
\* A payload is counted in, a whole envelope is counted out.
Dropped(h, k) == [ring |-> SubSeq(h.ring, k + 1, Len(h.ring)), cut |-> h.cut \/ k > 0,
                  bytes |-> Max({0, h.bytes - Bytes(SubSeq(h.ring, 1, k))})]
\* The oldest events go, one after the other, until the rest fits.
Fit(h) == Dropped(h, Min({k \in 0..Len(h.ring) : ~TooLong(Dropped(h, k))}))

\* A new event goes to the ring and to the attached readers.
Publish(size) ==
  LET e == Event(seq + 1, size)
      h == Fit([ring |-> Append(ring, e), cut |-> truncated, bytes |-> ringBytes + size])
  IN  /\ seq' = seq + 1
      /\ ring' = h.ring /\ ringBytes' = h.bytes /\ truncated' = h.cut
      /\ reader' = [r \in Readers |-> [reader[r] EXCEPT !.sub = Deliver(@, e)]]

Fits_OneMore(size) ==   \* mutant: the limit is compared off by one
  budget.events <= MaxEvents /\ budget.bytes + size <= MaxEventBytes
Fits(size) == budget.events < MaxEvents /\ budget.bytes + size <= MaxEventBytes

Emit(size) ==
  /\ emits < MaxEmits /\ ~terminal /\ ~closing /\ Fits(size)
  /\ emits' = emits + 1
  /\ budget' = [budget EXCEPT !.events = @ + 1, !.bytes = @ + size]
  /\ Publish(size)
  /\ UNCHANGED <<terminal, closing>>

\* Beyond the budget progress is dropped; the first time the readers of the
\* moment are sent to the saved record (_drop_subscribers_for_resync_locked).
CutOff(s) == IF s.attached THEN Resynced ELSE s
EmitRefused(size) ==
  /\ emits < MaxEmits /\ ~terminal /\ ~closing /\ ~Fits(size)
  /\ emits' = emits + 1
  /\ budget' = [budget EXCEPT !.cut = TRUE]
  /\ reader' = IF budget.cut THEN reader
               ELSE [r \in Readers |-> [reader[r] EXCEPT !.sub = CutOff(@)]]
  /\ UNCHANGED <<seq, ring, ringBytes, truncated, terminal, closing>>

\* _emit_terminal_locked: an error event after a failure ...
Fail(size) ==
  /\ ~terminal /\ ~closing /\ closing' = TRUE
  /\ Publish(size)
  /\ UNCHANGED <<terminal, budget, emits>>

\* ... then the completed event, both outside the budget ...
Complete(size) ==
  /\ ~terminal /\ terminal' = TRUE /\ closing' = TRUE
  /\ Publish(size)
  /\ UNCHANGED <<budget, emits>>

\* ... then every subscription is finished. A reader takes a frame under the
\* lock of its subscription only, so it may read everything in between.
CloseSubscribers ==
  /\ terminal /\ closing /\ closing' = FALSE
  /\ reader' = [r \in Readers |-> [reader[r] EXCEPT !.sub = Finish(@)]]
  /\ UNCHANGED <<seq, ring, ringBytes, truncated, budget, terminal, emits>>

-----------------------------------------------------------------------------
(* Readers. What they ask of the manager waits for its lock, which is held   *)
(* while the run is being ended.                                             *)

\* _require_replayable_locked: what follows the cursor is still in the ring.
Replayable_Any(after) == TRUE   \* mutant: stale cursors are served as well
Replayable(after) ==
  IF ring = <<>> THEN after = seq
  ELSE ~truncated \/ after >= ring[1].seq - 1

\* A fresh snapshot, perhaps one page of it: the reader takes over what the
\* service has, and counts what is older as known or lost.
Snapshot(r) ==
  /\ ~closing /\ reader[r].phase \in {"none", "ended"}
  /\ reader[r].phase = "ended" => reader[r].resync
  /\ \E n \in {seq} \cup {ring[i].seq : i \in DOMAIN ring} :
       reader' = [reader EXCEPT ![r] = [NewReader EXCEPT !.phase = "snapshot", !.cursor = n]]
  /\ UNCHANGED runVars

\* A snapshot after the cursor: the events since then, or a page of them.
Refresh(r) ==
  /\ ~closing /\ reader[r].phase = "snapshot" /\ reader[r].cursor < seq
  /\ IF Replayable(reader[r].cursor)
     THEN \E n \in reader[r].cursor + 1 .. seq : reader' = [reader EXCEPT ![r].cursor = n]
     ELSE reader' = [reader EXCEPT ![r].phase = "ended", ![r].resync = TRUE]
  /\ UNCHANGED runVars

Subscribe(r) ==
  /\ ~closing /\ reader[r].phase = "snapshot"
  /\ reader' = [reader EXCEPT
       ![r] = IF Replayable(reader[r].cursor)
              THEN [@ EXCEPT !.phase = "open", !.sub = Subscription(reader[r].cursor)]
              ELSE [@ EXCEPT !.phase = "ended", !.resync = TRUE]]
  /\ UNCHANGED runVars

\* get: one frame. The stream ends behind a recovery marker.
Read(x) ==
  LET s == x.sub
      f == Head(s.frames)
      ends == f.kind = "resync_required" \/ (s.finishing /\ Len(s.frames) = 1)
  IN  [x EXCEPT !.cursor = IF f.kind = "event" THEN f.seq ELSE x.cursor,
                !.resync = x.resync \/ f.kind = "resync_required",
                !.phase = IF ends THEN "ended" ELSE "open",
                !.sub = IF ends THEN Unsubscribed ELSE [s EXCEPT !.frames = Tail(s.frames)]]
Get(r) ==
  /\ reader[r].phase = "open" /\ reader[r].sub.frames # <<>>
  /\ reader' = [reader EXCEPT ![r] = Read(reader[r])]
  /\ UNCHANGED runVars

\* get on an empty queue of a finished subscription: StopIteration.
Stop(r) ==
  /\ reader[r].phase = "open" /\ reader[r].sub.frames = <<>> /\ reader[r].sub.finishing
  /\ reader' = [reader EXCEPT ![r].phase = "ended", ![r].sub = Unsubscribed]
  /\ UNCHANGED runVars

\* The client goes away, or may no longer read this run, and may come back with
\* its cursor.
Disconnect(r) ==
  /\ ~closing /\ reader[r].phase = "open"
  /\ reader' = [reader EXCEPT ![r].phase = "snapshot", ![r].sub = Unsubscribed]
  /\ UNCHANGED runVars

Next ==
  \/ \E size \in Sizes : Emit(size) \/ EmitRefused(size)
  \/ \E size \in Sizes : Fail(size) \/ Complete(size)
  \/ CloseSubscribers
  \/ \E r \in Readers : Snapshot(r) \/ Refresh(r) \/ Subscribe(r) \/ Get(r) \/ Stop(r) \/ Disconnect(r)

Spec == Init /\ [][Next]_vars
\* A connected client reads what is there, and the thread that ends the run
\* goes on to finish the subscriptions. Nothing else is assumed of the run.
FairSpec == /\ Spec /\ WF_vars(CloseSubscribers)
            /\ \A r \in Readers : WF_vars(Get(r) \/ Stop(r))

-----------------------------------------------------------------------------
(* Properties. *)

\* What a reader gets next is exactly the event after the last one it knows,
\* through every overflow, reconnection and reclaimed ring; otherwise it is told
\* to resynchronise and gets nothing.
NoSilentGap ==
  [][\A r \in Readers :
       reader[r].phase = "open" =>
         reader'[r].cursor \in {reader[r].cursor, reader[r].cursor + 1}]_vars

\* A subscription that finishes without a marker was complete: the run is over
\* and the reader knows its last event.
EndMeansComplete ==
  \A r \in Readers : reader[r].phase = "ended" /\ ~reader[r].resync
                       => terminal /\ reader[r].cursor = seq

\* What is kept for the run and for a slow reader is bounded in events, and for
\* a reader in bytes, and the ring is one run of consecutive events.
Bounded ==
  /\ Len(ring) <= RingMaxEvents
  /\ \A i \in DOMAIN ring : ring[i].seq = seq - Len(ring) + i
  /\ \A r \in Readers : LET s == reader[r].sub
                        IN  Len(s.frames) <= SubMaxEvents /\ Bytes(s.frames) <= SubMaxBytes

\* No reader hangs on a run that is over: its stream ends.
StreamsEnd == \A r \in Readers : (terminal /\ reader[r].phase = "open") ~> (reader[r].phase # "open")

\* The retained payloads stay within ring_max_bytes.
PayloadBytes == Bytes(ring) - Len(ring) * Overhead
RingBytesBounded == PayloadBytes <= RingMaxBytes
=============================================================================
