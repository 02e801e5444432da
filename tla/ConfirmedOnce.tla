--------------------------- MODULE ConfirmedOnce ---------------------------
(***************************************************************************)
(* What the write-operation ledger promises of the writes one conversation *)
(* asks its user to confirm (write-operation ledger design, section 6.1):  *)
(* the conversation is about one write at a time; the user's decision is   *)
(* taken once; its outcome is told once; the next write is asked for only  *)
(* when the last one has been told; a write that was done is taken back at *)
(* most once.  WriteOperations implements it, with its transactions,       *)
(* leases, lost answers and crashes.                                       *)
(***************************************************************************)
CONSTANT Operations

VARIABLES
  fate,    \* of each write: unasked, asked, done, not done
  told,    \* the writes whose outcome is in the conversation
  undone,  \* the writes taken back
  open     \* the conversation exists

vars == <<fate, told, undone, open>>

Init ==
  /\ fate = [o \in Operations |-> "unasked"]
  /\ told = {} /\ undone = {} /\ open = TRUE

\* Nothing is under discussion, but for o.
Settled(o) == \A x \in Operations \ {o} : fate[x] = "unasked" \/ x \in told

Ask(o) ==
  /\ open /\ fate[o] = "unasked" /\ Settled(o)
  /\ fate' = [fate EXCEPT ![o] = "asked"]
  /\ UNCHANGED <<told, undone, open>>

\* The decision, told at once or later.
Decide(o) ==
  /\ open /\ fate[o] = "asked"
  /\ \E outcome \in {"done", "not_done"} : fate' = [fate EXCEPT ![o] = outcome]
  /\ told' \in {told, told \cup {o}}
  /\ UNCHANGED <<undone, open>>

\* Telling an outcome may ask for the next write in the same breath.
Tell(o) ==
  /\ open /\ fate[o] \in {"done", "not_done"} /\ o \notin told
  /\ told' = told \cup {o}
  /\ \/ UNCHANGED fate
     \/ \E c \in Operations \ {o} :
          /\ fate[c] = "unasked" /\ Settled(o)
          /\ fate' = [fate EXCEPT ![c] = "asked"]
  /\ UNCHANGED <<undone, open>>

TakeBack(o) ==
  /\ open /\ fate[o] = "done" /\ o \notin undone
  /\ undone' = undone \cup {o}
  /\ UNCHANGED <<fate, told, open>>

Close == open /\ open' = FALSE /\ UNCHANGED <<fate, told, undone>>

Next ==
  \/ \E o \in Operations : Ask(o) \/ Decide(o) \/ Tell(o) \/ TakeBack(o)
  \/ Close

Spec == Init /\ [][Next]_vars
=============================================================================
