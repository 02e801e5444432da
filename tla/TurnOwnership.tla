--------------------------- MODULE TurnOwnership ---------------------------
(***************************************************************************)
(* What the durable lease promises about one workspace: a conversation has *)
(* at most one owning execution, an execution owns it once and for one     *)
(* uninterrupted period, and only the owner, or the last owner after the   *)
(* end of its period, leaves protected writes behind.                      *)
(***************************************************************************)
CONSTANTS Conversations, Executions, None, Home   \* Home: an execution's conversation

VARIABLES owner,   \* the execution that owns a conversation, or None
          last,    \* the execution that owned it most recently, or None
          spent,   \* executions whose period is over
          author   \* the execution whose write came last, or None

ovars == <<owner, last, spent, author>>

OInit == /\ owner = [c \in Conversations |-> None]
         /\ last = [c \in Conversations |-> None]
         /\ spent = {}
         /\ author = [c \in Conversations |-> None]

\* A new execution takes the conversation; an owner whose lease ran out is ended.
Take(e) == LET c == Home[e]
           IN  /\ e \notin spent /\ owner[c] # e
               /\ owner' = [owner EXCEPT ![c] = e]
               /\ last' = [last EXCEPT ![c] = e]
               /\ spent' = spent \cup ({owner[c]} \ {None})
               /\ UNCHANGED author

\* Some owners end, together when a new process fences those of the old one.
Yield(C) == /\ \A c \in C : owner[c] # None
            /\ owner' = [c \in Conversations |-> IF c \in C THEN None ELSE owner[c]]
            /\ spent' = spent \cup {owner[c] : c \in C}
            /\ UNCHANGED <<last, author>>

\* A protected write, by the owner or by the last owner after its end. The write
\* of a timed-out worker ends its own execution in the same transaction.
Write(c) == /\ last[c] # None
            /\ author' = [author EXCEPT ![c] = last[c]]
            /\ \/ UNCHANGED <<owner, spent>>
               \/ /\ owner[c] # None
                  /\ owner' = [owner EXCEPT ![c] = None]
                  /\ spent' = spent \cup {owner[c]}
            /\ UNCHANGED last

ONext == \/ \E C \in SUBSET Conversations : Yield(C)
         \/ \E e \in Executions : Take(e)
         \/ \E c \in Conversations : Write(c)

OSpec == OInit /\ [][ONext]_ovars
=============================================================================
