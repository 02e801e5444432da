-------------------------- MODULE MCProactiveQueue --------------------------
EXTENDS ProactiveQueue

MCScopes == {{}, Kinds}
MCBudget == [k \in Kinds |-> 1]
=============================================================================
