------------------------------ MODULE MCNrfSpi ------------------------------
EXTENDS NrfSpi

\* The priorities that main gives the threads.
MCPrio == [t \in Thread |-> CASE t = "irq" -> 3 [] t = "shell" -> 1 [] OTHER -> 0]

=============================================================================
