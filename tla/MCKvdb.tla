------------------------------- MODULE MCKvdb -------------------------------
EXTENDS Kvdb

\* Nodes of one length, or a short and a long one.
UniformLen == [v \in Value |-> 3]
MixedLen == [v \in Value |-> IF v = "big" THEN 6 ELSE 3]

\* No value ends in 0xFF, or the long one does.
NoTail == [v \in Value |-> 0]
BigTail == [v \in Value |-> IF v = "big" THEN 1 ELSE 0]

=============================================================================
