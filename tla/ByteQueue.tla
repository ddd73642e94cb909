------------------------------ MODULE ByteQueue ------------------------------
(***************************************************************************)
(* What an RTT channel promises: a bounded queue of bytes between one      *)
(* writer and one reader.  Bytes are numbered in the order they are put.   *)
(***************************************************************************)
EXTENDS Integers

CONSTANT Capacity

VARIABLES
    put, taken,     \* numbers of bytes put into and taken from the queue
    got             \* the bytes the last read returned

vars == <<put, taken, got>>

Init == put = 0 /\ taken = 0 /\ got = <<>>

Put(n) ==
    /\ n <= Capacity - (put - taken)
    /\ put' = put + n
    /\ UNCHANGED <<taken, got>>

Take(n) ==
    /\ n <= put - taken
    /\ taken' = taken + n
    /\ got' = [i \in 1..n |-> taken + i]
    /\ UNCHANGED put

Next == \E n \in 1..Capacity : Put(n) \/ Take(n)

Spec == Init /\ [][Next]_vars

=============================================================================
