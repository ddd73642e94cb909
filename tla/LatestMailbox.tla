---------------------------- MODULE LatestMailbox ----------------------------
(***************************************************************************)
(* What the DualSense data path promises: a mailbox that keeps only the    *)
(* latest value.  A publication replaces the value and marks every member  *)
(* as having mail; a member that has mail takes the value, seals a packet  *)
(* of it and emits the packet before it looks again.  A member that seals  *)
(* before a second newer publication gets the value whole; a slower one    *)
(* gets a packet of pieces no older than the value it took.                *)
(***************************************************************************)
EXTENDS Integers

CONSTANTS
    Members,        \* the consumers
    MayLeave,       \* those that may give up right after joining
    Pieces,         \* the pieces of a packet
    MaxPublish      \* bound on the number of publications

VARIABLES
    latest,         \* the number of the latest publication
    joined,         \* members that are told of publications
    mail,           \* members that have mail
    stage,          \* where each member stands
    taken,          \* the publication each member took last
    packet,         \* the packet each member has sealed
    out             \* the packet each member emitted last

mailboxVars == <<latest, joined, mail, stage, taken, packet, out>>

\* A packet made of one publication only.
Packet(n) == [p \in Pieces |-> n]

Init ==
    /\ latest = 0
    /\ joined = {}
    /\ mail = {}
    /\ stage = [c \in Members |-> "boot"]
    /\ taken = [c \in Members |-> 0]
    /\ packet = [c \in Members |-> Packet(0)]
    /\ out = [c \in Members |-> Packet(0)]

Publish ==
    /\ latest < MaxPublish
    /\ latest' = latest + 1
    /\ mail' = mail \cup joined
    /\ UNCHANGED <<joined, stage, taken, packet, out>>

Join(c) ==
    /\ stage[c] = "boot"
    /\ joined' = joined \cup {c}
    /\ stage' = [stage EXCEPT ![c] = "setup"]
    /\ UNCHANGED <<latest, mail, taken, packet, out>>

Start(c) ==
    /\ stage[c] = "setup"
    /\ stage' = [stage EXCEPT ![c] = "wait"]
    /\ UNCHANGED <<latest, joined, mail, taken, packet, out>>

Leave(c) ==
    /\ c \in MayLeave
    /\ stage[c] = "setup"
    /\ stage' = [stage EXCEPT ![c] = "exited"]
    /\ UNCHANGED <<latest, joined, mail, taken, packet, out>>

Wake(c) ==
    /\ stage[c] = "wait"
    /\ c \in mail
    /\ mail' = mail \ {c}
    /\ stage' = [stage EXCEPT ![c] = "awake"]
    /\ UNCHANGED <<latest, joined, taken, packet, out>>

Take(c) ==
    /\ stage[c] = "awake"
    /\ taken' = [taken EXCEPT ![c] = latest]
    /\ stage' = [stage EXCEPT ![c] = "holding"]
    /\ UNCHANGED <<latest, joined, mail, packet, out>>

Seal(c) ==
    /\ stage[c] = "holding"
    /\ \E pk \in [Pieces -> taken[c]..latest] :
          /\ latest <= taken[c] + 1 => pk = Packet(taken[c])
          /\ packet' = [packet EXCEPT ![c] = pk]
    /\ stage' = [stage EXCEPT ![c] = "sealed"]
    /\ UNCHANGED <<latest, joined, mail, taken, out>>

Emit(c) ==
    /\ stage[c] = "sealed"
    /\ out' = [out EXCEPT ![c] = packet[c]]
    /\ packet' = [packet EXCEPT ![c] = Packet(0)]
    /\ stage' = [stage EXCEPT ![c] = "wait"]
    /\ UNCHANGED <<latest, joined, mail, taken>>

MemberStep(c) ==
    \/ Join(c)
    \/ Start(c)
    \/ Leave(c)
    \/ Wake(c)
    \/ Take(c)
    \/ Seal(c)
    \/ Emit(c)

Next == Publish \/ \E c \in Members : MemberStep(c)

Spec == Init /\ [][Next]_mailboxVars

==============================================================================
