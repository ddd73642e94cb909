------------------------------- MODULE RegFile -------------------------------
(***************************************************************************)
(* What the SPI interface of the radio promises its callers: a call reads  *)
(* or writes one register, at one moment between its start and its end.    *)
(* A call that another of its kind overlapped has weaker ones: a write     *)
(* changes one register at most, a read changes none and returns anything. *)
(***************************************************************************)
CONSTANTS Thread, Reg, Data, Zero,
    NoCall  \* stands for the call of an idle thread

VARIABLES
    regs,   \* the chip's registers
    call,   \* the call of a thread: op, reg and data
    st,     \* "idle", "called" or "done"
    val,    \* what its read has taken from the register
    got,    \* what its last read returned
    lapped  \* whether another call of the kind overlapped its call

vars == <<regs, call, st, val, got, lapped>>

Calls == [op : {"read"}, reg : Reg, data : {Zero}] \cup [op : {"write"}, reg : Reg, data : Data]

Overlapped(t, op) == {u \in Thread \ {t} : st[u] # "idle" /\ call[u].op = op}

Invoke(t, c) ==
    /\ st[t] = "idle"
    /\ st' = [st EXCEPT ![t] = "called"]
    /\ call' = [call EXCEPT ![t] = c]
    /\ lapped' = [u \in Thread |-> IF u = t THEN Overlapped(t, c.op) # {}
                                   ELSE lapped[u] \/ u \in Overlapped(t, c.op)]
    /\ UNCHANGED <<regs, val, got>>

\* The register is written, or its value is taken.
Access(t) ==
    /\ st[t] = "called"
    /\ st' = [st EXCEPT ![t] = "done"]
    /\ \/ /\ call[t].op = "read"
          /\ val' = [val EXCEPT ![t] = regs[call[t].reg]]
          /\ UNCHANGED regs
       \/ /\ call[t].op = "write"
          /\ \/ regs' = [regs EXCEPT ![call[t].reg] = call[t].data]
             \/ /\ lapped[t]
                /\ \E r \in Reg, d \in Data : regs' \in {regs, [regs EXCEPT ![r] = d]}
          /\ UNCHANGED val
    /\ UNCHANGED <<call, got, lapped>>

Return(t) ==
    /\ st[t] = "done"
    /\ st' = [st EXCEPT ![t] = "idle"]
    /\ \/ call[t].op = "write" /\ UNCHANGED got
       \/ /\ call[t].op = "read"
          /\ \E d \in Data : /\ lapped[t] \/ d = val[t]
                             /\ got' = [got EXCEPT ![t] = d]
    /\ call' = [call EXCEPT ![t] = NoCall]
    /\ val' = [val EXCEPT ![t] = Zero]
    /\ lapped' = [lapped EXCEPT ![t] = FALSE]
    /\ UNCHANGED regs

Init ==
    /\ regs = [r \in Reg |-> Zero]
    /\ call = [t \in Thread |-> NoCall]
    /\ st = [t \in Thread |-> "idle"]
    /\ val = [t \in Thread |-> Zero]
    /\ got = [t \in Thread |-> Zero]
    /\ lapped = [t \in Thread |-> FALSE]

Next ==
    \E t \in Thread :
        \/ \E c \in Calls : Invoke(t, c)
        \/ Access(t)
        \/ Return(t)

Spec == Init /\ [][Next]_vars

=============================================================================
