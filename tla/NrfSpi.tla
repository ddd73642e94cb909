------------------------------- MODULE NrfSpi -------------------------------
(***************************************************************************)
(* The SPI interface of the radio (nrf24l01_interface.c): the transmit,    *)
(* interrupt and shell threads read and write registers through transfer   *)
(* buffers that are static variables, one pair for reads and one buffer    *)
(* for writes.  They are filled before spiAcquireBus and the answer is     *)
(* copied out after spiReleaseBus.                                         *)
(*                                                                         *)
(* A thread runs while no ready thread has a higher priority; the owner of *)
(* the bus inherits the priority of the threads that wait for it.  The DMA *)
(* takes the command byte first and the data bytes later, while the thread *)
(* sleeps.                                                                 *)
(***************************************************************************)
EXTENDS Integers, FiniteSets

CONSTANTS
    Thread, NoThread, Prio,
    Callers,        \* threads that use the radio; the others only run
    Reg, CONFIG,    \* registers; CONFIG is the one a command byte of 0 reads
    NoReg,          \* a write buffer without a command
    Data, Zero

ASSUME SpiAssumption ==
    /\ Prio \in [Thread -> Nat] /\ Callers \subseteq Thread
    /\ \A t, u \in Thread : t # u => Prio[t] # Prio[u]
    /\ NoThread \notin Thread /\ NoReg \notin Reg
    /\ CONFIG \in Reg /\ Zero \in Data

VARIABLES
    pc,         \* where a thread is: "idle" waits, "work" runs other code
    call,       \* its call: op, reg and data
    got,        \* what its last read returned
    rtx, rrx,   \* spi_read's buffers: the command byte and the answer
    wtx,        \* spi_write's buffer
    bus,        \* owner of the bus mutex
    chip,       \* external: the command of the transfer in progress
    regs,       \* external: the chip's registers
    val,        \* history: what the register held when its read took place
    lapped      \* history: whether another call of the kind overlapped this one

buffers == <<rtx, rrx, wtx>>
history == <<val, lapped>>
vars == <<pc, call, got, buffers, bus, chip, regs, history>>

Calls == [op : {"read"}, reg : Reg, data : {Zero}] \cup [op : {"write"}, reg : Reg, data : Data]

NoCall == [op |-> "read", reg |-> CONFIG, data |-> Zero]

Outside == {"idle", "work"}
Owning == {"start", "wait", "release"}

InCall(t) == pc[t] \notin Outside
SameKind(t, op) == {u \in Thread \ {t} : InCall(u) /\ call[u].op = op}

-----------------------------------------------------------------------------
(* The scheduler: external, as chMtxLock and chSchRescheduleS behave.      *)

Waiters == {t \in Thread : pc[t] = "queued"}

\* Fault: the owner of the bus keeps its own priority.
EffPrio_Own(t) == Prio[t]

EffPrio(t) ==
    LET P == {Prio[t]} \cup {Prio[u] : u \in {w \in Waiters : bus = t}}
    IN CHOOSE p \in P : \A q \in P : q <= p

Ready(t) == pc[t] \notin {"idle", "queued", "wait"}

Runs(t) == Ready(t) /\ \A u \in Thread : Ready(u) => EffPrio(u) <= EffPrio(t)

-----------------------------------------------------------------------------
(* The life of a thread between its calls.                                 *)

\* An event wakes it; it goes back to waiting.
Wake(t) ==
    /\ pc[t] = "idle"
    /\ pc' = [pc EXCEPT ![t] = "work"]
    /\ UNCHANGED <<call, got, buffers, bus, chip, regs, history>>

Sleep(t) ==
    /\ pc[t] = "work"
    /\ Runs(t)
    /\ pc' = [pc EXCEPT ![t] = "idle"]
    /\ UNCHANGED <<call, got, buffers, bus, chip, regs, history>>

\* spi_read or spi_write is called, from the driver.
Call(t, c) ==
    /\ t \in Callers
    /\ pc[t] = "work"
    /\ Runs(t)
    /\ pc' = [pc EXCEPT ![t] = "clear"]
    /\ call' = [call EXCEPT ![t] = c]
    /\ lapped' = [u \in Thread |->
                      IF u = t THEN SameKind(t, c.op) # {}
                      ELSE lapped[u] \/ u \in SameKind(t, c.op)]
    /\ UNCHANGED <<got, buffers, bus, chip, regs, val>>

-----------------------------------------------------------------------------
(* nrf24l01_interface_spi_read and _spi_write.                             *)

\* memset: a command byte of 0 reads CONFIG.
Clear(t) ==
    /\ pc[t] = "clear"
    /\ Runs(t)
    /\ IF call[t].op = "read"
          THEN rtx' = CONFIG /\ rrx' = Zero /\ UNCHANGED wtx
          ELSE wtx' = [reg |-> NoReg, data |-> Zero] /\ UNCHANGED <<rtx, rrx>>
    /\ pc' = [pc EXCEPT ![t] = "fill"]
    /\ UNCHANGED <<call, got, bus, chip, regs, history>>

\* Fault: a write is prepared in the buffer of the reads.
Fill_Shared(t) ==
    /\ pc[t] = "fill"
    /\ Runs(t)
    /\ rtx' = call[t].reg
    /\ wtx' = IF call[t].op = "write" THEN [reg |-> call[t].reg, data |-> call[t].data] ELSE wtx
    /\ pc' = [pc EXCEPT ![t] = "acquire"]
    /\ UNCHANGED <<call, got, rrx, bus, chip, regs, history>>

Fill(t) ==
    /\ pc[t] = "fill"
    /\ Runs(t)
    /\ IF call[t].op = "read"
          THEN rtx' = call[t].reg /\ UNCHANGED wtx
          ELSE wtx' = [reg |-> call[t].reg, data |-> call[t].data] /\ UNCHANGED rtx
    /\ pc' = [pc EXCEPT ![t] = "acquire"]
    /\ UNCHANGED <<call, got, rrx, bus, chip, regs, history>>

\* Fault: the bus is not waited for.
spiAcquireBus_NoWait(t) ==
    /\ pc[t] = "acquire"
    /\ Runs(t)
    /\ pc' = [pc EXCEPT ![t] = "start"]
    /\ bus' = t
    /\ UNCHANGED <<call, got, buffers, chip, regs, history>>

spiAcquireBus(t) ==
    /\ pc[t] = "acquire"
    /\ Runs(t)
    /\ pc' = [pc EXCEPT ![t] = IF bus = NoThread THEN "start" ELSE "queued"]
    /\ bus' = IF bus = NoThread THEN t ELSE bus
    /\ UNCHANGED <<call, got, buffers, chip, regs, history>>

\* spiSelect and the start of the DMA: the command byte goes out.
StartTransfer(t) ==
    /\ pc[t] = "start"
    /\ Runs(t)
    /\ chip' = IF call[t].op = "read" THEN rtx ELSE wtx.reg
    /\ pc' = [pc EXCEPT ![t] = "wait"]
    /\ UNCHANGED <<call, got, buffers, bus, regs, history>>

\* The DMA's interrupt: the data went out, or the answer came in.
EndTransfer(t) ==
    /\ pc[t] = "wait"
    /\ IF call[t].op = "read"
          THEN /\ rrx' = regs[chip]
               /\ val' = [val EXCEPT ![t] = regs[call[t].reg]]
               /\ UNCHANGED regs
          ELSE /\ regs' = [r \in Reg |-> IF r = chip THEN wtx.data ELSE regs[r]]
               /\ UNCHANGED <<rrx, val>>
    /\ chip' = NoReg
    /\ pc' = [pc EXCEPT ![t] = "release"]
    /\ UNCHANGED <<call, got, rtx, wtx, bus, lapped>>

\* The call of t ends, and its locals with it.
Return(t) ==
    /\ call' = [call EXCEPT ![t] = NoCall]
    /\ val' = [val EXCEPT ![t] = Zero]
    /\ lapped' = [lapped EXCEPT ![t] = FALSE]

\* The mutex is handed to the waiting thread of the highest priority.
spiReleaseBus(t) ==
    /\ pc[t] = "release"
    /\ Runs(t)
    /\ LET next == IF call[t].op = "read" THEN "copy" ELSE "work"
       IN \/ /\ Waiters = {}
             /\ bus' = NoThread
             /\ pc' = [pc EXCEPT ![t] = next]
          \/ \E w \in Waiters :
                /\ \A u \in Waiters : Prio[u] <= Prio[w]
                /\ bus' = w
                /\ pc' = [pc EXCEPT ![t] = next, ![w] = "start"]
    /\ IF call[t].op = "read" THEN UNCHANGED <<call, history>> ELSE Return(t)
    /\ UNCHANGED <<got, buffers, chip, regs>>

\* memcpy to the caller's buffer, and return.
CopyOut(t) ==
    /\ pc[t] = "copy"
    /\ Runs(t)
    /\ got' = [got EXCEPT ![t] = rrx]
    /\ pc' = [pc EXCEPT ![t] = "work"]
    /\ Return(t)
    /\ UNCHANGED <<buffers, bus, chip, regs>>

-----------------------------------------------------------------------------
Init ==
    /\ pc = [t \in Thread |-> "idle"]
    /\ call = [t \in Thread |-> NoCall]
    /\ got = [t \in Thread |-> Zero]
    /\ rtx = CONFIG /\ rrx = Zero /\ wtx = [reg |-> NoReg, data |-> Zero]
    /\ bus = NoThread /\ chip = NoReg
    /\ regs = [r \in Reg |-> Zero]
    /\ val = [t \in Thread |-> Zero]
    /\ lapped = [t \in Thread |-> FALSE]

Step(t) ==
    \/ Sleep(t)
    \/ \E c \in Calls : Call(t, c)
    \/ Clear(t) \/ Fill(t) \/ spiAcquireBus(t) \/ StartTransfer(t)
    \/ spiReleaseBus(t) \/ CopyOut(t)

Next == \E t \in Thread : Wake(t) \/ Step(t) \/ EndTransfer(t)

Spec == Init /\ [][Next]_vars

\* The scheduler runs the thread it chose, and a started DMA ends.
LiveSpec == Spec /\ \A t \in Thread : WF_vars(Step(t)) /\ WF_vars(EndTransfer(t))

-----------------------------------------------------------------------------
\* Type invariant.
TypeOK ==
    /\ pc \in [Thread -> {"idle", "work", "clear", "fill", "acquire", "queued", "start",
                          "wait", "release", "copy"}]
    /\ call \in [Thread -> Calls]
    /\ got \in [Thread -> Data] /\ val \in [Thread -> Data]
    /\ rtx \in Reg /\ rrx \in Data /\ wtx \in [reg : Reg \cup {NoReg}, data : Data]
    /\ bus \in Thread \cup {NoThread}
    /\ chip \in Reg \cup {NoReg}
    /\ regs \in [Reg -> Data]
    /\ lapped \in [Thread -> BOOLEAN]

\* The chip sees one transfer at a time: a thread that selects the chip, waits
\* for the DMA or has not released the bus is its owner, and only the owner is.
BusExclusive == \A t \in Thread : pc[t] \in Owning <=> bus = t

\* The transfer of t is the one its caller asked for, up to where it has come.
Intact(t) ==
    /\ pc[t] \in {"acquire", "queued", "start", "wait"} =>
          IF call[t].op = "read" THEN rtx = call[t].reg
          ELSE wtx = [reg |-> call[t].reg, data |-> call[t].data]
    /\ pc[t] = "wait" => chip = call[t].reg
    /\ pc[t] \in {"release", "copy"} /\ call[t].op = "read" => rrx = val[t]

\* The static buffers of nrf24l01_interface.c are spoiled only by a second call
\* of the same kind: reads and writes of different threads may overlap.
IntactUnlessLapped == \A t \in Thread : lapped[t] \/ Intact(t)

st == [t \in Thread |-> IF ~InCall(t) THEN "idle"
                        ELSE IF pc[t] \in {"release", "copy"} THEN "done" ELSE "called"]

RF == INSTANCE RegFile

\* The callers see atomic registers, up to calls that another of their kind
\* overlapped: such a write may go to another register with another value, but
\* to one only, and no read ever writes.
ImplementsRegFile == RF!Spec

Top == CHOOSE t \in Callers : \A u \in Thread : Prio[u] <= Prio[t]

\* A call of the thread of the highest priority ends, however often the others
\* use the bus.
TopCallEnds == InCall(Top) ~> ~InCall(Top)

=============================================================================
