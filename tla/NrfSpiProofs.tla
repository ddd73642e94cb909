---------------------------- MODULE NrfSpiProofs ----------------------------
(***************************************************************************)
(* Proofs about NrfSpi, for any threads, registers and data.               *)
(***************************************************************************)
EXTENDS NrfSpi, TLAPS

\* Two calls of one kind in progress are both marked as overlapped.
LapsMarked ==
    \A t, u \in Thread :
        t # u /\ InCall(t) /\ InCall(u) /\ call[t].op = call[u].op => lapped[t] /\ lapped[u]

\* The chip answers a read with a register, also when it is the wrong one, and
\* only the answer of a read is copied out.
ReadsAnswered ==
    \A t \in Thread :
        /\ pc[t] = "wait" /\ call[t].op = "read" => chip \in Reg
        /\ pc[t] = "copy" => call[t].op = "read"

\* The inductive invariant: the bus has one owner, every overlap is marked,
\* and what no other call overlapped is intact.
IInv == TypeOK /\ BusExclusive /\ ReadsAnswered /\ LapsMarked /\ IntactUnlessLapped

\* The initial state satisfies the invariant.
LEMMA InitInv == Init => IInv
  BY SpiAssumption DEF Init, IInv, TypeOK, BusExclusive, LapsMarked, IntactUnlessLapped,
     Intact, Owning, Outside, InCall, Calls, NoCall, ReadsAnswered

\* Every step keeps the types.
LEMMA TypeStep == IInv /\ [Next]_vars => TypeOK'
<1> SUFFICES ASSUME IInv, [Next]_vars PROVE TypeOK'
  OBVIOUS
<1> USE SpiAssumption DEF TypeOK, Calls, buffers, history
<1>1. CASE UNCHANGED vars
  BY <1>1 DEF IInv, vars
<1>2. ASSUME NEW t \in Thread, Wake(t) PROVE TypeOK'
  BY <1>2 DEF IInv, Wake
<1>3. ASSUME NEW t \in Thread, Sleep(t) PROVE TypeOK'
  BY <1>3 DEF IInv, Sleep
<1>4. ASSUME NEW t \in Thread, NEW c \in Calls, Call(t, c) PROVE TypeOK'
  BY <1>4 DEF IInv, Call
<1>5. ASSUME NEW t \in Thread, Clear(t) PROVE TypeOK'
  BY <1>5 DEF IInv, Clear
<1>6. ASSUME NEW t \in Thread, Fill(t) PROVE TypeOK'
  BY <1>6 DEF IInv, Fill
<1>7. ASSUME NEW t \in Thread, spiAcquireBus(t) PROVE TypeOK'
  BY <1>7 DEF IInv, spiAcquireBus
<1>8. ASSUME NEW t \in Thread, StartTransfer(t) PROVE TypeOK'
  BY <1>8 DEF IInv, StartTransfer
<1>9. ASSUME NEW t \in Thread, EndTransfer(t) PROVE TypeOK'
  <2>1. CASE call[t].op = "read"
    BY <1>9, <2>1 DEF IInv, EndTransfer, ReadsAnswered
  <2>2. CASE call[t].op = "write"
    <3>1. regs' = [r \in Reg |-> IF r = chip THEN wtx.data ELSE regs[r]]
      BY <1>9, <2>2 DEF EndTransfer
    <3>2. regs' \in [Reg -> Data]
      BY <3>1 DEF IInv
    <3> QED
      BY <1>9, <2>2, <3>2 DEF IInv, EndTransfer
  <2> QED
    BY <2>1, <2>2 DEF IInv
<1>10. ASSUME NEW t \in Thread, spiReleaseBus(t) PROVE TypeOK'
  <2>1. /\ pc' \in [Thread -> {"idle", "work", "clear", "fill", "acquire", "queued", "start",
                               "wait", "release", "copy"}]
        /\ bus' \in Thread \cup {NoThread}
    BY <1>10 DEF IInv, spiReleaseBus, Waiters
  <2>2. call' \in [Thread -> Calls] /\ val' \in [Thread -> Data] /\ lapped' \in [Thread -> BOOLEAN]
    <3>1. CASE UNCHANGED <<call, history>>
      BY <3>1 DEF IInv
    <3>2. CASE Return(t)
      BY <3>2 DEF IInv, Return, NoCall
    <3> QED
      BY <1>10, <3>1, <3>2 DEF spiReleaseBus
  <2> QED
    BY <1>10, <2>1, <2>2 DEF IInv, spiReleaseBus
<1>11. ASSUME NEW t \in Thread, CopyOut(t) PROVE TypeOK'
  BY <1>11 DEF IInv, Return, NoCall, CopyOut
<1> QED
  BY <1>1, <1>2, <1>3, <1>4, <1>5, <1>6, <1>7, <1>8, <1>9, <1>10, <1>11 DEF Next, Step

\* The bus keeps one owner: spiAcquireBus waits, spiReleaseBus hands over.
LEMMA BusStep == IInv /\ [Next]_vars => BusExclusive'
<1> SUFFICES ASSUME IInv, [Next]_vars PROVE BusExclusive'
  OBVIOUS
<1> USE SpiAssumption DEF TypeOK, Owning, buffers, history
<1>1. CASE UNCHANGED vars
  BY <1>1 DEF IInv, vars, BusExclusive
<1>2. ASSUME NEW t \in Thread, Wake(t) PROVE BusExclusive'
  BY <1>2 DEF IInv, Wake, BusExclusive
<1>3. ASSUME NEW t \in Thread, Sleep(t) PROVE BusExclusive'
  BY <1>3 DEF IInv, Sleep, BusExclusive
<1>4. ASSUME NEW t \in Thread, NEW c \in Calls, Call(t, c) PROVE BusExclusive'
  BY <1>4 DEF IInv, Call, BusExclusive
<1>5. ASSUME NEW t \in Thread, Clear(t) PROVE BusExclusive'
  BY <1>5 DEF IInv, Clear, BusExclusive
<1>6. ASSUME NEW t \in Thread, Fill(t) PROVE BusExclusive'
  BY <1>6 DEF IInv, Fill, BusExclusive
<1>7. ASSUME NEW t \in Thread, spiAcquireBus(t) PROVE BusExclusive'
  BY <1>7 DEF IInv, spiAcquireBus, BusExclusive
<1>8. ASSUME NEW t \in Thread, StartTransfer(t) PROVE BusExclusive'
  BY <1>8 DEF IInv, StartTransfer, BusExclusive
<1>9. ASSUME NEW t \in Thread, EndTransfer(t) PROVE BusExclusive'
  BY <1>9 DEF IInv, EndTransfer, BusExclusive
<1>10. ASSUME NEW t \in Thread, spiReleaseBus(t) PROVE BusExclusive'
  BY <1>10 DEF IInv, spiReleaseBus, Waiters, BusExclusive
<1>11. ASSUME NEW t \in Thread, CopyOut(t) PROVE BusExclusive'
  BY <1>11 DEF IInv, CopyOut, BusExclusive
<1> QED
  BY <1>1, <1>2, <1>3, <1>4, <1>5, <1>6, <1>7, <1>8, <1>9, <1>10, <1>11 DEF Next, Step

\* Only the owner of the bus talks to the chip.
LEMMA AnswerStep == IInv /\ [Next]_vars => ReadsAnswered'
<1> SUFFICES ASSUME IInv, [Next]_vars PROVE ReadsAnswered'
  OBVIOUS
<1> USE SpiAssumption DEF TypeOK, Owning, Calls, buffers, history
<1>1. CASE UNCHANGED vars
  BY <1>1 DEF IInv, vars, ReadsAnswered, BusExclusive
<1>2. ASSUME NEW t \in Thread, Wake(t) PROVE ReadsAnswered'
  BY <1>2 DEF IInv, Wake, ReadsAnswered, BusExclusive
<1>3. ASSUME NEW t \in Thread, Sleep(t) PROVE ReadsAnswered'
  BY <1>3 DEF IInv, Sleep, ReadsAnswered, BusExclusive
<1>4. ASSUME NEW t \in Thread, NEW c \in Calls, Call(t, c) PROVE ReadsAnswered'
  BY <1>4 DEF IInv, Call, ReadsAnswered, BusExclusive
<1>5. ASSUME NEW t \in Thread, Clear(t) PROVE ReadsAnswered'
  BY <1>5 DEF IInv, Clear, ReadsAnswered, BusExclusive
<1>6. ASSUME NEW t \in Thread, Fill(t) PROVE ReadsAnswered'
  BY <1>6 DEF IInv, Fill, ReadsAnswered, BusExclusive
<1>7. ASSUME NEW t \in Thread, spiAcquireBus(t) PROVE ReadsAnswered'
  BY <1>7 DEF IInv, spiAcquireBus, ReadsAnswered, BusExclusive
<1>8. ASSUME NEW t \in Thread, StartTransfer(t) PROVE ReadsAnswered'
  BY <1>8 DEF IInv, StartTransfer, ReadsAnswered, BusExclusive
<1>9. ASSUME NEW t \in Thread, EndTransfer(t) PROVE ReadsAnswered'
  BY <1>9 DEF IInv, EndTransfer, ReadsAnswered, BusExclusive
<1>10. ASSUME NEW t \in Thread, spiReleaseBus(t) PROVE ReadsAnswered'
  BY <1>10 DEF IInv, Return, NoCall, spiReleaseBus, Waiters, ReadsAnswered, BusExclusive
<1>11. ASSUME NEW t \in Thread, CopyOut(t) PROVE ReadsAnswered'
  BY <1>11 DEF IInv, Return, NoCall, CopyOut, ReadsAnswered, BusExclusive
<1> QED
  BY <1>1, <1>2, <1>3, <1>4, <1>5, <1>6, <1>7, <1>8, <1>9, <1>10, <1>11 DEF Next, Step

\* A call that starts marks itself and the calls it overlaps.
LEMMA LapStep == IInv /\ [Next]_vars => LapsMarked'
<1> SUFFICES ASSUME IInv, [Next]_vars PROVE LapsMarked'
  OBVIOUS
<1> USE SpiAssumption DEF TypeOK, InCall, Outside, SameKind, buffers, history
<1>1. CASE UNCHANGED vars
  BY <1>1 DEF IInv, vars, LapsMarked
<1>2. ASSUME NEW t \in Thread, Wake(t) PROVE LapsMarked'
  BY <1>2 DEF IInv, Wake, LapsMarked
<1>3. ASSUME NEW t \in Thread, Sleep(t) PROVE LapsMarked'
  BY <1>3 DEF IInv, Sleep, LapsMarked
<1>4. ASSUME NEW t \in Thread, NEW c \in Calls, Call(t, c) PROVE LapsMarked'
  <2> SUFFICES ASSUME NEW u \in Thread, NEW v \in Thread, u # v, InCall(u)', InCall(v)',
                      (call[u].op = call[v].op)'
               PROVE lapped'[u] /\ lapped'[v]
    BY DEF LapsMarked
  <2>1. CASE u = t
    BY <1>4, <2>1 DEF IInv, Call
  <2>2. CASE v = t
    BY <1>4, <2>2 DEF IInv, Call
  <2>3. CASE u # t /\ v # t
    BY <1>4, <2>3 DEF IInv, Call, LapsMarked
  <2> QED
    BY <2>1, <2>2, <2>3
<1>5. ASSUME NEW t \in Thread, Clear(t) PROVE LapsMarked'
  BY <1>5 DEF IInv, Clear, LapsMarked
<1>6. ASSUME NEW t \in Thread, Fill(t) PROVE LapsMarked'
  BY <1>6 DEF IInv, Fill, LapsMarked
<1>7. ASSUME NEW t \in Thread, spiAcquireBus(t) PROVE LapsMarked'
  BY <1>7 DEF IInv, spiAcquireBus, LapsMarked
<1>8. ASSUME NEW t \in Thread, StartTransfer(t) PROVE LapsMarked'
  BY <1>8 DEF IInv, StartTransfer, LapsMarked
<1>9. ASSUME NEW t \in Thread, EndTransfer(t) PROVE LapsMarked'
  BY <1>9 DEF IInv, EndTransfer, LapsMarked
<1>10. ASSUME NEW t \in Thread, spiReleaseBus(t) PROVE LapsMarked'
  BY <1>10 DEF IInv, Return, NoCall, spiReleaseBus, Waiters, LapsMarked
<1>11. ASSUME NEW t \in Thread, CopyOut(t) PROVE LapsMarked'
  BY <1>11 DEF IInv, Return, NoCall, CopyOut, LapsMarked
<1> QED
  BY <1>1, <1>2, <1>3, <1>4, <1>5, <1>6, <1>7, <1>8, <1>9, <1>10, <1>11 DEF Next, Step

\* A step of another thread that could spoil a transfer is one of its kind.
LEMMA IntactStep == IInv /\ [Next]_vars => IntactUnlessLapped'
<1> SUFFICES ASSUME IInv, [Next]_vars PROVE IntactUnlessLapped'
  OBVIOUS
<1> USE SpiAssumption DEF TypeOK, Calls, InCall, Outside, Owning, SameKind, buffers, history
<1>1. CASE UNCHANGED vars
  BY <1>1 DEF IInv, vars, IntactUnlessLapped, Intact
<1>2. ASSUME NEW t \in Thread, Wake(t) PROVE IntactUnlessLapped'
  BY <1>2 DEF IInv, Wake, IntactUnlessLapped, Intact, LapsMarked, BusExclusive
<1>3. ASSUME NEW t \in Thread, Sleep(t) PROVE IntactUnlessLapped'
  BY <1>3 DEF IInv, Sleep, IntactUnlessLapped, Intact, LapsMarked, BusExclusive
<1>4. ASSUME NEW t \in Thread, NEW c \in Calls, Call(t, c) PROVE IntactUnlessLapped'
  BY <1>4 DEF IInv, Call, IntactUnlessLapped, Intact, LapsMarked, BusExclusive
<1>5. ASSUME NEW t \in Thread, Clear(t) PROVE IntactUnlessLapped'
  <2> SUFFICES ASSUME NEW u \in Thread, ~lapped'[u] PROVE Intact(u)'
    BY DEF IntactUnlessLapped
  <2>1. CASE u = t
    BY <1>5, <2>1 DEF IInv, Clear, Intact
  <2>2. CASE u # t /\ ~InCall(u)
    BY <1>5, <2>2 DEF IInv, Clear, Intact
  <2>3. CASE u # t /\ InCall(u)
    <3>1. call[u].op # call[t].op /\ Intact(u)
      BY <1>5, <2>3 DEF IInv, Clear, LapsMarked, IntactUnlessLapped
    <3> QED
      BY <1>5, <2>3, <3>1 DEF IInv, Clear, Intact
  <2> QED
    BY <2>1, <2>2, <2>3
<1>6. ASSUME NEW t \in Thread, Fill(t) PROVE IntactUnlessLapped'
  BY <1>6 DEF IInv, Fill, IntactUnlessLapped, Intact, LapsMarked, BusExclusive
<1>7. ASSUME NEW t \in Thread, spiAcquireBus(t) PROVE IntactUnlessLapped'
  BY <1>7 DEF IInv, spiAcquireBus, IntactUnlessLapped, Intact, LapsMarked, BusExclusive
<1>8. ASSUME NEW t \in Thread, StartTransfer(t) PROVE IntactUnlessLapped'
  BY <1>8 DEF IInv, StartTransfer, IntactUnlessLapped, Intact, LapsMarked, BusExclusive
<1>9. ASSUME NEW t \in Thread, EndTransfer(t) PROVE IntactUnlessLapped'
  BY <1>9 DEF IInv, EndTransfer, IntactUnlessLapped, Intact, LapsMarked, BusExclusive
<1>10. ASSUME NEW t \in Thread, spiReleaseBus(t) PROVE IntactUnlessLapped'
  BY <1>10 DEF IInv, Return, NoCall, spiReleaseBus, Waiters, IntactUnlessLapped, Intact, LapsMarked, BusExclusive
<1>11. ASSUME NEW t \in Thread, CopyOut(t) PROVE IntactUnlessLapped'
  BY <1>11 DEF IInv, Return, NoCall, CopyOut, IntactUnlessLapped, Intact, LapsMarked, BusExclusive
<1> QED
  BY <1>1, <1>2, <1>3, <1>4, <1>5, <1>6, <1>7, <1>8, <1>9, <1>10, <1>11 DEF Next, Step

\* NrfSpi keeps the inductive invariant.
THEOREM Invariance == Spec => []IInv
<1>1. IInv /\ [Next]_vars => IInv'
  BY TypeStep, BusStep, AnswerStep, LapStep, IntactStep DEF IInv
<1> QED
  BY <1>1, InitInv, PTL DEF Spec

\* The chip serves one transfer at a time, whatever threads use the radio.
THEOREM BusSafe == Spec => []BusExclusive
<1>1. IInv => BusExclusive
  BY DEF IInv
<1> QED
  BY <1>1, Invariance, PTL

\* Only an overlap of two calls of one kind spoils a transfer through the
\* static buffers, for any number of threads.
THEOREM OnlyLapsSpoil == Spec => []IntactUnlessLapped
<1>1. IInv => IntactUnlessLapped
  BY DEF IInv
<1> QED
  BY <1>1, Invariance, PTL

\* Every step of the interface is a step of the registers or none: the end of
\* the DMA is the access.
LEMMA RefineStep == IInv /\ [Next]_vars => [RF!Next]_RF!vars
<1> SUFFICES ASSUME IInv, [Next]_vars PROVE [RF!Next]_RF!vars
  OBVIOUS
<1>0. \A t \in Thread : lapped[t] \/ Intact(t)
  BY DEF IInv, IntactUnlessLapped
<1> USE SpiAssumption DEF buffers, history, TypeOK, Outside, InCall, Return, NoCall
<1>1. CASE UNCHANGED vars
  BY <1>1 DEF vars, RF!vars, st
<1>2. ASSUME NEW t \in Thread, Wake(t) PROVE UNCHANGED RF!vars
  BY <1>2 DEF IInv, Wake, RF!vars, st
<1>3. ASSUME NEW t \in Thread, Sleep(t) PROVE UNCHANGED RF!vars
  BY <1>3 DEF IInv, Sleep, RF!vars, st
<1>4. ASSUME NEW t \in Thread, NEW c \in Calls, Call(t, c) PROVE RF!Invoke(t, c)
  <2>1. SameKind(t, c.op) = RF!Overlapped(t, c.op)
    BY DEF SameKind, RF!Overlapped, st
  <2>2. st[t] = "idle" /\ st' = [st EXCEPT ![t] = "called"]
    BY <1>4 DEF IInv, Call, st
  <2> QED
    BY <1>4, <2>1, <2>2 DEF Call, RF!Invoke
<1>5. ASSUME NEW t \in Thread, Clear(t) PROVE UNCHANGED RF!vars
  BY <1>5 DEF IInv, Clear, RF!vars, st
<1>6. ASSUME NEW t \in Thread, Fill(t) PROVE UNCHANGED RF!vars
  BY <1>6 DEF IInv, Fill, RF!vars, st
<1>7. ASSUME NEW t \in Thread, spiAcquireBus(t) PROVE UNCHANGED RF!vars
  BY <1>7 DEF IInv, spiAcquireBus, RF!vars, st
<1>8. ASSUME NEW t \in Thread, StartTransfer(t) PROVE UNCHANGED RF!vars
  BY <1>8 DEF IInv, StartTransfer, RF!vars, st
<1>9. ASSUME NEW t \in Thread, EndTransfer(t) PROVE RF!Access(t)
  <2>1. st[t] = "called" /\ st' = [st EXCEPT ![t] = "done"] /\ UNCHANGED <<call, got>>
    BY <1>9 DEF IInv, EndTransfer, st
  <2>2. CASE call[t].op = "read"
    BY <1>9, <2>1, <2>2 DEF IInv, EndTransfer, RF!Access
  <2>3. CASE call[t].op = "write"
    <3>1. regs' = [r \in Reg |-> IF r = chip THEN wtx.data ELSE regs[r]] /\ UNCHANGED <<val, lapped>>
      BY <1>9, <2>3 DEF EndTransfer
    <3>2. CASE lapped[t]
      <4>1. CASE chip \in Reg
        <5>1. regs' = [regs EXCEPT ![chip] = wtx.data] /\ wtx.data \in Data
          BY <3>1, <4>1 DEF IInv
        <5> QED
          BY <2>1, <2>3, <3>1, <3>2, <4>1, <5>1 DEF RF!Access
      <4>2. CASE chip \notin Reg
        <5>1. regs' = regs
          BY <3>1, <4>2 DEF IInv
        <5> QED
          BY <2>1, <2>3, <3>1, <3>2, <5>1 DEF RF!Access
      <4> QED
        BY <4>1, <4>2
    <3>3. CASE ~lapped[t]
      <4>1. wtx.data = call[t].data /\ chip = call[t].reg
        BY <1>0, <1>9, <2>3, <3>3 DEF EndTransfer, Intact
      <4>2. regs' = [regs EXCEPT ![call[t].reg] = call[t].data]
        BY <3>1, <4>1 DEF IInv
      <4> QED
        BY <2>1, <2>3, <3>1, <4>2 DEF RF!Access
    <3> QED
      BY <3>2, <3>3
  <2> QED
    BY <2>2, <2>3 DEF IInv, Calls
<1>10. ASSUME NEW t \in Thread, spiReleaseBus(t) PROVE RF!Return(t) \/ UNCHANGED RF!vars
  <2>1. CASE call[t].op = "read"
    BY <1>10, <2>1 DEF IInv, spiReleaseBus, Waiters, RF!vars, st
  <2>2. CASE call[t].op = "write"
    BY <1>10, <2>2 DEF IInv, spiReleaseBus, Waiters, RF!Return, st
  <2> QED
    BY <2>1, <2>2 DEF IInv, Calls
<1>11. ASSUME NEW t \in Thread, CopyOut(t) PROVE RF!Return(t) \/ UNCHANGED RF!vars
  <2>1. CASE call[t].op = "read"
    <3>1. rrx \in Data /\ (lapped[t] \/ rrx = val[t])
      BY <1>0, <1>11, <2>1 DEF IInv, CopyOut, Intact
    <3> QED
      BY <1>11, <2>1, <3>1 DEF IInv, CopyOut, RF!Return, st
  <2>2. CASE call[t].op = "write"
    BY <1>11, <2>2 DEF IInv, ReadsAnswered, CopyOut
  <2> QED
    BY <2>1, <2>2 DEF IInv, Calls
<1> QED
  BY <1>1, <1>2, <1>3, <1>4, <1>5, <1>6, <1>7, <1>8, <1>9, <1>10, <1>11
  DEF Next, Step, RF!Next, RF!Calls, Calls

\* The interface implements RegFile, for any threads and registers: a call that
\* no other of its kind overlapped is one atomic access of its register.
THEOREM Refinement == Spec => ImplementsRegFile
<1>1. Init => RF!Init
  BY SpiAssumption DEF Init, RF!Init, st, InCall, Outside
<1> QED
  BY <1>1, RefineStep, Invariance, PTL DEF Spec, RF!Spec, ImplementsRegFile

=============================================================================
