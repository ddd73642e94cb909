------------------------------ MODULE ChKernel ------------------------------
(***************************************************************************)
(* The part of the ChibiOS/RT kernel the firmware is built on: the ready   *)
(* list and the running thread, event sources, one mutex with priority     *)
(* inheritance and one thread reference.  The configuration is the         *)
(* firmware's: CH_CFG_TIME_QUANTUM is 0, so threads of equal priority do    *)
(* not take turns, and debug checks are off.                               *)
(*                                                                         *)
(* The scheduler state is one record s with the running thread s.cur, the  *)
(* ready list s.ready, the thread states s.st and the priorities s.prio    *)
(* and s.real (with and without inheritance).  Every operation that the    *)
(* kernel performs with interrupts masked is an operator from the old      *)
(* record to the new one.                                                  *)
(***************************************************************************)
EXTENDS Integers, Sequences, FiniteSets, Functions

\* The null thread pointer.
NoThread == "null"

\* Thread states: not created, then the CH_STATE_ values.  "blocked" stands
\* for every sleep that a timer, a DMA completion or lwIP's tcpip thread ends.
Waiting == {"blocked", "wtevt", "wtmtx", "wtexit", "suspended"}
State == {"none", "current", "ready", "final"} \cup Waiting

-----------------------------------------------------------------------------
(* Lists of threads, highest priority first.                               *)

\* Where the walk from the head of the list q ends: at the first thread of a
\* priority below p, or behind the last one.
Place(q, prio, p) ==
    CHOOSE k \in 1..Len(q) + 1 : /\ \A i \in 1..k - 1 : prio[q[i]] >= p
                                 /\ k <= Len(q) => prio[q[k]] < p

\* The link before the k-th thread of the list.
LinkAt(q, k, t) == SubSeq(q, 1, k - 1) \o <<t>> \o SubSeq(q, k, Len(q))

\* ch_pqueue_insert_behind and ch_sch_prio_insert: after the threads of the same
\* priority.
InsertBehind(q, prio, t) == LinkAt(q, Place(q, prio, prio[t]), t)

\* ch_pqueue_insert_ahead: before the threads of the same priority.
InsertAhead(q, prio, t) == LinkAt(q, Place(q, prio, prio[t] + 1), t)

\* ch_queue_dequeue: the thread is unlinked where it stands.
Dequeue(q, t) ==
    LET k == CHOOSE i \in DOMAIN q : q[i] = t
    IN SubSeq(q, 1, k - 1) \o SubSeq(q, k + 1, Len(q))

-----------------------------------------------------------------------------
(* The ready list and the running thread.                                  *)

\* __sch_ready_behind and __sch_ready_ahead.
ReadyBehind(s, t) == [s EXCEPT !.st[t] = "ready", !.ready = InsertBehind(@, s.prio, t)]
ReadyAhead(s, t) == [s EXCEPT !.st[t] = "ready", !.ready = InsertAhead(@, s.prio, t)]

\* The first thread of the ready list becomes the running one.
TakeHighest(s) ==
    LET t == Head(s.ready)
    IN [s EXCEPT !.cur = t, !.st[t] = "current", !.ready = Tail(@)]

\* chSchGoSleepS: the idle thread keeps the ready list from being empty.
GoSleep(s, newstate) == TakeHighest([s EXCEPT !.st[s.cur] = newstate])

\* Fault: a thread that is preempted goes behind its peers.
Reschedule_Behind(s) ==
    IF s.ready # <<>> /\ s.prio[Head(s.ready)] > s.prio[s.cur]
       THEN LET n == TakeHighest(s) IN ReadyBehind(n, s.cur)
       ELSE s

\* chSchRescheduleS, and chSchPreemption at the end of an interrupt: the
\* running thread goes back ahead of its peers if a higher one is ready.
Reschedule(s) ==
    IF s.ready # <<>> /\ s.prio[Head(s.ready)] > s.prio[s.cur]
       THEN LET n == TakeHighest(s) IN ReadyAhead(n, s.cur)
       ELSE s

\* Fault: the woken thread always waits for the running one to block.
Wakeup_Later(s, t) == ReadyBehind(s, t)

\* chSchWakeupS: the woken thread runs at once if its priority is higher.
Wakeup(s, t) ==
    IF s.prio[t] <= s.prio[s.cur]
       THEN ReadyBehind(s, t)
       ELSE LET n == ReadyAhead(s, s.cur)
            IN [n EXCEPT !.cur = t, !.st[t] = "current"]

-----------------------------------------------------------------------------
(* Event sources: a source is zeroed memory until chEvtObjectInit; the     *)
(* list of a zeroed source ends in a null pointer.                         *)

ZeroSource == [init |-> FALSE, list |-> <<>>]

\* chEvtObjectInit: whatever was in the list is dropped.
EvtObjectInit(es) == [init |-> TRUE, list |-> <<>>]

\* chEvtRegisterMaskWithFlagsI: the listener becomes the first of the list;
\* there is no check that the source was initialised.
EvtRegister(es, t) == [es EXCEPT !.list = <<t>> \o @]

\* chEvtBroadcastFlagsI walks the list; chEvtSignalI makes each listener ready
\* that waits for the event.
EvtBroadcast(s, es) ==
    LET Wake[i \in 0..Len(es.list)] ==
            IF i = 0 THEN s
            ELSE LET t == es.list[i]
                     w == Wake[i - 1]
                 IN IF w.st[t] = "wtevt" THEN ReadyBehind(w, t) ELSE w
    IN Wake[Len(es.list)]

-----------------------------------------------------------------------------
(* The mutex: owner and waiting threads, highest priority first.           *)

ZeroMutex == [init |-> FALSE, owner |-> NoThread, queue |-> <<>>]

\* chMtxObjectInit.
MtxObjectInit(m) == [init |-> TRUE, owner |-> NoThread, queue |-> <<>>]

\* Fault: the owner keeps its own priority while others wait.
MtxBoost_None(s, t) == s

\* The owner t of a mutex the running thread wants inherits its priority;
\* in the ready list it moves accordingly.
MtxBoost(s, t) ==
    IF s.prio[t] >= s.prio[s.cur] THEN s
    ELSE LET b == [s EXCEPT !.prio[t] = s.prio[s.cur]]
         IN IF s.st[t] # "ready" THEN b
            ELSE ReadyBehind([b EXCEPT !.ready = Dequeue(@, t)], t)

\* Fault: the lock is tried and the thread goes on either way.
MtxLockSched_NoWait(s, m) == s

\* chMtxLockS, its effects on the scheduler and on the mutex.
MtxLockSched(s, m) ==
    IF m.owner = NoThread THEN s ELSE GoSleep(MtxBoost(s, m.owner), "wtmtx")

MtxLock(s, m) ==
    IF m.owner = NoThread
       THEN [m EXCEPT !.owner = s.cur]
       ELSE [m EXCEPT !.queue = InsertBehind(@, s.prio, s.cur)]

\* chMtxUnlock with an initialised mutex: the first waiting thread becomes
\* the owner.  No thread of the firmware owns a second mutex, so the priority
\* falls back to the thread's own.
MtxUnlockSched(s, m) ==
    IF m.queue = <<>> THEN s
    ELSE Reschedule(ReadyBehind([s EXCEPT !.prio[s.cur] = s.real[s.cur]],
                                Head(m.queue)))

MtxUnlock(s, m) ==
    IF m.queue = <<>>
       THEN [m EXCEPT !.owner = NoThread]
       ELSE [m EXCEPT !.owner = Head(m.queue), !.queue = Tail(@)]

=============================================================================
