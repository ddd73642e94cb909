---------------------------- MODULE ThreadMonitor ----------------------------
(***************************************************************************)
(* The loop-time statistics of main.c.  The threads are created first and  *)
(* registered afterwards by main, so a thread may be inside a loop, or     *)
(* several loops on, when its entry appears.  A thread updates only its    *)
(* own entry, and main never preempts it inside an update.                 *)
(***************************************************************************)
EXTENDS Integers, Sequences

CONSTANTS
    Order,      \* the monitored threads, in the order main registers them
    Ticks,      \* systime_t counts modulo Ticks
    MinLoop, MaxLoop,   \* shortest and longest loop of a thread: it sleeps in it
    MaxTime     \* bound on the ticks of a behaviour

Thread == {Order[i] : i \in DOMAIN Order}

\* No thread is registered twice.
ASSUME OrderAssumption ==
    /\ Order \in Seq(Thread)
    /\ \A i, j \in DOMAIN Order : Order[i] = Order[j] => i = j

ASSUME TimeAssumption ==
    /\ Ticks \in Nat \ {0} /\ MaxTime \in Nat
    /\ MinLoop \in Nat /\ MaxLoop \in MinLoop..Ticks - 1

VARIABLES
    now,            \* ticks since boot, not reduced
    monitor,        \* thread_monitors, by thread
    monitor_count,
    filled,         \* entries main has written; the last one may not count yet
    began,          \* when the current loop of each thread began; 0 before the first
    noticed,        \* whether the monitor has seen it begin
    truth           \* history: what the entry should say

vars == <<now, monitor, monitor_count, filled, began, noticed, truth>>

\* chVTGetSystemTime
systime == now % Ticks

\* Fault: the difference of two times does not survive the wrap of the counter.
Elapsed_NoWrap(to, from) == IF to >= from THEN to - from ELSE 0

\* A difference of two systime_t.
Elapsed(to, from) == (to - from) % Ticks

Registered(t) == \E i \in 1..monitor_count : Order[i] = t

-----------------------------------------------------------------------------
\* register_thread_monitor: the entry is written, then counted.
FillEntry ==
    /\ filled = monitor_count
    /\ filled < Len(Order)
    /\ filled' = filled + 1
    /\ monitor' = [monitor EXCEPT ![Order[filled + 1]] =
                     [current_loop_time |-> systime, loop_duration |-> 0, loop_count |-> 0,
                      min_loop_time |-> Ticks - 1, max_loop_time |-> 0, total_loop_time |-> 0,
                      first_loop_time |-> 0, last_wake_time |-> 0, wake_count |-> 0]]
    /\ UNCHANGED <<now, monitor_count, began, noticed, truth>>

CountEntry ==
    /\ filled > monitor_count
    /\ monitor_count' = filled
    /\ UNCHANGED <<now, monitor, filled, began, noticed, truth>>

Woken(m) ==
    [m EXCEPT !.current_loop_time = systime,
              !.wake_count = @ + 1,
              !.first_loop_time = IF @ = 0 THEN systime ELSE @,
              !.last_wake_time = systime]

update_thread_loop_start(t) ==
    /\ began[t] = 0
    /\ began' = [began EXCEPT ![t] = now]
    /\ noticed' = [noticed EXCEPT ![t] = Registered(t)]
    /\ IF Registered(t)
          THEN monitor' = [monitor EXCEPT ![t] = Woken(@)]
          ELSE UNCHANGED monitor
    /\ UNCHANGED <<now, monitor_count, filled, truth>>

\* Fault: the longest loop is looked at only when the loop is not the shortest.
Statistics_ElseMax(m, d) ==
    [m EXCEPT !.loop_duration = d,
              !.loop_count = @ + 1,
              !.total_loop_time = (@ + d) % Ticks,
              !.min_loop_time = IF d < @ THEN d ELSE @,
              !.max_loop_time = IF d > @ /\ ~(d < m.min_loop_time) THEN d ELSE @]

Statistics(m, d) ==
    [m EXCEPT !.loop_duration = d,
              !.loop_count = @ + 1,
              !.total_loop_time = (@ + d) % Ticks,
              !.min_loop_time = IF d < @ THEN d ELSE @,
              !.max_loop_time = IF d > @ THEN d ELSE @]

update_thread_loop_end(t) ==
    /\ began[t] # 0
    /\ now >= began[t] + MinLoop
    /\ began' = [began EXCEPT ![t] = 0]
    /\ IF Registered(t)
          THEN LET d == Elapsed(systime, monitor[t].current_loop_time)
               IN /\ monitor' = [monitor EXCEPT ![t] = Statistics(@, d)]
                  /\ truth' = [truth EXCEPT ![t] =
                       [last |-> now - began[t], whole |-> noticed[t], sum |-> @.sum + d]]
          ELSE UNCHANGED <<monitor, truth>>
    /\ UNCHANGED <<now, monitor_count, filled, noticed>>

\* The system timer.
Tick ==
    /\ now < MaxTime
    /\ \A t \in Thread : began[t] # 0 => now + 1 - began[t] <= MaxLoop
    /\ now' = now + 1
    /\ UNCHANGED <<monitor, monitor_count, filled, began, noticed, truth>>

-----------------------------------------------------------------------------
Init ==
    /\ now = 1
    /\ monitor = [t \in Thread |->
         [current_loop_time |-> 0, loop_duration |-> 0, loop_count |-> 0,
          min_loop_time |-> 0, max_loop_time |-> 0, total_loop_time |-> 0,
          first_loop_time |-> 0, last_wake_time |-> 0, wake_count |-> 0]]
    /\ monitor_count = 0 /\ filled = 0
    /\ began = [t \in Thread |-> 0]
    /\ noticed = [t \in Thread |-> FALSE]
    /\ truth = [t \in Thread |-> [last |-> 0, whole |-> FALSE, sum |-> 0]]

Next ==
    \/ FillEntry \/ CountEntry \/ Tick
    \/ \E t \in Thread : update_thread_loop_start(t) \/ update_thread_loop_end(t)

Spec == Init /\ [][Next]_vars

-----------------------------------------------------------------------------
\* The average the display thread computes.
avg_loop_time(t) == monitor[t].total_loop_time \div monitor[t].loop_count

\* A loop whose start the monitor has seen is measured exactly, on either side of
\* a wrap of the system time.
SeenLoopsExact ==
    \A t \in Thread :
        monitor[t].loop_count > 0 /\ truth[t].whole => monitor[t].loop_duration = truth[t].last

Ordered(t) ==
    monitor[t].loop_count > 0 =>
        /\ monitor[t].min_loop_time <= avg_loop_time(t)
        /\ avg_loop_time(t) <= monitor[t].max_loop_time

\* While the times sum to less than the width of systime_t, the average lies
\* between the shortest and the longest loop, a first loop that was cut short by
\* the registration included.
AverageWithin == \A t \in Thread : truth[t].sum < Ticks => Ordered(t)

=============================================================================
