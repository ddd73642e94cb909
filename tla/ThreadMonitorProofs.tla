------------------------ MODULE ThreadMonitorProofs ------------------------
(***************************************************************************)
(* Proofs about ThreadMonitor, for any threads, any width of the system    *)
(* time and any number of its wraps.                                       *)
(***************************************************************************)
EXTENDS ThreadMonitor, TLAPS

Entries == [current_loop_time : Nat, loop_duration : Nat, loop_count : Nat,
            min_loop_time : Nat, max_loop_time : Nat, total_loop_time : Nat,
            first_loop_time : Nat, last_wake_time : Nat, wake_count : Nat]

TypeOK ==
    /\ now \in Nat \ {0}
    /\ monitor \in [Thread -> Entries]
    /\ monitor_count \in Nat /\ filled \in monitor_count..monitor_count + 1
    /\ filled <= Len(Order)
    /\ began \in [Thread -> Nat] /\ noticed \in [Thread -> BOOLEAN]
    /\ truth \in [Thread -> [last : Nat, whole : BOOLEAN, sum : Nat]]

\* A running loop is shorter than a wrap, and if the monitor saw it begin then
\* the entry says when.
LoopInv(t) ==
    /\ began[t] # 0 => began[t] <= now /\ now - began[t] <= MaxLoop
    /\ noticed[t] => Registered(t)
    /\ noticed[t] /\ began[t] # 0 => monitor[t].current_loop_time = began[t] % Ticks

\* The sum lies between the shortest and the longest loop times their number,
\* and before the registration there is none.
SumInv(t) ==
    /\ ~Registered(t) => truth[t].sum = 0
    /\ monitor[t].min_loop_time * monitor[t].loop_count <= truth[t].sum
    /\ truth[t].sum <= monitor[t].max_loop_time * monitor[t].loop_count
    /\ truth[t].sum < Ticks => monitor[t].total_loop_time = truth[t].sum

\* The last loop.
ExactInv(t) ==
    monitor[t].loop_count > 0 /\ truth[t].whole => monitor[t].loop_duration = truth[t].last

IInv == TypeOK /\ \A t \in Thread : LoopInv(t) /\ SumInv(t) /\ ExactInv(t)

-----------------------------------------------------------------------------
(* Arithmetic of the system time.                                          *)

\* Division with remainder.
LEMMA ModOfMultiple ==
    ASSUME NEW T \in Nat \ {0}, NEW q \in Int, NEW r \in 0..T - 1
    PROVE  (T * q + r) % T = r
  OBVIOUS

LEMMA ModByDiv ==
    ASSUME NEW T \in Nat \ {0}, NEW n \in Int
    PROVE  \E q \in Int : n % T = n - T * q
<1>1. n \div T \in Int
  OBVIOUS
<1>2. n % T = n - T * (n \div T)
  OBVIOUS
<1> QED
  BY <1>1, <1>2

\* The remainders of two numbers less than T apart differ by the distance.
LEMMA ModDifference ==
    ASSUME NEW T \in Nat \ {0}, NEW n \in Nat, NEW b \in Nat, b <= n, n - b < T
    PROVE  ((n % T) - (b % T)) % T = n - b
<1>0. n \in Int /\ b \in Int
  OBVIOUS
<1>1. PICK qn \in Int : n % T = n - T * qn
  BY <1>0, ModByDiv, Zenon
<1>2. PICK qb \in Int : b % T = b - T * qb
  BY <1>0, ModByDiv, Zenon
<1>3. (n % T) - (b % T) = T * (qb - qn) + (n - b)
  <2>1. T * (qb - qn) = T * qb - T * qn /\ T * qb \in Int /\ T * qn \in Int
    OBVIOUS
  <2>3. (n - T * qn) - (b - T * qb) = (T * (qb - qn)) + (n - b)
    BY <2>1
  <2> QED
    BY <1>1, <1>2, <2>3
<1>4. qb - qn \in Int /\ n - b \in 0..T - 1
  OBVIOUS
<1>5. (T * (qb - qn) + (n - b)) % T = n - b
  BY <1>4, ModOfMultiple
<1> QED
  BY <1>3, <1>5

\* The difference of two system times is the time between them, if that is less
\* than a wrap.
LEMMA ElapsedExact ==
    ASSUME NEW n \in Nat, NEW b \in Nat, b <= n, n - b < Ticks
    PROVE  Elapsed(n % Ticks, b % Ticks) = n - b
<1>1. Ticks \in Nat \ {0}
  BY TimeAssumption
<1> QED
  BY <1>1, ModDifference, Zenon DEF Elapsed

\* Any difference is less than a wrap.
LEMMA ElapsedRange == ASSUME NEW m \in Nat, NEW n \in Nat PROVE Elapsed(m, n) \in 0..Ticks - 1
<1>1. m - n \in Int /\ Ticks \in Nat \ {0}
  BY TimeAssumption
<1>2. \A k \in Int : k % Ticks \in 0..Ticks - 1
  BY <1>1
<1> QED
  BY <1>1, <1>2 DEF Elapsed

\* The shortest and the longest of one more loop bound the sum.
LEMMA BoundsStep ==
    ASSUME NEW lo \in Nat, NEW hi \in Nat, NEW k \in Nat, NEW s \in Nat, NEW d \in Nat,
           lo * k <= s, s <= hi * k,
           NEW lo2 \in Nat, lo2 <= lo, lo2 <= d,
           NEW hi2 \in Nat, hi <= hi2, d <= hi2
    PROVE  lo2 * (k + 1) <= s + d /\ s + d <= hi2 * (k + 1)
<1>1. lo2 * k <= lo * k /\ hi * k <= hi2 * k
  OBVIOUS
<1>2. lo2 * (k + 1) = lo2 * k + lo2 /\ hi2 * (k + 1) = hi2 * k + hi2
  OBVIOUS
<1>3. lo2 * k \in Nat /\ lo * k \in Nat /\ hi * k \in Nat /\ hi2 * k \in Nat
  OBVIOUS
<1> QED
  BY <1>1, <1>2, <1>3

\* A mean lies between the bounds of what is averaged.
LEMMA MeanWithin ==
    ASSUME NEW lo \in Nat, NEW hi \in Nat, NEW k \in Nat \ {0}, NEW s \in Nat,
           lo * k <= s, s <= hi * k
    PROVE  lo <= s \div k /\ s \div k <= hi
<1>1. lo <= s \div k
  OBVIOUS
<1>2. s \div k <= hi
  OBVIOUS
<1> QED
  BY <1>1, <1>2

-----------------------------------------------------------------------------
(* The operators on an entry.                                              *)

\* What the end of a loop of duration d makes of an entry.
LEMMA StatisticsResult ==
    ASSUME NEW m \in Entries, NEW d \in 0..Ticks - 1, NEW e, e = Statistics(m, d)
    PROVE  /\ e \in Entries /\ e.loop_duration = d /\ e.loop_count = m.loop_count + 1
           /\ e.total_loop_time = (m.total_loop_time + d) % Ticks
           /\ e.min_loop_time <= m.min_loop_time /\ e.min_loop_time <= d
           /\ m.max_loop_time <= e.max_loop_time /\ d <= e.max_loop_time
<1> DEFINE total == (m.total_loop_time + d) % Ticks
           lo == IF d < m.min_loop_time THEN d ELSE m.min_loop_time
           hi == IF d > m.max_loop_time THEN d ELSE m.max_loop_time
<1>1. Ticks \in Nat \ {0} /\ d \in Nat
  BY TimeAssumption
<1>2. /\ m.total_loop_time \in Nat /\ m.min_loop_time \in Nat /\ m.max_loop_time \in Nat
      /\ m.loop_count \in Nat
  BY DEF Entries
<1>3. total \in Nat
  <2>1. m.total_loop_time + d \in Int
    BY <1>1, <1>2
  <2>2. \A k \in Int : k % Ticks \in Nat
    BY <1>1
  <2> QED
    BY <2>1, <2>2
<1>4. lo \in Nat /\ hi \in Nat /\ lo <= m.min_loop_time /\ lo <= d /\ m.max_loop_time <= hi /\ d <= hi
  BY <1>1, <1>2
<1>5. e = [m EXCEPT !.loop_duration = d, !.loop_count = m.loop_count + 1,
                    !.total_loop_time = total, !.min_loop_time = lo, !.max_loop_time = hi]
  BY DEF Statistics, Entries
<1> HIDE DEF total, lo, hi
<1>6. m.loop_count + 1 \in Nat
  BY <1>2
<1>7. e \in Entries
  BY <1>1, <1>3, <1>4, <1>5, <1>6 DEF Entries
<1>8. /\ e.loop_duration = d /\ e.loop_count = m.loop_count + 1 /\ e.total_loop_time = total
      /\ e.min_loop_time = lo /\ e.max_loop_time = hi
  BY <1>5 DEF Entries
<1> QED
  BY <1>4, <1>7, <1>8 DEF total

-----------------------------------------------------------------------------
(* Every step keeps the invariant.                                         *)

\* The entries are those of Order.
LEMMA OrderFacts ==
    /\ Len(Order) \in Nat
    /\ \A i \in 1..Len(Order) : Order[i] \in Thread
    /\ \A i, j \in 1..Len(Order) : Order[i] = Order[j] => i = j
<1>1. Order \in Seq(Thread) /\ DOMAIN Order = 1..Len(Order)
  BY OrderAssumption
<1> QED
  BY <1>1, OrderAssumption

\* An entry is written before it counts: nobody has used it.
LEMMA FillStep == ASSUME IInv, FillEntry PROVE IInv'
<1> DEFINE o == Order[filled + 1]
           e == [current_loop_time |-> systime, loop_duration |-> 0, loop_count |-> 0,
                 min_loop_time |-> Ticks - 1, max_loop_time |-> 0, total_loop_time |-> 0,
                 first_loop_time |-> 0, last_wake_time |-> 0, wake_count |-> 0]
<1>1. /\ filled = monitor_count /\ filled < Len(Order) /\ filled' = filled + 1 /\ filled \in Nat
      /\ UNCHANGED <<now, monitor_count, began, noticed, truth>>
      /\ monitor' = [monitor EXCEPT ![o] = e]
  BY DEF FillEntry, IInv, TypeOK
<1>2. o \in Thread /\ ~Registered(o)
  BY <1>1, OrderFacts DEF Registered
<1>3. systime \in Nat /\ Ticks - 1 \in Nat
  <2>1. Ticks \in Nat \ {0} /\ now \in Nat
    BY TimeAssumption DEF IInv, TypeOK
  <2>2. \A m \in Nat, T \in Nat \ {0} : m % T \in Nat
    OBVIOUS
  <2> QED
    BY <2>1, <2>2 DEF systime
<1>4. e \in Entries
  BY <1>3 DEF Entries
<1>5. e.loop_count = 0 /\ e.total_loop_time = 0 /\ e.min_loop_time \in Nat /\ e.max_loop_time \in Nat
  BY <1>3
<1> HIDE DEF o, e
<1>6. /\ monitor' \in [Thread -> Entries] /\ monitor'[o] = e
      /\ \A t \in Thread \ {o} : monitor'[t] = monitor[t]
  BY <1>1, <1>2, <1>4 DEF IInv, TypeOK
<1>7. TypeOK'
  BY <1>1, <1>6 DEF IInv, TypeOK
<1>8. ASSUME NEW t \in Thread PROVE Registered(t)' <=> Registered(t)
  BY <1>1 DEF Registered
<1>9. ASSUME NEW t \in Thread PROVE (LoopInv(t) /\ SumInv(t) /\ ExactInv(t))'
  <2>1. CASE t = o
    <3>1. ~noticed[o] /\ truth[o].sum = 0
      BY <1>2 DEF IInv, LoopInv, SumInv
    <3>2. LoopInv(t)'
      BY <1>1, <1>8, <2>1, <3>1 DEF IInv, LoopInv
    <3>3. SumInv(t)'
      BY <1>1, <1>5, <1>6, <2>1, <3>1 DEF SumInv
    <3>4. ExactInv(t)'
      BY <1>5, <1>6, <2>1 DEF ExactInv
    <3> QED
      BY <3>2, <3>3, <3>4
  <2>2. CASE t # o
    BY <1>1, <1>6, <1>8, <2>2 DEF IInv, LoopInv, SumInv, ExactInv
  <2> QED
    BY <2>1, <2>2
<1> QED
  BY <1>7, <1>9 DEF IInv

\* An entry starts to count.
LEMMA CountStep == ASSUME IInv, CountEntry PROVE IInv'
<1>1. /\ monitor_count' = filled /\ filled \in monitor_count..monitor_count + 1 /\ monitor_count \in Nat
      /\ UNCHANGED <<now, monitor, filled, began, noticed, truth>>
  BY DEF CountEntry, IInv, TypeOK
<1>2. TypeOK'
  BY <1>1 DEF IInv, TypeOK
<1>3. ASSUME NEW t \in Thread PROVE Registered(t) => Registered(t)'
  BY <1>1 DEF Registered
<1>4. ASSUME NEW t \in Thread PROVE (LoopInv(t) /\ SumInv(t) /\ ExactInv(t))'
  BY <1>1, <1>3 DEF IInv, LoopInv, SumInv, ExactInv
<1> QED
  BY <1>2, <1>4 DEF IInv

\* A loop begins; a registered thread notes the time.
LEMMA LoopStartStep == ASSUME IInv, NEW u \in Thread, update_thread_loop_start(u) PROVE IInv'
<1> DEFINE e == Woken(monitor[u])
<1>1. /\ began[u] = 0 /\ began' = [began EXCEPT ![u] = now]
      /\ noticed' = [noticed EXCEPT ![u] = Registered(u)]
      /\ monitor' = IF Registered(u) THEN [monitor EXCEPT ![u] = e] ELSE monitor
      /\ UNCHANGED <<now, monitor_count, filled, truth>>
  BY DEF update_thread_loop_start
<1>2. systime = now % Ticks /\ systime \in Nat /\ now \in Nat \ {0} /\ MaxLoop \in Nat
  <2>1. Ticks \in Nat \ {0} /\ now \in Nat \ {0} /\ MaxLoop \in Nat
    BY TimeAssumption DEF IInv, TypeOK
  <2>2. \A m \in Nat, T \in Nat \ {0} : m % T \in Nat
    OBVIOUS
  <2> QED
    BY <2>1, <2>2 DEF systime
<1>3. monitor[u] \in Entries
  BY DEF IInv, TypeOK
<1>4. e \in Entries
  <2> DEFINE m1 == [monitor[u] EXCEPT !.current_loop_time = systime]
             m2 == [m1 EXCEPT !.wake_count = @ + 1]
             m3 == [m2 EXCEPT !.first_loop_time = IF @ = 0 THEN systime ELSE @]
  <2>1. m1 \in Entries
    BY <1>2, <1>3 DEF Entries
  <2> HIDE DEF m1
  <2>2. m2 \in Entries
    BY <2>1 DEF Entries
  <2> HIDE DEF m2
  <2>3. m3 \in Entries
    BY <1>2, <2>2 DEF Entries
  <2> HIDE DEF m3
  <2>4. [m3 EXCEPT !.last_wake_time = systime] \in Entries
    BY <1>2, <2>3 DEF Entries
  <2> QED
    BY <2>4 DEF m1, m2, m3, Woken
<1>5. /\ e.current_loop_time = now % Ticks
      /\ e.loop_count = monitor[u].loop_count /\ e.loop_duration = monitor[u].loop_duration
      /\ e.min_loop_time = monitor[u].min_loop_time /\ e.max_loop_time = monitor[u].max_loop_time
      /\ e.total_loop_time = monitor[u].total_loop_time
  BY <1>2, <1>3 DEF Entries, Woken
<1> HIDE DEF e
<1>6. /\ monitor' \in [Thread -> Entries]
      /\ Registered(u) => monitor'[u] = e
      /\ ~Registered(u) => monitor'[u] = monitor[u]
      /\ \A t \in Thread \ {u} : monitor'[t] = monitor[t]
  <2>1. CASE Registered(u)
    BY <1>1, <1>4, <2>1 DEF IInv, TypeOK
  <2>2. CASE ~Registered(u)
    BY <1>1, <2>2 DEF IInv, TypeOK
  <2> QED
    BY <2>1, <2>2
<1>7. /\ began' \in [Thread -> Nat] /\ began'[u] = now
      /\ \A t \in Thread \ {u} : began'[t] = began[t]
  BY <1>1, <1>2 DEF IInv, TypeOK
<1>8. /\ noticed' \in [Thread -> BOOLEAN] /\ noticed'[u] = Registered(u)
      /\ \A t \in Thread \ {u} : noticed'[t] = noticed[t]
  <2>1. Registered(u) \in BOOLEAN /\ noticed \in [Thread -> BOOLEAN]
    BY DEF IInv, TypeOK, Registered
  <2> QED
    BY <1>1, <2>1
<1>9. TypeOK'
  BY <1>1, <1>6, <1>7, <1>8 DEF IInv, TypeOK
<1>10. ASSUME NEW t \in Thread PROVE Registered(t)' <=> Registered(t)
  BY <1>1 DEF Registered
<1>11. ASSUME NEW t \in Thread PROVE (LoopInv(t) /\ SumInv(t) /\ ExactInv(t))'
  <2>1. CASE t = u
    <3>1. LoopInv(t)'
      BY <1>1, <1>2, <1>5, <1>6, <1>7, <1>8, <1>10, <2>1 DEF LoopInv
    <3>2. SumInv(t)'
      BY <1>1, <1>5, <1>6, <1>10, <2>1 DEF IInv, SumInv
    <3>3. ExactInv(t)'
      BY <1>1, <1>5, <1>6, <2>1 DEF IInv, ExactInv
    <3> QED
      BY <3>1, <3>2, <3>3
  <2>2. CASE t # u
    BY <1>1, <1>6, <1>7, <1>8, <1>10, <2>2 DEF IInv, LoopInv, SumInv, ExactInv
  <2> QED
    BY <2>1, <2>2
<1> QED
  BY <1>9, <1>11 DEF IInv

\* A loop ends; a registered thread updates its statistics.
LEMMA LoopEndStep == ASSUME IInv, NEW u \in Thread, update_thread_loop_end(u) PROVE IInv'
<1> DEFINE d == Elapsed(systime, monitor[u].current_loop_time)
           e == Statistics(monitor[u], d)
           h == [last |-> now - began[u], whole |-> noticed[u], sum |-> truth[u].sum + d]
<1>1. /\ began[u] # 0 /\ began' = [began EXCEPT ![u] = 0]
      /\ monitor' = IF Registered(u) THEN [monitor EXCEPT ![u] = e] ELSE monitor
      /\ truth' = IF Registered(u) THEN [truth EXCEPT ![u] = h] ELSE truth
      /\ UNCHANGED <<now, monitor_count, filled, noticed>>
  BY DEF update_thread_loop_end
<1>2. /\ Ticks \in Nat \ {0} /\ now \in Nat /\ began[u] \in Nat /\ monitor[u] \in Entries
      /\ truth[u] \in [last : Nat, whole : BOOLEAN, sum : Nat]
      /\ began[u] <= now /\ now - began[u] < Ticks
  BY <1>1, TimeAssumption DEF IInv, TypeOK, LoopInv
<1>3. systime \in Nat /\ monitor[u].current_loop_time \in Nat
  <2>1. \A m \in Nat, T \in Nat \ {0} : m % T \in Nat
    OBVIOUS
  <2> QED
    BY <1>2, <2>1 DEF systime, Entries
<1>4. d \in 0..Ticks - 1
  BY <1>3, ElapsedRange
<1>5. noticed[u] => d = now - began[u]
  <2> SUFFICES ASSUME noticed[u] PROVE d = now - began[u]
    OBVIOUS
  <2>1. monitor[u].current_loop_time = began[u] % Ticks
    BY <1>1 DEF IInv, LoopInv
  <2>2. Elapsed(now % Ticks, began[u] % Ticks) = now - began[u]
    BY <1>2, ElapsedExact
  <2> QED
    BY <2>1, <2>2 DEF systime
<1> HIDE DEF d
<1>6. /\ e \in Entries /\ e.loop_duration = d /\ e.loop_count = monitor[u].loop_count + 1
      /\ e.total_loop_time = (monitor[u].total_loop_time + d) % Ticks
      /\ e.min_loop_time <= monitor[u].min_loop_time /\ e.min_loop_time <= d
      /\ monitor[u].max_loop_time <= e.max_loop_time /\ d <= e.max_loop_time
  BY <1>2, <1>4, StatisticsResult
<1> HIDE DEF e
<1>7. /\ h \in [last : Nat, whole : BOOLEAN, sum : Nat]
      /\ h.last = now - began[u] /\ h.whole = noticed[u] /\ h.sum = truth[u].sum + d
  <2>1. noticed[u] \in BOOLEAN /\ truth[u].sum + d \in Nat /\ now - began[u] \in Nat
    BY <1>2, <1>4 DEF IInv, TypeOK
  <2> QED
    BY <2>1
<1> HIDE DEF h
<1>8. /\ began' \in [Thread -> Nat] /\ began'[u] = 0
      /\ \A t \in Thread \ {u} : began'[t] = began[t]
  BY <1>1 DEF IInv, TypeOK
<1>9. /\ monitor' \in [Thread -> Entries]
      /\ Registered(u) => monitor'[u] = e
      /\ ~Registered(u) => monitor'[u] = monitor[u]
      /\ \A t \in Thread \ {u} : monitor'[t] = monitor[t]
  BY <1>1, <1>6 DEF IInv, TypeOK
<1>10. /\ truth' \in [Thread -> [last : Nat, whole : BOOLEAN, sum : Nat]]
       /\ Registered(u) => truth'[u] = h
       /\ ~Registered(u) => truth'[u] = truth[u]
       /\ \A t \in Thread \ {u} : truth'[t] = truth[t]
  BY <1>1, <1>7 DEF IInv, TypeOK
<1>11. TypeOK'
  BY <1>1, <1>8, <1>9, <1>10 DEF IInv, TypeOK
<1>12. ASSUME NEW t \in Thread PROVE Registered(t)' <=> Registered(t)
  BY <1>1 DEF Registered
<1>13. ASSUME NEW t \in Thread PROVE (LoopInv(t) /\ SumInv(t) /\ ExactInv(t))'
  <2>1. CASE t # u
    BY <1>1, <1>8, <1>9, <1>10, <1>12, <2>1 DEF IInv, LoopInv, SumInv, ExactInv
  <2>2. CASE t = u /\ ~Registered(u)
    BY <1>1, <1>8, <1>9, <1>10, <1>12, <2>2 DEF IInv, LoopInv, SumInv, ExactInv
  <2>3. CASE t = u /\ Registered(u)
    <3>1. LoopInv(t)'
      BY <1>1, <1>8, <1>12, <2>3 DEF LoopInv
    <3>2. ExactInv(t)'
      BY <1>5, <1>6, <1>7, <1>9, <1>10, <2>3 DEF ExactInv
    <3>3. SumInv(t)'
      <4> DEFINE m == monitor[u]
                 s == truth[u].sum
      <4>1. /\ m.min_loop_time \in Nat /\ m.max_loop_time \in Nat /\ m.loop_count \in Nat
            /\ m.total_loop_time \in Nat /\ s \in Nat /\ d \in Nat
            /\ e.min_loop_time \in Nat /\ e.max_loop_time \in Nat
        BY <1>2, <1>4, <1>6 DEF Entries
      <4>2. m.min_loop_time * m.loop_count <= s /\ s <= m.max_loop_time * m.loop_count
        BY DEF IInv, SumInv
      <4>3. /\ e.min_loop_time * (m.loop_count + 1) <= s + d
            /\ s + d <= e.max_loop_time * (m.loop_count + 1)
        BY <1>6, <4>1, <4>2, BoundsStep
      <4>4. s + d < Ticks => e.total_loop_time = s + d
        <5> SUFFICES ASSUME s + d < Ticks PROVE e.total_loop_time = s + d
          OBVIOUS
        <5>1. m.total_loop_time = s
          BY <1>2, <4>1 DEF IInv, SumInv
        <5>2. \A x \in Nat, T \in Nat \ {0} : x < T => x % T = x
          OBVIOUS
        <5>3. m.total_loop_time + d \in Nat /\ m.total_loop_time + d < Ticks /\ Ticks \in Nat \ {0}
          BY <1>2, <4>1, <5>1
        <5>4. (m.total_loop_time + d) % Ticks = m.total_loop_time + d
          BY <5>2, <5>3, Zenon
        <5> QED
          BY <1>6, <5>1, <5>4
      <4> QED
        BY <1>6, <1>7, <1>9, <1>10, <1>12, <2>3, <4>3, <4>4 DEF SumInv
    <3> QED
      BY <3>1, <3>2, <3>3
  <2> QED
    BY <2>1, <2>2, <2>3
<1> QED
  BY <1>11, <1>13 DEF IInv

\* Time passes; no loop lasts longer than MaxLoop.
LEMMA TickStep == ASSUME IInv, Tick PROVE IInv'
<1>1. /\ now' = now + 1 /\ now \in Nat /\ MaxLoop \in Nat /\ began \in [Thread -> Nat]
      /\ \A t \in Thread : began[t] # 0 => now + 1 - began[t] <= MaxLoop
      /\ UNCHANGED <<monitor, monitor_count, filled, began, noticed, truth>>
  BY TimeAssumption DEF Tick, IInv, TypeOK
<1>2. TypeOK'
  BY <1>1 DEF IInv, TypeOK
<1>3. ASSUME NEW t \in Thread PROVE (LoopInv(t) /\ SumInv(t) /\ ExactInv(t))'
  <2>1. LoopInv(t)'
    BY <1>1 DEF IInv, LoopInv, Registered
  <2>2. SumInv(t)' /\ ExactInv(t)'
    BY <1>1 DEF IInv, SumInv, ExactInv, Registered
  <2> QED
    BY <2>1, <2>2
<1> QED
  BY <1>2, <1>3 DEF IInv

\* The inductive invariant holds in every run.
THEOREM MonitorInvariant == Spec => []IInv
<1>1. Init => IInv
  <2> SUFFICES ASSUME Init PROVE IInv
    OBVIOUS
  <2>1. TypeOK
    BY OrderFacts DEF Init, TypeOK, Entries
  <2>2. ASSUME NEW t \in Thread PROVE LoopInv(t) /\ SumInv(t) /\ ExactInv(t)
    BY DEF Init, LoopInv, SumInv, ExactInv
  <2> QED
    BY <2>1, <2>2 DEF IInv
<1>2. IInv /\ [Next]_vars => IInv'
  <2> SUFFICES ASSUME IInv, [Next]_vars PROVE IInv'
    OBVIOUS
  <2>1. CASE UNCHANGED vars
    BY <2>1 DEF vars, IInv, TypeOK, LoopInv, SumInv, ExactInv, Registered
  <2> QED
    BY <2>1, FillStep, CountStep, TickStep, LoopStartStep, LoopEndStep DEF Next
<1> QED
  BY <1>1, <1>2, PTL DEF Spec

\* A loop whose start the monitor saw is measured exactly, across any wrap.
THEOREM LoopsMeasuredExactly == Spec => []SeenLoopsExact
<1>1. IInv => SeenLoopsExact
  BY DEF IInv, ExactInv, SeenLoopsExact
<1> QED
  BY <1>1, MonitorInvariant, PTL

\* The average shown lies between the shortest and the longest loop as long as
\* the sum fits in systime_t.
THEOREM AverageBetween == Spec => []AverageWithin
<1>1. IInv => AverageWithin
  <2> SUFFICES ASSUME IInv, NEW t \in Thread, truth[t].sum < Ticks, monitor[t].loop_count > 0
               PROVE  /\ monitor[t].min_loop_time <= avg_loop_time(t)
                      /\ avg_loop_time(t) <= monitor[t].max_loop_time
    BY DEF AverageWithin, Ordered
  <2> DEFINE m == monitor[t]
             s == truth[t].sum
  <2>1. /\ m.min_loop_time \in Nat /\ m.max_loop_time \in Nat /\ s \in Nat
        /\ m.loop_count \in Nat \ {0}
    BY DEF IInv, TypeOK, Entries
  <2>2. /\ m.min_loop_time * m.loop_count <= s /\ s <= m.max_loop_time * m.loop_count
        /\ m.total_loop_time = s
    BY DEF IInv, SumInv
  <2>3. m.min_loop_time <= s \div m.loop_count /\ s \div m.loop_count <= m.max_loop_time
    BY <2>1, <2>2, MeanWithin
  <2> QED
    BY <2>2, <2>3 DEF avg_loop_time
<1> QED
  BY <1>1, MonitorInvariant, PTL
=============================================================================
