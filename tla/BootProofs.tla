----------------------------- MODULE BootProofs -----------------------------
(***************************************************************************)
(* The scheduler keeps its books for any set of threads and any            *)
(* priorities, and the start-up of the firmware on it is safe.             *)
(***************************************************************************)
EXTENDS Boot, TLAPS

-----------------------------------------------------------------------------
(* Lists of threads.                                                       *)

\* The walks along the lists end because the naturals are well ordered. The last
\* section proves it from the library; until then it is carried along in Queue.
WellOrdered == \A N \in SUBSET Nat : N # {} => \E m \in N : \A n \in N : m <= n

\* A list of threads of T, each once, by falling priority.
Queue(T, q, prio) ==
    /\ WellOrdered
    /\ q \in Seq(T)
    /\ \A i, j \in 1..Len(q) : i # j => q[i] # q[j]
    /\ \A i, j \in 1..Len(q) : i < j => prio[q[i]] >= prio[q[j]]

\* The walk ends.
LEMMA PlaceFacts ==
    ASSUME WellOrdered,
           NEW T, NEW q \in Seq(T), NEW prio \in [T -> Nat], NEW p \in Nat
    PROVE  LET k == Place(q, prio, p)
           IN  /\ k \in 1..Len(q) + 1
               /\ \A i \in 1..k - 1 : prio[q[i]] >= p
               /\ k <= Len(q) => prio[q[k]] < p
<1>. DEFINE Stop == {k \in 1..Len(q) + 1 : k <= Len(q) => prio[q[k]] < p}
            P(k) == /\ \A i \in 1..k - 1 : prio[q[i]] >= p
                    /\ k <= Len(q) => prio[q[k]] < p
<1>1. Len(q) \in Nat /\ \A i \in 1..Len(q) : prio[q[i]] \in Nat  OBVIOUS
<1>2. Stop \in SUBSET Nat /\ Len(q) + 1 \in Stop  BY <1>1
<1>3. PICK k \in Stop : \A n \in Stop : k <= n  BY Zenon, <1>2 DEF WellOrdered
<1>4. \A i \in 1..k - 1 : prio[q[i]] >= p
  <2>1. SUFFICES ASSUME NEW i \in 1..k - 1, prio[q[i]] < p PROVE FALSE
    <3>1. k - 1 <= Len(q)  BY <1>1
    <3>. QED  BY <1>1, <3>1
  <2>2. i \in Stop /\ i < k  BY <1>1, <2>1
  <2>. QED  BY <1>3, <2>2
<1>5. \E n \in 1..Len(q) + 1 : P(n)  BY Zenon, <1>4
<1>. HIDE DEF P, Stop
<1>6. Place(q, prio, p) \in 1..Len(q) + 1 /\ P(Place(q, prio, p))
  BY Zenon, <1>5 DEF Place, P
<1>. QED  BY Zenon, <1>6 DEF P

LEMMA LinkFacts ==
    ASSUME NEW T, NEW q \in Seq(T), NEW k \in 1..Len(q) + 1, NEW t \in T
    PROVE  \E r : /\ r = LinkAt(q, k, t) /\ r \in Seq(T) /\ Len(r) = Len(q) + 1
                  /\ \A i \in 1..Len(r) :
                       r[i] = IF i < k THEN q[i] ELSE IF i = k THEN t ELSE q[i - 1]
<1>. DEFINE a == SubSeq(q, 1, k - 1)
            b == SubSeq(q, k, Len(q))
            r == (a \o <<t>>) \o b
<1>1. Len(q) \in Nat /\ k \in Nat  OBVIOUS
<1>2. a \in Seq(T) /\ Len(a) = k - 1 /\ \A i \in 1..k - 1 : a[i] = q[i]  OBVIOUS
<1>3. b \in Seq(T) /\ Len(b) = Len(q) - k + 1 /\ \A i \in 1..Len(q) - k + 1 : b[i] = q[k + i - 1]
  OBVIOUS
<1>4. r = LinkAt(q, k, t)  BY Zenon DEF LinkAt
<1>. HIDE DEF a, b
<1>5. r \in Seq(T) /\ Len(r) = Len(q) + 1  BY <1>1, <1>2, <1>3
<1>6. \A i \in 1..Len(r) : r[i] = IF i < k THEN a[i] ELSE IF i = k THEN t ELSE b[i - k]
  BY <1>1, <1>2, <1>3
<1>7. ASSUME NEW i \in 1..Len(r), i > k PROVE b[i - k] = q[i - 1]
  <2>1. i - k \in 1..Len(q) - k + 1 /\ k + (i - k) - 1 = i - 1  BY <1>1, <1>5, <1>7
  <2>. QED  BY Zenon, <1>3, <2>1
<1>. HIDE DEF r
<1>8. \A i \in 1..Len(r) : r[i] = IF i < k THEN q[i] ELSE IF i = k THEN t ELSE q[i - 1]
  <2>. SUFFICES ASSUME NEW i \in 1..Len(r)
                PROVE  r[i] = IF i < k THEN q[i] ELSE IF i = k THEN t ELSE q[i - 1]
    BY Zenon
  <2>1. i \in Nat /\ i >= 1  BY <1>5
  <2>2. CASE i < k
    <3>1. i \in 1..k - 1  BY <1>1, <2>1, <2>2
    <3>. QED  BY Zenon, <1>2, <1>6, <2>2, <3>1
  <2>3. CASE i = k  BY <1>6, <2>3
  <2>4. CASE i > k  BY <1>1, <1>6, <1>7, <2>1, <2>4
  <2>. QED  BY <1>1, <2>1, <2>2, <2>3, <2>4
<1>. QED  BY Zenon, <1>4, <1>5, <1>8

\* a comes before b in the list.
Before(q, a, b) == \E i, j \in 1..Len(q) : i < j /\ q[i] = a /\ q[j] = b

LEMMA RangeFacts ==
    ASSUME NEW T, NEW q \in Seq(T)
    PROVE  /\ \A x : x \in Range(q) <=> \E i \in 1..Len(q) : q[i] = x
           /\ Range(q) \subseteq T
<1>1. DOMAIN q = 1..Len(q)  OBVIOUS
<1>. QED  BY <1>1 DEF Range

\* An insertion keeps the list in order and passes nobody by.
LEMMA InsertKeeps ==
    ASSUME NEW T, NEW prio \in [T -> Nat], NEW q, Queue(T, q, prio),
           NEW t \in T, t \notin Range(q), NEW p \in {prio[t], prio[t] + 1}
    PROVE  LET r == LinkAt(q, Place(q, prio, p), t)
           IN  /\ Queue(T, r, prio)
               /\ Range(r) = Range(q) \cup {t}
               /\ \A a, b : Before(q, a, b) => Before(r, a, b)
               /\ \A a \in Range(q) : prio[a] >= p => Before(r, a, t)
               /\ \A a \in Range(q) : prio[a] < p => Before(r, t, a)
<1>. DEFINE k == Place(q, prio, p)
            Shift(i) == IF i < k THEN i ELSE i + 1
<1>1. WellOrdered /\ q \in Seq(T) /\ Len(q) \in Nat /\ prio[t] \in Nat /\ p \in Nat  BY DEF Queue
<1>2. /\ k \in 1..Len(q) + 1
      /\ \A i \in 1..k - 1 : prio[q[i]] >= p
      /\ k <= Len(q) => prio[q[k]] < p
  BY Zenon, <1>1, PlaceFacts
<1>. HIDE DEF k
<1>3. PICK r : /\ r = LinkAt(q, k, t) /\ r \in Seq(T) /\ Len(r) = Len(q) + 1
               /\ \A i \in 1..Len(r) :
                    r[i] = IF i < k THEN q[i] ELSE IF i = k THEN t ELSE q[i - 1]
  <2>1. q \in Seq(T) /\ t \in T  BY Zenon, <1>1
  <2>2. k \in 1..Len(q) + 1  BY Zenon, <1>2
  <2>. QED  BY <2>1, <2>2, LinkFacts
<1>4. \A i \in 1..Len(q) : q[i] \in T /\ q[i] # t /\ prio[q[i]] \in Nat
  BY Zenon, <1>1, RangeFacts
<1>5. \A i \in 1..Len(q) : i >= k => prio[q[i]] < p
  <2>. SUFFICES ASSUME NEW i \in 1..Len(q), i >= k PROVE prio[q[i]] < p  BY Zenon
  <2>1. k \in 1..Len(q) /\ prio[q[k]] < p  BY <1>1, <1>2
  <2>2. i = k \/ prio[q[k]] >= prio[q[i]]  BY <1>1, <2>1 DEF Queue
  <2>. QED  BY <1>1, <1>4, <2>1, <2>2
<1>6. /\ \A i \in 1..Len(q) : Shift(i) \in 1..Len(r) /\ r[Shift(i)] = q[i]
      /\ \A i, j \in 1..Len(q) : i < j => Shift(i) < Shift(j)
      /\ k \in 1..Len(r) /\ r[k] = t
  <2>1. ASSUME NEW i \in 1..Len(q) PROVE Shift(i) \in 1..Len(r) /\ r[Shift(i)] = q[i]
    <3>1. CASE i < k  BY <1>1, <1>3, <3>1
    <3>2. CASE i >= k
      <4>1. Shift(i) = i + 1 /\ i + 1 \in 1..Len(r) /\ ~(i + 1 < k) /\ i + 1 # k /\ i + 1 - 1 = i
        BY <1>1, <1>2, <1>3, <3>2
      <4>. QED  BY <1>3, <4>1
    <3>. QED  BY <1>1, <1>2, <3>1, <3>2
  <2>2. \A i, j \in 1..Len(q) : i < j => Shift(i) < Shift(j)  BY <1>1, <1>2
  <2>3. k \in 1..Len(r) /\ r[k] = t  BY <1>1, <1>2, <1>3
  <2>. QED  BY Zenon, <2>1, <2>2, <2>3
<1>7. \A j \in 1..Len(r) : j = k \/ \E i \in 1..Len(q) : j = Shift(i)
  <2>. SUFFICES ASSUME NEW j \in 1..Len(r), j # k PROVE \E i \in 1..Len(q) : j = Shift(i)
    BY Zenon
  <2>1. CASE j < k
    <3>1. j \in 1..Len(q) /\ j = Shift(j)  BY <1>1, <1>2, <2>1
    <3>. QED  BY Zenon, <3>1
  <2>2. CASE j > k
    <3>1. j - 1 \in 1..Len(q) /\ j = Shift(j - 1)  BY <1>1, <1>2, <1>3, <2>2
    <3>. QED  BY Zenon, <3>1
  <2>. QED  BY <1>1, <1>2, <1>3, <2>1, <2>2
<1>8. \A i \in 1..Len(q) : /\ Shift(i) # k /\ Shift(i) \in Nat /\ k \in Nat
                           /\ Shift(i) < k <=> prio[q[i]] >= p
  <2>. SUFFICES ASSUME NEW i \in 1..Len(q)
                PROVE  /\ Shift(i) # k /\ Shift(i) \in Nat /\ k \in Nat
                       /\ Shift(i) < k <=> prio[q[i]] >= p
    BY Zenon
  <2>1. CASE i < k
    <3>1. i \in 1..k - 1 /\ Shift(i) = i  BY <1>1, <1>2, <2>1
    <3>. QED  BY <1>1, <1>2, <2>1, <3>1
  <2>2. CASE i >= k
    <3>1. prio[q[i]] < p /\ Shift(i) = i + 1  BY <1>1, <1>2, <1>5, <2>2
    <3>. QED  BY <1>1, <1>2, <1>4, <2>2, <3>1
  <2>. QED  BY <1>1, <1>2, <2>1, <2>2
<1>9. \A i, j \in 1..Len(q) : Shift(i) < Shift(j) => i < j
  BY <1>1, <1>2
<1>. HIDE DEF Shift
<1>10. ASSUME NEW i \in 1..Len(r), NEW j \in 1..Len(r), i < j
       PROVE  r[i] # r[j] /\ prio[r[i]] >= prio[r[j]]
  <2>1. i # j /\ i \in Nat /\ j \in Nat  BY <1>1, <1>3, <1>10
  <2>2. CASE i = k
    <3>1. PICK m \in 1..Len(q) : j = Shift(m)  BY Zenon, <1>7, <2>1, <2>2
    <3>2. r[i] = t /\ r[j] = q[m] /\ ~(prio[q[m]] >= p)
      BY <1>6, <1>8, <1>10, <2>1, <2>2, <3>1
    <3>. QED  BY <1>1, <1>4, <3>2
  <2>3. CASE j = k
    <3>1. PICK m \in 1..Len(q) : i = Shift(m)  BY Zenon, <1>7, <2>1, <2>3
    <3>2. r[j] = t /\ r[i] = q[m] /\ prio[q[m]] >= p
      BY Zenon, <1>6, <1>8, <1>10, <2>1, <2>3, <3>1
    <3>. QED  BY <1>1, <1>4, <3>2
  <2>4. CASE i # k /\ j # k
    <3>1. PICK m \in 1..Len(q) : i = Shift(m)  BY Zenon, <1>7, <2>4
    <3>2. PICK n \in 1..Len(q) : j = Shift(n)  BY Zenon, <1>7, <2>4
    <3>3. r[i] = q[m] /\ r[j] = q[n] /\ m < n /\ m # n
      <4>1. m < n  BY Zenon, <1>9, <1>10, <3>1, <3>2
      <4>2. m # n  BY <1>1, <4>1
      <4>. QED  BY Zenon, <1>6, <3>1, <3>2, <4>1, <4>2
    <3>. QED  BY Zenon, <3>3 DEF Queue
  <2>. QED  BY Zenon, <2>2, <2>3, <2>4
<1>11. Queue(T, r, prio)
  <2>1. ASSUME NEW i \in 1..Len(r), NEW j \in 1..Len(r), i # j PROVE r[i] # r[j]
    <3>1. i < j \/ j < i  BY <1>1, <1>3, <2>1
    <3>. QED  BY Zenon, <1>10, <3>1
  <2>. QED  BY Zenon, <1>3, <1>10, <2>1 DEF Queue
<1>12. Range(r) = Range(q) \cup {t}
  <2>1. \A x : x \in Range(r) <=> \E j \in 1..Len(r) : r[j] = x  BY <1>3, RangeFacts
  <2>2. \A x : x \in Range(q) <=> \E i \in 1..Len(q) : q[i] = x  BY Zenon, <1>1, RangeFacts
  <2>3. ASSUME NEW x \in Range(r) PROVE x \in Range(q) \cup {t}
    <3>1. PICK j \in 1..Len(r) : r[j] = x  BY Zenon, <2>1
    <3>. QED  BY Zenon, <1>6, <1>7, <2>2, <3>1
  <2>4. ASSUME NEW x \in Range(q) \cup {t} PROVE x \in Range(r)
    BY Zenon, <1>6, <2>1, <2>2
  <2>. QED  BY Zenon, <2>3, <2>4
<1>13. ASSUME NEW a, NEW b, Before(q, a, b) PROVE Before(r, a, b)
  <2>1. PICK i, j \in 1..Len(q) : i < j /\ q[i] = a /\ q[j] = b  BY Zenon, <1>13 DEF Before
  <2>2. /\ Shift(i) \in 1..Len(r) /\ Shift(j) \in 1..Len(r) /\ Shift(i) < Shift(j)
        /\ r[Shift(i)] = a /\ r[Shift(j)] = b
    BY Zenon, <1>6, <2>1
  <2>. QED  BY Zenon, <2>2 DEF Before
<1>14. ASSUME NEW a \in Range(q), prio[a] >= p PROVE Before(r, a, t)
  <2>1. PICK i \in 1..Len(q) : q[i] = a  BY Zenon, <1>1, RangeFacts
  <2>2. Shift(i) < k  BY Zenon, <1>8, <1>14, <2>1
  <2>. QED  BY Zenon, <1>6, <2>1, <2>2 DEF Before
<1>15. ASSUME NEW a \in Range(q), prio[a] < p PROVE Before(r, t, a)
  <2>1. PICK i \in 1..Len(q) : q[i] = a  BY Zenon, <1>1, RangeFacts
  <2>2. ~(prio[q[i]] >= p)  BY <1>1, <1>4, <1>15, <2>1
  <2>3. k < Shift(i)  BY <1>8, <2>2
  <2>. QED  BY Zenon, <1>6, <2>1, <2>3 DEF Before
<1>16. r = LinkAt(q, Place(q, prio, p), t)  BY Zenon, <1>3 DEF k
<1>. QED  BY <1>11, <1>12, <1>13, <1>14, <1>15, <1>16

\* r is q without what stands at k; new differs from prio for x at most.
Without(T, q, k, r) ==
    /\ k \in 1..Len(q) /\ r \in Seq(T) /\ Len(r) = Len(q) - 1
    /\ \A i \in 1..Len(r) : r[i] = IF i < k THEN q[i] ELSE q[i + 1]

SameBut(T, x, prio, new) == \A u \in T : u # x => new[u] = prio[u]

\* r is the list q without the thread x, by the priorities new.
Taken(T, q, x, new, r) ==
    /\ Queue(T, r, new)
    /\ Range(r) = Range(q) \ {x}
    /\ \A a, b : a # x /\ b # x /\ Before(q, a, b) => Before(r, a, b)

\* What is left when the thread at k is taken out, whatever its priority becomes.
LEMMA RemoveKeeps ==
    ASSUME NEW T, NEW prio, NEW q, Queue(T, q, prio), NEW k,
           NEW new, SameBut(T, q[k], prio, new), NEW r, Without(T, q, k, r)
    PROVE  Taken(T, q, q[k], new, r)
<1>. DEFINE Shift(i) == IF i < k THEN i ELSE i + 1
<1>1. q \in Seq(T) /\ Len(q) \in Nat /\ Len(r) \in Nat /\ k \in Nat /\ r \in Seq(T) /\ k \in 1..Len(q)  BY DEF Queue, Without
<1>. USE DEF Without
<1>2. ASSUME NEW i \in 1..Len(r)
      PROVE  /\ Shift(i) \in 1..Len(q) /\ Shift(i) # k /\ r[i] = q[Shift(i)]
             /\ r[i] # q[k] /\ r[i] \in T /\ new[r[i]] = prio[q[Shift(i)]]
  <2>1. /\ Shift(i) \in 1..Len(q) /\ Shift(i) # k /\ r[i] = q[Shift(i)]  BY <1>1
  <2>. HIDE DEF Shift
  <2>2. r[i] # q[k] /\ r[i] \in T  BY <1>1, <2>1 DEF Queue
  <2>. QED  BY Zenon, <2>1, <2>2 DEF SameBut
<1>3. \A i, j \in 1..Len(r) : i < j => Shift(i) < Shift(j) /\ Shift(i) # Shift(j)  BY <1>1
<1>4. ASSUME NEW n \in 1..Len(q), n # k PROVE \E i \in 1..Len(r) : n = Shift(i)
  <2>1. CASE n < k
    <3>1. n \in 1..Len(r) /\ n = Shift(n)  BY <1>1, <2>1
    <3>. QED  BY Zenon, <3>1
  <2>2. CASE n > k
    <3>1. n - 1 \in 1..Len(r) /\ n = Shift(n - 1)  BY <1>1, <2>2
    <3>. QED  BY Zenon, <3>1
  <2>. QED  BY <1>1, <1>4, <2>1, <2>2
<1>5. \A i, j \in 1..Len(r) : Shift(i) < Shift(j) => i < j  BY <1>1
<1>. HIDE DEF Shift, Without
<1>6. ASSUME NEW i \in 1..Len(r), NEW j \in 1..Len(r), i < j
      PROVE  r[i] # r[j] /\ new[r[i]] >= new[r[j]]
  <2>1. Shift(i) < Shift(j) /\ Shift(i) # Shift(j)  BY Zenon, <1>3, <1>6
  <2>2. /\ Shift(i) \in 1..Len(q) /\ r[i] = q[Shift(i)] /\ new[r[i]] = prio[q[Shift(i)]]
        /\ Shift(j) \in 1..Len(q) /\ r[j] = q[Shift(j)] /\ new[r[j]] = prio[q[Shift(j)]]
    BY Zenon, <1>2
  <2>3. q[Shift(i)] # q[Shift(j)] /\ prio[q[Shift(i)]] >= prio[q[Shift(j)]]
    BY Zenon, <2>1, <2>2 DEF Queue
  <2>. QED  BY Zenon, <2>2, <2>3
<1>7. Queue(T, r, new)
  <2>1. ASSUME NEW i \in 1..Len(r), NEW j \in 1..Len(r), i # j PROVE r[i] # r[j]
    <3>1. i < j \/ j < i  BY <1>1, <2>1
    <3>. QED  BY Zenon, <1>6, <3>1
  <2>. QED  BY Zenon, <1>1, <1>6, <2>1 DEF Queue
<1>8. Range(r) = Range(q) \ {q[k]}
  <2>1. \A x : x \in Range(r) <=> \E j \in 1..Len(r) : r[j] = x  BY Zenon, <1>1, RangeFacts
  <2>2. \A x : x \in Range(q) <=> \E i \in 1..Len(q) : q[i] = x  BY Zenon, <1>1, RangeFacts
  <2>3. ASSUME NEW x \in Range(r) PROVE x \in Range(q) \ {q[k]}
    <3>1. PICK j \in 1..Len(r) : r[j] = x  BY Zenon, <2>1
    <3>. QED  BY Zenon, <1>2, <2>2, <3>1
  <2>4. ASSUME NEW x \in Range(q), x # q[k] PROVE x \in Range(r)
    <3>1. PICK n \in 1..Len(q) : q[n] = x  BY Zenon, <2>2
    <3>2. PICK i \in 1..Len(r) : n = Shift(i)  BY Zenon, <1>4, <2>4, <3>1
    <3>. QED  BY Zenon, <1>2, <2>1, <3>1, <3>2
  <2>. QED  BY Zenon, <2>3, <2>4
<1>9. ASSUME NEW a, NEW b, a # q[k], b # q[k], Before(q, a, b) PROVE Before(r, a, b)
  <2>1. PICK m, n \in 1..Len(q) : m < n /\ q[m] = a /\ q[n] = b  BY Zenon, <1>9 DEF Before
  <2>2. PICK i \in 1..Len(r) : m = Shift(i)  BY Zenon, <1>4, <1>9, <2>1
  <2>3. PICK j \in 1..Len(r) : n = Shift(j)  BY Zenon, <1>4, <1>9, <2>1
  <2>4. i < j /\ r[i] = a /\ r[j] = b  BY Zenon, <1>2, <1>5, <2>1, <2>2, <2>3
  <2>. QED  BY Zenon, <2>4 DEF Before
<1>. QED  BY Zenon, <1>7, <1>8, <1>9 DEF Taken

LEMMA TailKeeps ==
    ASSUME NEW T, NEW prio, NEW q, Queue(T, q, prio), q # << >>
    PROVE  /\ Head(q) \in T /\ Head(q) \in Range(q)
           /\ Queue(T, Tail(q), prio)
           /\ Range(Tail(q)) = Range(q) \ {Head(q)}
           /\ \A a \in Range(q) : a = Head(q) \/ prio[Head(q)] >= prio[a]
           /\ \A a, b : a # Head(q) /\ Before(q, a, b) => Before(Tail(q), a, b)
           /\ \A a : ~Before(q, a, Head(q))
<1>. DEFINE r == Tail(q)
<1>1. q \in Seq(T) /\ Len(q) \in Nat /\ Len(q) > 0  BY DEF Queue
<1>2. Head(q) = q[1] /\ 1 \in 1..Len(q) /\ Head(q) \in T  BY <1>1
<1>3. r \in Seq(T) /\ Len(r) = Len(q) - 1 /\ \A i \in 1..Len(r) : r[i] = q[i + 1]  BY <1>1
<1>. HIDE DEF r
<1>4. \A i \in 1..Len(r) : r[i] = IF i < 1 THEN q[i] ELSE q[i + 1]  BY <1>1, <1>3
<1>5. /\ Queue(T, r, prio)
      /\ Range(r) = Range(q) \ {q[1]}
      /\ \A a, b : a # q[1] /\ b # q[1] /\ Before(q, a, b) => Before(r, a, b)
  <2>1. SameBut(T, q[1], prio, prio) /\ Without(T, q, 1, r)
    BY Zenon, <1>2, <1>3, <1>4 DEF SameBut, Without
  <2>2. Taken(T, q, q[1], prio, r)  BY <2>1, RemoveKeeps, Zenon
  <2>. QED  BY Zenon, <2>2 DEF Taken
<1>6. ASSUME NEW a, Before(q, a, q[1]) PROVE FALSE
  <2>1. PICK i, j \in 1..Len(q) : i < j /\ q[j] = q[1]  BY Zenon, <1>6 DEF Before
  <2>2. j # 1  BY <1>1, <2>1
  <2>. QED  BY Zenon, <1>2, <2>1, <2>2 DEF Queue
<1>7. ASSUME NEW a \in Range(q), a # q[1] PROVE prio[q[1]] >= prio[a]
  <2>1. PICK i \in 1..Len(q) : q[i] = a  BY Zenon, <1>1, RangeFacts
  <2>2. 1 < i  BY <1>1, <1>7, <2>1
  <2>. QED  BY Zenon, <1>2, <2>1, <2>2 DEF Queue
<1>8. q[1] \in Range(q)  BY Zenon, <1>1, <1>2, RangeFacts
<1>. QED  BY Zenon, <1>2, <1>5, <1>6, <1>7, <1>8 DEF r

LEMMA EndFacts ==
    ASSUME NEW T, NEW q \in Seq(T), NEW m \in 1..Len(q) + 1
    PROVE  LET b == SubSeq(q, m, Len(q))
           IN  /\ b \in Seq(T) /\ Len(b) = Len(q) - m + 1
               /\ \A i \in 1..Len(q) - m + 1 : b[i] = q[m + i - 1]
OBVIOUS

LEMMA ConcatFacts ==
    ASSUME NEW T, NEW a \in Seq(T), NEW b \in Seq(T)
    PROVE  /\ a \o b \in Seq(T) /\ Len(a \o b) = Len(a) + Len(b)
           /\ \A i \in 1..Len(a \o b) : (a \o b)[i] = IF i <= Len(a) THEN a[i] ELSE b[i - Len(a)]
OBVIOUS

LEMMA DequeueKeeps ==
    ASSUME NEW T, NEW prio, NEW q, Queue(T, q, prio), NEW t \in Range(q),
           NEW new, SameBut(T, t, prio, new)
    PROVE  Taken(T, q, t, new, Dequeue(q, t))
<1>1. q \in Seq(T) /\ Len(q) \in Nat /\ DOMAIN q = 1..Len(q)  BY DEF Queue
<1>2. PICK k : /\ k \in 1..Len(q) /\ q[k] = t
               /\ Dequeue(q, t) = SubSeq(q, 1, k - 1) \o SubSeq(q, k + 1, Len(q))
  <2>1. \E i \in DOMAIN q : q[i] = t  BY Zenon, <1>1, RangeFacts
  <2>. QED  BY Zenon, <1>1, <2>1 DEF Dequeue
<1>3. PICK a, b, r : /\ a = SubSeq(q, 1, k - 1) /\ b = SubSeq(q, k + 1, Len(q))
                     /\ r = a \o b /\ r = Dequeue(q, t)
  BY Zenon, <1>2
<1>4. a \in Seq(T) /\ Len(a) = k - 1 /\ \A i \in 1..k - 1 : a[i] = q[i]  BY <1>1, <1>2, <1>3
<1>5. /\ b \in Seq(T) /\ Len(b) = Len(q) - k
      /\ \A i \in 1..Len(q) - k : b[i] = q[k + 1 + i - 1]
  <2>1. k + 1 \in 1..Len(q) + 1 /\ Len(q) - (k + 1) + 1 = Len(q) - k  BY <1>1, <1>2
  <2>. QED  BY Zenon, <1>1, <1>3, <2>1, EndFacts
<1>6. /\ r \in Seq(T) /\ Len(r) = Len(a) + Len(b)
      /\ \A i \in 1..Len(r) : r[i] = IF i <= Len(a) THEN a[i] ELSE b[i - Len(a)]
  <2>1. a \in Seq(T) /\ b \in Seq(T) /\ r = a \o b  BY Zenon, <1>3, <1>4, <1>5
  <2>. QED  BY <2>1
<1>7. Len(a) = k - 1 /\ Len(b) = Len(q) - k /\ k \in Nat /\ Len(r) = Len(q) - 1
  BY <1>1, <1>2, <1>4, <1>5, <1>6
<1>8. ASSUME NEW i \in 1..Len(r) PROVE r[i] = IF i < k THEN q[i] ELSE q[i + 1]
  <2>1. i \in Nat /\ i >= 1 /\ i <= Len(q) - 1  BY <1>1, <1>7
  <2>2. CASE i < k
    <3>1. i \in 1..k - 1 /\ i <= Len(a)  BY <1>7, <2>1, <2>2
    <3>. QED  BY Zenon, <1>4, <1>6, <2>2, <3>1
  <2>3. CASE i >= k
    <3>1. i - k + 1 \in 1..Len(q) - k /\ k + 1 + (i - k + 1) - 1 = i + 1
      BY <1>1, <1>7, <2>1, <2>3
    <3>2. b[i - k + 1] = q[i + 1]  BY <1>5, <3>1
    <3>3. ~(i <= Len(a)) /\ i - Len(a) = i - k + 1 /\ ~(i < k)  BY <1>7, <2>1, <2>3
    <3>. QED  BY Zenon, <1>6, <3>2, <3>3
  <2>. QED  BY <1>7, <2>1, <2>2, <2>3
<1>9. Without(T, q, k, r)  BY Zenon, <1>2, <1>6, <1>7, <1>8 DEF Without
<1>10. SameBut(T, q[k], prio, new)  BY Zenon, <1>2
<1>11. Taken(T, q, q[k], new, r)  BY <1>9, <1>10, RemoveKeeps, Zenon
<1>. QED  BY Zenon, <1>2, <1>3, <1>11

-----------------------------------------------------------------------------
(* The scheduler, for any set T of threads.                                *)

Run == {"ready", "current"}

Sched(T) == [cur : T, ready : Seq(T), st : [T -> State], prio : [T -> Nat], real : [T -> Nat]]

\* The ready list holds exactly the ready threads, and one thread runs.
Books(T, s) ==
    /\ s \in Sched(T)
    /\ \A t \in T : s.st[t] = "current" <=> t = s.cur
    /\ \A t \in T : s.st[t] = "ready" <=> t \in Range(s.ready)
    /\ Queue(T, s.ready, s.prio)

\* Nothing that is ready has a higher priority than the running thread.
Topmost(s) == \A t \in Range(s.ready) : s.prio[t] <= s.prio[s.cur]

Class(s, t) == IF s.st[t] \in Run THEN "run" ELSE s.st[t]

\* The turn of a comes before that of b.
Leads(s, a, b) ==
    /\ b # s.cur
    /\ a # s.cur => a \in Range(s.ready) /\ (b \in Range(s.ready) => Before(s.ready, a, b))

\* No thread overtakes one of its own or of higher priority that can run.
NoOvertaking(T, s, n) ==
    \A a, b \in T :
        Leads(s, a, b) /\ s.prio[b] <= s.prio[a] /\ n.st[a] \in Run => Leads(n, a, b)

\* From s to n the books stay right, t changes to x, the others do not sleep or wake.
Step(T, s, n, t, x) ==
    /\ Books(T, n)
    /\ n.prio = s.prio /\ n.real = s.real
    /\ Class(n, t) = x
    /\ \A u \in T : u # t => Class(n, u) = Class(s, u)
    /\ NoOvertaking(T, s, n)

LEMMA BehindFacts ==
    ASSUME NEW T, NEW s, Books(T, s), NEW t \in T, s.st[t] \notin Run
    PROVE  LET n == ReadyBehind(s, t)
           IN  Step(T, s, n, t, "run") /\ n.cur = s.cur /\ Range(n.ready) = Range(s.ready) \cup {t}
<1>. DEFINE r == InsertBehind(s.ready, s.prio, t)
            n == ReadyBehind(s, t)
<1>1. /\ s \in Sched(T) /\ s.prio \in [T -> Nat] /\ s.prio[t] \in Nat
      /\ Queue(T, s.ready, s.prio) /\ t \notin Range(s.ready) /\ t # s.cur
  BY Zenon DEF Books, Sched, Run
<1>2. /\ Queue(T, r, s.prio)
      /\ Range(r) = Range(s.ready) \cup {t}
      /\ \A a, b : Before(s.ready, a, b) => Before(r, a, b)
      /\ \A a \in Range(s.ready) : s.prio[a] >= s.prio[t] => Before(r, a, t)
  BY <1>1, InsertKeeps DEF InsertBehind
<1>3. r \in Seq(T)  BY Zenon, <1>2 DEF Queue
<1>4. n = [s EXCEPT !.st[t] = "ready", !.ready = r]  BY Zenon DEF ReadyBehind
<1>. HIDE DEF r, n
<1>5. /\ n \in Sched(T) /\ n.cur = s.cur /\ n.ready = r /\ n.prio = s.prio /\ n.real = s.real
      /\ n.st[t] = "ready" /\ \A u \in T : u # t => n.st[u] = s.st[u]
  BY Zenon, <1>1, <1>3, <1>4 DEF Sched, State
<1>6. Books(T, n)  BY Zenon, <1>1, <1>2, <1>5 DEF Books
<1>7. Class(n, t) = "run" /\ \A u \in T : u # t => Class(n, u) = Class(s, u)
  BY Zenon, <1>5 DEF Class, Run
<1>8. ASSUME NEW a \in T, NEW b \in T, Leads(s, a, b), s.prio[b] <= s.prio[a]
      PROVE  Leads(n, a, b)
  <2>1. a # s.cur => a \in Range(r)  BY Zenon, <1>2, <1>8 DEF Leads
  <2>2. ASSUME a # s.cur, b \in Range(r) PROVE Before(r, a, b)
    <3>1. CASE b = t  BY Zenon, <1>1, <1>2, <1>8, <2>2, <3>1 DEF Leads
    <3>2. CASE b # t  BY Zenon, <1>2, <1>8, <2>2, <3>2 DEF Leads
    <3>. QED  BY Zenon, <3>1, <3>2
  <2>. QED  BY Zenon, <1>5, <1>8, <2>1, <2>2 DEF Leads
<1>9. NoOvertaking(T, s, n)  BY Zenon, <1>8 DEF NoOvertaking
<1>. QED  BY Zenon, <1>2, <1>5, <1>6, <1>7, <1>9 DEF Step, n

\* chSchGoSleepS.
LEMMA SleepFacts ==
    ASSUME NEW T, NEW s, Books(T, s), s.ready # << >>, NEW x \in State \ Run
    PROVE  LET n == GoSleep(s, x) IN Step(T, s, n, s.cur, x) /\ Topmost(n)
<1>. DEFINE q == s.ready
            h == Head(s.ready)
            n == GoSleep(s, x)
<1>1. /\ s \in Sched(T) /\ s.prio \in [T -> Nat] /\ s.cur \in T /\ s.st \in [T -> State]
      /\ Queue(T, q, s.prio) /\ s.cur \notin Range(q)
  BY Zenon DEF Books, Sched
<1>2. /\ h \in T /\ h \in Range(q)
      /\ Queue(T, Tail(q), s.prio)
      /\ Range(Tail(q)) = Range(q) \ {h}
      /\ \A a \in Range(q) : a = h \/ s.prio[h] >= s.prio[a]
      /\ \A a, b : a # h /\ Before(q, a, b) => Before(Tail(q), a, b)
      /\ \A a : ~Before(q, a, h)
  BY Zenon, <1>1, TailKeeps
<1>3. h # s.cur /\ Tail(q) \in Seq(T) /\ Range(q) \subseteq T
  BY Zenon, <1>1, <1>2, RangeFacts DEF Queue
<1>4. /\ n \in Sched(T) /\ n.cur = h /\ n.ready = Tail(q) /\ n.prio = s.prio /\ n.real = s.real
      /\ n.st[s.cur] = x /\ n.st[h] = "current"
      /\ \A u \in T : u # s.cur /\ u # h => n.st[u] = s.st[u]
  <2>1. n = [[s EXCEPT !.st[s.cur] = x] EXCEPT !.cur = h, !.st[h] = "current", !.ready = Tail(q)]
    BY Zenon, <1>1 DEF GoSleep, TakeHighest, Sched
  <2>. HIDE DEF h, n, q
  <2>. QED  BY Zenon, <1>1, <1>2, <1>3, <2>1 DEF Sched, State
<1>. HIDE DEF n, h, q
<1>5. x \notin Run /\ x # "current" /\ x # "ready"  BY Zenon DEF Run
<1>6. \A u \in T : n.st[u] = "current" <=> u = h
  BY <1>1, <1>3, <1>4, <1>5 DEF Books
<1>7. \A u \in T : n.st[u] = "ready" <=> u \in Range(Tail(q))
  BY Zenon, <1>1, <1>2, <1>3, <1>4, <1>5 DEF Books, q
<1>8. Books(T, n)  BY Zenon, <1>1, <1>2, <1>4, <1>6, <1>7 DEF Books
<1>9. s.st[h] = "ready"  BY Zenon, <1>2 DEF Books, q
<1>10. /\ Class(n, s.cur) = x
       /\ \A u \in T : u # s.cur => Class(n, u) = Class(s, u)
  BY Zenon, <1>4, <1>5, <1>9 DEF Class, Run
<1>11. Topmost(n)  BY Zenon, <1>2, <1>4 DEF Topmost
<1>12. ASSUME NEW a \in T, NEW b \in T, Leads(s, a, b), n.st[a] \in Run
       PROVE  Leads(n, a, b)
  <2>1. a # s.cur  BY Zenon, <1>4, <1>5, <1>12
  <2>2. a \in Range(q) /\ (b \in Range(q) => Before(q, a, b))  BY Zenon, <1>12, <2>1 DEF Leads, q
  <2>3. b # h  BY Zenon, <1>2, <2>2
  <2>. QED  BY <1>2, <1>4, <2>2, <2>3 DEF Leads
<1>13. NoOvertaking(T, s, n)  BY Zenon, <1>12 DEF NoOvertaking
<1>. QED  BY Zenon, <1>4, <1>8, <1>10, <1>11, <1>13 DEF Step, n

\* The thread h can take the place of the running one, which goes back to the list q.
CanSwitch(T, s, q, h) ==
    /\ s \in Sched(T) /\ Queue(T, q, s.prio) /\ s.cur \notin Range(q)
    /\ h \in T /\ h # s.cur /\ h \notin Range(q)
    /\ \A t \in T : s.st[t] = "current" <=> t = s.cur
    /\ \A t \in T : t # h => (s.st[t] = "ready" <=> t \in Range(q))

SwitchTo(s, q, h) ==
    [s EXCEPT !.cur = h, !.ready = InsertAhead(q, s.prio, s.cur),
              !.st = [s.st EXCEPT ![h] = "current", ![s.cur] = "ready"]]

\* It goes ahead of its peers.
Switched(T, s, q, h, n) ==
    /\ Books(T, n) /\ n.prio = s.prio /\ n.real = s.real /\ n.cur = h
    /\ Range(n.ready) = Range(q) \cup {s.cur}
    /\ Class(n, h) = "run"
    /\ \A u \in T : u # h => Class(n, u) = Class(s, u)
    /\ \A a, b : Before(q, a, b) => Before(n.ready, a, b)
    /\ \A a \in Range(q) : s.prio[a] <= s.prio[s.cur] => Before(n.ready, s.cur, a)

LEMMA SwitchFacts ==
    ASSUME NEW T, NEW s, NEW q, NEW h, CanSwitch(T, s, q, h)
    PROVE  Switched(T, s, q, h, SwitchTo(s, q, h))
<1>. DEFINE r == InsertAhead(q, s.prio, s.cur)
            p == s.prio[s.cur] + 1
            g == [s.st EXCEPT ![h] = "current", ![s.cur] = "ready"]
            n == SwitchTo(s, q, h)
<1>. USE DEF CanSwitch
<1>1. /\ s \in Sched(T) /\ s.prio \in [T -> Nat] /\ s.cur \in T /\ s.prio[s.cur] \in Nat /\ s.st \in [T -> State]
      /\ p \in {s.prio[s.cur], s.prio[s.cur] + 1}
  BY Zenon DEF Sched
<1>2. /\ Queue(T, r, s.prio)
      /\ Range(r) = Range(q) \cup {s.cur}
      /\ \A a, b : Before(q, a, b) => Before(r, a, b)
      /\ \A a \in Range(q) : s.prio[a] < p => Before(r, s.cur, a)
  <2>1. r = LinkAt(q, Place(q, s.prio, p), s.cur)  BY Zenon DEF InsertAhead
  <2>. HIDE DEF r
  <2>. QED  BY <1>1, <2>1, InsertKeeps
<1>3. r \in Seq(T) /\ Range(q) \subseteq T  BY Zenon, <1>2, RangeFacts DEF Queue
<1>4. \A a \in Range(q) : s.prio[a] <= s.prio[s.cur] => Before(r, s.cur, a)
  <2>1. \A a \in T : s.prio[a] \in Nat  BY Zenon, <1>1
  <2>. QED  BY <1>1, <1>2, <1>3, <2>1
<1>. HIDE DEF r
<1>5. /\ n \in Sched(T) /\ n.cur = h /\ n.ready = r /\ n.prio = s.prio /\ n.real = s.real
      /\ n.st[h] = "current" /\ n.st[s.cur] = "ready"
      /\ \A u \in T : u # h /\ u # s.cur => n.st[u] = s.st[u]
  <2>1. n = [s EXCEPT !.cur = h, !.ready = r, !.st = g]  BY Zenon DEF r, SwitchTo
  <2>2. /\ g \in [T -> State] /\ g[h] = "current" /\ g[s.cur] = "ready"
        /\ \A u \in T : u # h /\ u # s.cur => g[u] = s.st[u]
    BY Zenon, <1>1 DEF State
  <2>. HIDE DEF n, g
  <2>3. n \in Sched(T) /\ n.cur = h /\ n.ready = r /\ n.prio = s.prio /\ n.real = s.real /\ n.st = g
    BY Zenon, <1>1, <1>3, <2>1, <2>2 DEF Sched
  <2>. QED  BY Zenon, <2>2, <2>3
<1>. HIDE DEF n
<1>6. Books(T, n)
  <2>1. \A u \in T : n.st[u] = "current" <=> u = h  BY <1>1, <1>5
  <2>2. \A u \in T : n.st[u] = "ready" <=> u \in Range(r)  BY Zenon, <1>1, <1>2, <1>5
  <2>. QED  BY Zenon, <1>2, <1>5, <2>1, <2>2 DEF Books
<1>7. Class(n, h) = "run" /\ \A u \in T : u # h => Class(n, u) = Class(s, u)
  <2>1. s.st[s.cur] = "current"  BY Zenon, <1>1
  <2>. QED  BY Zenon, <1>5, <2>1 DEF Class, Run
<1>. QED  BY Zenon, <1>2, <1>4, <1>5, <1>6, <1>7 DEF Switched, n

\* chSchRescheduleS.
LEMMA RescheduleFacts ==
    ASSUME NEW T, NEW s, Books(T, s)
    PROVE  LET n == Reschedule(s)
           IN  Topmost(n) /\ \A t \in T : Step(T, s, n, t, Class(s, t))
<1>. DEFINE q == s.ready
            h == Head(s.ready)
            n == Reschedule(s)
<1>1. /\ s \in Sched(T) /\ s.prio \in [T -> Nat] /\ s.cur \in T /\ s.st \in [T -> State]
      /\ Queue(T, q, s.prio) /\ s.cur \notin Range(q) /\ Range(q) \subseteq T
  BY Zenon, RangeFacts DEF Books, Sched, Queue
<1>2. CASE ~(q # <<>> /\ s.prio[h] > s.prio[s.cur])
  <2>1. n = s  BY Zenon, <1>2 DEF Reschedule
  <2>2. Topmost(s)
    <3>1. CASE q = << >>  BY <3>1 DEF Topmost, Range
    <3>2. CASE q # << >>
      <4>1. h \in T /\ \A a \in Range(q) : a = h \/ s.prio[h] >= s.prio[a]
        BY Zenon, <1>1, <3>2, TailKeeps
      <4>2. s.prio[h] <= s.prio[s.cur] /\ \A a \in T : s.prio[a] \in Nat  BY <1>1, <1>2, <3>2, <4>1
      <4>. QED  BY <1>1, <4>1, <4>2 DEF Topmost
    <3>. QED  BY Zenon, <3>1, <3>2
  <2>3. NoOvertaking(T, s, s)  BY Zenon DEF NoOvertaking
  <2>. HIDE DEF n
  <2>. QED  BY Zenon, <2>1, <2>2, <2>3 DEF Step, n
<1>3. CASE q # <<>> /\ s.prio[h] > s.prio[s.cur]
  <2>1. /\ h \in T /\ h \in Range(q)
        /\ Queue(T, Tail(q), s.prio)
        /\ Range(Tail(q)) = Range(q) \ {h}
        /\ \A a \in Range(q) : a = h \/ s.prio[h] >= s.prio[a]
        /\ \A a, b : a # h /\ Before(q, a, b) => Before(Tail(q), a, b)
        /\ \A a : ~Before(q, a, h)
    BY Zenon, <1>1, <1>3, TailKeeps
  <2>2. h # s.cur /\ s.st[h] = "ready"  BY Zenon, <1>1, <2>1 DEF Books
  <2>3. n = SwitchTo(s, Tail(q), h)
    <3>1. n = ReadyAhead(TakeHighest(s), s.cur)  BY Zenon, <1>3 DEF Reschedule
    <3>2. TakeHighest(s) = [s EXCEPT !.cur = h, !.ready = Tail(q), !.st = [s.st EXCEPT ![h] = "current"]]
      BY Zenon, <1>1, <2>1 DEF TakeHighest, Sched
    <3>. DEFINE m == TakeHighest(s)
    <3>. HIDE DEF m
    <3>3. /\ m.prio = s.prio /\ m.ready = Tail(q) /\ m.st = [s.st EXCEPT ![h] = "current"]
          /\ m.cur = h /\ m.real = s.real
          /\ m = [cur |-> m.cur, ready |-> m.ready, st |-> m.st, prio |-> m.prio, real |-> m.real]
      BY Zenon, <1>1, <3>2 DEF m, Sched
    <3>4. n = [m EXCEPT !.st[s.cur] = "ready", !.ready = InsertAhead(Tail(q), s.prio, s.cur)]
      BY Zenon, <3>1, <3>3 DEF m, ReadyAhead
    <3>. HIDE DEF n, h, q
    <3>. QED  BY Zenon, <1>1, <3>3, <3>4 DEF Sched, SwitchTo
  <2>. HIDE DEF n, h, q
  <2>4. \A t \in T : s.st[t] = "current" <=> t = s.cur  BY Zenon DEF Books
  <2>5. \A t \in T : t # h => (s.st[t] = "ready" <=> t \in Range(Tail(q)))
    BY Zenon, <2>1 DEF Books, q
  <2>6. CanSwitch(T, s, Tail(q), h)  BY Zenon, <1>1, <2>1, <2>2, <2>4, <2>5 DEF CanSwitch
  <2>7. /\ Books(T, n) /\ n.prio = s.prio /\ n.real = s.real /\ n.cur = h
        /\ Range(n.ready) = Range(Tail(q)) \cup {s.cur}
        /\ Class(n, h) = "run"
        /\ \A u \in T : u # h => Class(n, u) = Class(s, u)
        /\ \A a, b : Before(Tail(q), a, b) => Before(n.ready, a, b)
        /\ \A a \in Range(Tail(q)) : s.prio[a] <= s.prio[s.cur] => Before(n.ready, s.cur, a)
    <3>1. Switched(T, s, Tail(q), h, n)  BY <2>3, <2>6, SwitchFacts, Zenon
    <3>. QED  BY Zenon, <3>1 DEF Switched
  <2>8. Topmost(n)
    <3>1. \A a \in T : s.prio[a] \in Nat  BY Zenon, <1>1
    <3>. QED  BY <1>1, <1>3, <2>1, <2>7, <3>1 DEF Topmost
  <2>9. ASSUME NEW a \in T, NEW b \in T, Leads(s, a, b), s.prio[b] <= s.prio[a]
        PROVE  Leads(n, a, b)
    <3>1. \A t \in T : s.prio[t] \in Nat  BY Zenon, <1>1
    <3>2. b # s.cur /\ (a # s.cur => a \in Range(q) /\ (b \in Range(q) => Before(q, a, b)))
      BY Zenon, <2>9 DEF Leads, q
    <3>3. b # h
      <4>1. CASE a = s.cur  BY <1>3, <2>1, <2>9, <3>1, <4>1
      <4>2. CASE a # s.cur  BY Zenon, <2>1, <3>2, <4>2
      <4>. QED  BY Zenon, <4>1, <4>2
    <3>4. ASSUME a # h PROVE a \in Range(n.ready)  BY Zenon, <2>1, <2>7, <3>2, <3>4
    <3>5. ASSUME a # h, b \in Range(n.ready) PROVE Before(n.ready, a, b)
      <4>1. b \in Range(Tail(q)) /\ b \in Range(q)  BY Zenon, <2>1, <2>7, <3>2, <3>5
      <4>2. CASE a = s.cur  BY Zenon, <2>7, <2>9, <4>1, <4>2
      <4>3. CASE a # s.cur  BY Zenon, <2>1, <2>7, <3>2, <3>5, <4>1, <4>3
      <4>. QED  BY Zenon, <4>2, <4>3
    <3>. QED  BY Zenon, <2>7, <3>3, <3>4, <3>5 DEF Leads
  <2>10. NoOvertaking(T, s, n)  BY Zenon, <2>9 DEF NoOvertaking
  <2>11. \A t \in T : Class(n, t) = Class(s, t)  BY Zenon, <2>2, <2>7 DEF Class, Run
  <2>. QED  BY Zenon, <2>7, <2>8, <2>10, <2>11 DEF Step, n
<1>. QED  BY Zenon, <1>2, <1>3

LEMMA ClassFacts ==
    ASSUME NEW T, NEW s \in Sched(T), NEW t \in T
    PROVE  /\ Class(s, t) = "run" <=> s.st[t] \in Run
           /\ \A x \in State \ Run : Class(s, t) = x <=> s.st[t] = x
BY Zenon DEF Class, Sched, State, Waiting, Run

\* One step after another.
LEMMA TwoSteps ==
    ASSUME NEW T, NEW s, NEW m, NEW n, NEW t \in T, NEW x, Books(T, s),
           Step(T, s, m, t, x), \A u \in T : Step(T, m, n, u, Class(m, u))
    PROVE  Step(T, s, n, t, x)
<1>1. \A u \in T : Class(n, u) = Class(m, u)  BY Zenon DEF Step
<1>2. Books(T, n) /\ n.prio = m.prio /\ n.real = m.real /\ NoOvertaking(T, m, n)  BY Zenon DEF Step
<1>3. ASSUME NEW a \in T, NEW b \in T, Leads(s, a, b), s.prio[b] <= s.prio[a], n.st[a] \in Run
      PROVE  Leads(n, a, b)
  <2>1. m.st[a] \in Run
    <3>1. m \in Sched(T) /\ n \in Sched(T)  BY Zenon, <1>2 DEF Step, Books
    <3>. QED  BY <1>1, <1>3, <3>1, ClassFacts
  <2>2. Leads(m, a, b) /\ m.prio = s.prio  BY Zenon, <1>3, <2>1 DEF Step, NoOvertaking
  <2>. QED  BY Zenon, <1>2, <1>3, <2>2 DEF NoOvertaking
<1>4. NoOvertaking(T, s, n)  BY Zenon, <1>3 DEF NoOvertaking
<1>. QED  BY Zenon, <1>1, <1>2, <1>4 DEF Step

\* An interrupt that makes t ready.
LEMMA ReadyRescheduleFacts ==
    ASSUME NEW T, NEW s, Books(T, s), NEW t \in T, s.st[t] \notin Run
    PROVE  LET n == Reschedule(ReadyBehind(s, t)) IN Step(T, s, n, t, "run") /\ Topmost(n)
<1>. DEFINE m == ReadyBehind(s, t)
            n == Reschedule(m)
<1>1. Step(T, s, m, t, "run")  BY Zenon, BehindFacts
<1>2. Books(T, m)  BY Zenon, <1>1 DEF Step
<1>. HIDE DEF m
<1>3. Topmost(n) /\ \A u \in T : Step(T, m, n, u, Class(m, u))  BY Zenon, <1>2, RescheduleFacts
<1>. HIDE DEF n
<1>4. Step(T, s, n, t, "run")  BY Zenon, <1>1, <1>3, TwoSteps
<1>. QED  BY Zenon, <1>3, <1>4 DEF n, m

\* chSchWakeupS.
LEMMA WakeupFacts ==
    ASSUME NEW T, NEW s, Books(T, s), Topmost(s), NEW t \in T, s.st[t] \notin Run
    PROVE  LET n == Wakeup(s, t) IN Step(T, s, n, t, "run") /\ Topmost(n)
<1>. DEFINE n == Wakeup(s, t)
            q == s.ready
<1>1. /\ s \in Sched(T) /\ s.prio \in [T -> Nat] /\ s.cur \in T /\ s.st \in [T -> State]
      /\ Queue(T, q, s.prio) /\ s.cur \notin Range(q) /\ Range(q) \subseteq T
      /\ t \notin Range(q) /\ t # s.cur
  BY Zenon, RangeFacts DEF Books, Sched, Queue, Run
<1>2. \A u \in T : s.prio[u] \in Nat  BY Zenon, <1>1
<1>3. CASE s.prio[t] <= s.prio[s.cur]
  <2>1. n = ReadyBehind(s, t)  BY Zenon, <1>3 DEF Wakeup
  <2>2. Step(T, s, n, t, "run") /\ n.cur = s.cur /\ Range(n.ready) = Range(s.ready) \cup {t}
    BY <2>1, BehindFacts
  <2>. HIDE DEF n
  <2>3. Topmost(n)  BY Zenon, <1>3, <2>2 DEF Topmost, Step
  <2>. QED  BY Zenon, <2>2, <2>3 DEF n
<1>4. CASE s.prio[t] > s.prio[s.cur]
  <2>1. n = SwitchTo(s, q, t)
    <3>. DEFINE r == InsertAhead(q, s.prio, s.cur)
                m == ReadyAhead(s, s.cur)
    <3>1. ~(s.prio[t] <= s.prio[s.cur])  BY <1>1, <1>2, <1>4
    <3>2. n = [m EXCEPT !.cur = t, !.st[t] = "current"]  BY Zenon, <3>1 DEF Wakeup
    <3>3. m = [s EXCEPT !.st[s.cur] = "ready", !.ready = r]  BY Zenon DEF ReadyAhead
    <3>. HIDE DEF n, r, m
    <3>4. /\ m.cur = s.cur /\ m.prio = s.prio /\ m.real = s.real /\ m.ready = r
          /\ m.st = [s.st EXCEPT ![s.cur] = "ready"]
          /\ m = [cur |-> m.cur, ready |-> m.ready, st |-> m.st, prio |-> m.prio, real |-> m.real]
      BY Zenon, <1>1, <3>3 DEF Sched
    <3>. DEFINE g == [s.st EXCEPT ![t] = "current", ![s.cur] = "ready"]
    <3>5. [m.st EXCEPT ![t] = "current"] = g  BY Zenon, <1>1, <3>4
    <3>6. SwitchTo(s, q, t) = [s EXCEPT !.cur = t, !.ready = r, !.st = g]  BY Zenon DEF SwitchTo, r
    <3>7. n = [m EXCEPT !.cur = t, !.st = g]  BY Zenon, <3>2, <3>5
    <3>. HIDE DEF g
    <3>. DEFINE R == [cur : {t}, ready : {r}, st : {g}, prio : {s.prio}, real : {s.real}]
    <3>8. SwitchTo(s, q, t) \in R
      <4>1. [s EXCEPT !.cur = t, !.ready = r, !.st = g] \in R  BY Zenon, <1>1 DEF Sched
      <4>. QED  BY Zenon, <3>6, <4>1
    <3>9. n \in R
      <4>1. [m EXCEPT !.cur = t, !.st = g] \in R  BY Zenon, <3>4
      <4>. QED  BY Zenon, <3>7, <4>1
    <3>. QED  BY <3>8, <3>9
  <2>2. CanSwitch(T, s, q, t)  BY Zenon, <1>1 DEF CanSwitch, Books
  <2>3. Switched(T, s, q, t, n)  BY Zenon, <2>1, <2>2, SwitchFacts
  <2>. HIDE DEF n
  <2>4. Topmost(n)  BY <1>1, <1>2, <1>4, <2>3 DEF Topmost, Switched
  <2>5. ASSUME NEW a \in T, NEW b \in T, Leads(s, a, b), s.prio[b] <= s.prio[a]
        PROVE  Leads(n, a, b)
    <3>1. b # s.cur /\ (a # s.cur => a \in Range(q) /\ (b \in Range(q) => Before(q, a, b)))
      BY Zenon, <2>5 DEF Leads
    <3>2. a # t /\ s.prio[a] <= s.prio[s.cur]
      BY <1>1, <1>2, <3>1 DEF Topmost
    <3>3. b # t  BY <1>1, <1>2, <1>4, <2>5, <3>2
    <3>4. n.cur = t /\ Range(n.ready) = Range(q) \cup {s.cur}  BY Zenon, <2>3 DEF Switched
    <3>5. ASSUME b \in Range(n.ready) PROVE Before(n.ready, a, b)
      <4>1. b \in Range(q)  BY Zenon, <3>1, <3>4, <3>5
      <4>2. CASE a = s.cur  BY Zenon, <2>3, <2>5, <4>1, <4>2 DEF Switched
      <4>3. CASE a # s.cur  BY Zenon, <2>3, <3>1, <4>1, <4>3 DEF Switched
      <4>. QED  BY Zenon, <4>2, <4>3
    <3>. QED  BY Zenon, <3>1, <3>2, <3>3, <3>4, <3>5 DEF Leads
  <2>6. NoOvertaking(T, s, n)  BY Zenon, <2>5 DEF NoOvertaking
  <2>. QED  BY Zenon, <2>3, <2>4, <2>6 DEF Step, Switched, n
<1>. QED  BY <1>1, <1>2, <1>3, <1>4

\* n is s with other priorities of t.
Repriced(T, s, t, p, r, n) ==
    /\ Books(T, n) /\ n.cur = s.cur /\ n.ready = s.ready /\ n.st = s.st
    /\ n.prio = [s.prio EXCEPT ![t] = p] /\ n.real = [s.real EXCEPT ![t] = r]

\* New priorities of a thread outside the ready list.
LEMMA PrioFacts ==
    ASSUME NEW T, NEW s, Books(T, s), NEW t \in T, t \notin Range(s.ready),
           NEW p \in Nat, NEW r \in Nat
    PROVE  Repriced(T, s, t, p, r, [s EXCEPT !.prio[t] = p, !.real[t] = r])
<1>. DEFINE n == [s EXCEPT !.prio[t] = p, !.real[t] = r]
<1>1. s \in Sched(T) /\ Queue(T, s.ready, s.prio)  BY Zenon DEF Books
<1>2. /\ n \in Sched(T) /\ n.cur = s.cur /\ n.ready = s.ready /\ n.st = s.st
      /\ n.prio = [s.prio EXCEPT ![t] = p] /\ n.real = [s.real EXCEPT ![t] = r]
  BY Zenon, <1>1 DEF Sched
<1>. HIDE DEF n
<1>3. s.ready \in Seq(T) /\ s.prio \in [T -> Nat]  BY Zenon, <1>1 DEF Sched
<1>4. \A u \in T : u # t => n.prio[u] = s.prio[u]  BY Zenon, <1>2, <1>3
<1>5. \A i \in 1..Len(s.ready) : s.ready[i] # t /\ s.ready[i] \in T /\ s.ready[i] \in Range(s.ready)
  BY Zenon, <1>3, RangeFacts
<1>6. Queue(T, s.ready, n.prio)  BY Zenon, <1>1, <1>4, <1>5 DEF Queue
<1>7. Books(T, n)  BY Zenon, <1>2, <1>6 DEF Books
<1>. QED  BY Zenon, <1>2, <1>7 DEF n, Repriced

LEMMA OvertakingComposes ==
    ASSUME NEW T, NEW s, NEW m, NEW n, Books(T, s), m.prio = s.prio,
           NoOvertaking(T, s, m), NoOvertaking(T, m, n),
           \A a \in T : s.st[a] \in Run /\ n.st[a] \in Run => m.st[a] \in Run
    PROVE  NoOvertaking(T, s, n)
<1>1. ASSUME NEW a \in T, NEW b \in T, Leads(s, a, b), s.prio[b] <= s.prio[a], n.st[a] \in Run
      PROVE  Leads(n, a, b)
  <2>1. s.st[a] \in Run  BY Zenon, <1>1 DEF Leads, Books, Run
  <2>. QED  BY Zenon, <1>1, <2>1 DEF NoOvertaking
<1>. QED  BY Zenon, <1>1 DEF NoOvertaking

\* chEvtBroadcastFlagsI walks the list: the value of the recursive function.
WakeBody(s, l, f, i) ==
    IF i = 0 THEN s
    ELSE LET t == l[i]
             w == f[i - 1]
         IN IF w.st[t] = "wtevt" THEN ReadyBehind(w, t) ELSE w

LEMMA Predecessor ==
    ASSUME NEW m \in Nat, m - 1 \in Nat, NEW i \in 0..m
    PROVE  i = 0 \/ (i - 1 \in 0..m - 1 /\ i - 1 \in 0..m /\ i - 1 # m)
OBVIOUS

LEMMA WalkExists ==
    ASSUME WellOrdered, NEW s, NEW l, NEW L \in Nat
    PROVE  \E f : f = [i \in 0..L |-> WakeBody(s, l, f, i)]
<1>. DEFINE Bad == {m \in Nat : ~\E f : f = [i \in 0..m |-> WakeBody(s, l, f, i)]}
<1>. SUFFICES Bad = {}  BY Zenon
<1>. SUFFICES ASSUME Bad # {} PROVE FALSE  BY Zenon
<1>1. PICK m \in Bad : \A n \in Bad : m <= n  BY Zenon DEF WellOrdered
<1>2. m # 0
  <2>. DEFINE f == [i \in 0..0 |-> s]
  <2>1. f = [i \in 0..0 |-> WakeBody(s, l, f, i)]  BY DEF WakeBody
  <2>. QED  BY Zenon, <1>1, <2>1
<1>3. m \in Nat /\ m - 1 \in Nat /\ m - 1 \notin Bad  BY <1>1, <1>2
<1>4. PICK f : f = [i \in 0..m - 1 |-> WakeBody(s, l, f, i)]  BY Zenon, <1>3
<1>. DEFINE g == [i \in 0..m |-> IF i = m THEN WakeBody(s, l, f, m) ELSE f[i]]
<1>5. ASSUME NEW i \in 0..m PROVE g[i] = WakeBody(s, l, g, i)
  <2>1. i = 0 \/ (i - 1 \in 0..m - 1 /\ i - 1 # m /\ g[i - 1] = f[i - 1])
    <3>. HIDE DEF g, Bad
    <3>1. i = 0 \/ (i - 1 \in 0..m - 1 /\ i - 1 \in 0..m /\ i - 1 # m)  BY Zenon, <1>3, Predecessor
    <3>. QED  BY Zenon, <3>1 DEF g
  <2>2. WakeBody(s, l, g, i) = WakeBody(s, l, f, i)  BY <2>1 DEF WakeBody
  <2>3. CASE i = m  BY Zenon, <2>2, <2>3
  <2>4. CASE i # m
    <3>1. i \in 0..m - 1  BY <1>3, <2>4
    <3>2. f[i] = WakeBody(s, l, f, i)  BY Zenon, <1>4, <3>1
    <3>. QED  BY Zenon, <2>2, <2>4, <3>2
  <2>. QED  BY Zenon, <2>3, <2>4
<1>6. g = [i \in 0..m |-> WakeBody(s, l, g, i)]
  <2>1. g = [i \in 0..m |-> g[i]]  BY Zenon
  <2>. HIDE DEF g
  <2>. QED  BY Zenon, <1>5, <2>1
<1>. QED  BY Zenon, <1>1, <1>6

\* w is s after the first k listeners of the list l were signalled.
Woken(T, s, l, k, w) ==
    /\ Books(T, w) /\ w.prio = s.prio /\ w.real = s.real /\ w.cur = s.cur
    /\ NoOvertaking(T, s, w)
    /\ \A u \in T : Class(w, u) = IF s.st[u] = "wtevt" /\ \E j \in 1..k : l[j] = u
                                     THEN "run" ELSE Class(s, u)

LEMMA SignalFacts ==
    ASSUME NEW T, NEW s, Books(T, s), NEW l \in Seq(T), NEW k \in 1..Len(l), NEW w,
           Woken(T, s, l, k - 1, w)
    PROVE  Woken(T, s, l, k, IF w.st[l[k]] = "wtevt" THEN ReadyBehind(w, l[k]) ELSE w)
<1>. DEFINE t == l[k]
<1>1. t \in T /\ Books(T, w) /\ s \in Sched(T) /\ w \in Sched(T)  BY DEF Woken, Books
<1>2. \A u \in T : (\E j \in 1..k : l[j] = u) <=> u = t \/ \E j \in 1..k - 1 : l[j] = u
  OBVIOUS
<1>3. \A u \in T : Class(w, u) = IF s.st[u] = "wtevt" /\ \E j \in 1..k - 1 : l[j] = u
                                     THEN "run" ELSE Class(s, u)
  BY Zenon DEF Woken
<1>. HIDE DEF t
<1>4. /\ \A u \in T : Class(w, u) = "run" <=> w.st[u] \in Run
      /\ \A u \in T : Class(s, u) = "run" <=> s.st[u] \in Run
      /\ \A u \in T : Class(w, u) = "wtevt" <=> w.st[u] = "wtevt"
      /\ \A u \in T : Class(s, u) = "wtevt" <=> s.st[u] = "wtevt"
  <2>1. "wtevt" \in State \ Run  BY Zenon DEF State, Waiting, Run
  <2>. QED  BY Zenon, <1>1, <2>1, ClassFacts
<1>5. CASE w.st[t] = "wtevt"
  <2>. DEFINE n == ReadyBehind(w, t)
  <2>1. w.st[t] \notin Run  BY Zenon, <1>5 DEF Run
  <2>2. Step(T, w, n, t, "run") /\ n.cur = w.cur  BY Zenon, <1>1, <2>1, BehindFacts
  <2>. HIDE DEF n
  <2>3. s.st[t] = "wtevt" /\ s.st[t] \notin Run  BY Zenon, <1>1, <1>3, <1>4, <1>5 DEF Run
  <2>4. \A u \in T : u # t => Class(n, u) = Class(w, u)  BY Zenon, <2>2 DEF Step
  <2>5. Books(T, n) /\ n.prio = w.prio /\ n.real = w.real /\ NoOvertaking(T, w, n) /\ Class(n, t) = "run"
    BY Zenon, <2>2 DEF Step
  <2>6. \A u \in T : Class(n, u) = "run" <=> n.st[u] \in Run  BY Zenon, <2>5, ClassFacts DEF Books
  <2>7. \A a \in T : s.st[a] \in Run /\ n.st[a] \in Run => w.st[a] \in Run
    BY Zenon, <1>4, <2>3, <2>4, <2>6
  <2>8. NoOvertaking(T, s, n)
    <3>1. w.prio = s.prio /\ NoOvertaking(T, s, w)  BY Zenon DEF Woken
    <3>. QED  BY Zenon, <2>5, <2>7, <3>1, OvertakingComposes
  <2>9. \A u \in T : Class(n, u) = IF s.st[u] = "wtevt" /\ \E j \in 1..k : l[j] = u
                                      THEN "run" ELSE Class(s, u)
    BY Zenon, <1>2, <1>3, <2>3, <2>4, <2>5
  <2>10. Woken(T, s, l, k, n)  BY Zenon, <2>2, <2>5, <2>8, <2>9 DEF Woken
  <2>. QED  BY Zenon, <1>5, <2>10 DEF n, t
<1>6. CASE w.st[t] # "wtevt"
  <2>1. \A u \in T : Class(w, u) = IF s.st[u] = "wtevt" /\ \E j \in 1..k : l[j] = u
                                      THEN "run" ELSE Class(s, u)
    BY Zenon, <1>1, <1>2, <1>3, <1>4, <1>6
  <2>2. Woken(T, s, l, k, w)  BY Zenon, <2>1 DEF Woken
  <2>. QED  BY Zenon, <1>6, <2>2 DEF t
<1>. QED  BY Zenon, <1>5, <1>6

LEMMA BroadcastFacts ==
    ASSUME NEW T, NEW s, Books(T, s), NEW es, es.list \in Seq(T)
    PROVE  Woken(T, s, es.list, Len(es.list), EvtBroadcast(s, es))
<1>. DEFINE l == es.list
            L == Len(l)
            W == CHOOSE f : f = [i \in 0..L |-> WakeBody(s, l, f, i)]
<1>1. L \in Nat /\ WellOrdered  BY DEF Books, Queue
<1>2. W = [i \in 0..L |-> WakeBody(s, l, W, i)]  BY ZenonT(30), <1>1, WalkExists
<1>3. EvtBroadcast(s, es) = W[L]  BY Zenon DEF EvtBroadcast, WakeBody
<1>. HIDE DEF W
<1>4. \A i \in 0..L : W[i] = WakeBody(s, l, W, i)  BY Zenon, <1>2
<1>. DEFINE Bad == {i \in 0..L : ~Woken(T, s, l, i, W[i])}
<1>5. ASSUME Bad # {} PROVE FALSE
  <2>1. PICK k \in Bad : \A i \in Bad : k <= i
    <3>1. Bad \in SUBSET Nat  BY <1>1
    <3>. QED  BY Zenon, <1>1, <1>5, <3>1 DEF WellOrdered
  <2>2. k # 0
    <3>1. W[0] = s  BY <1>1, <1>4 DEF WakeBody
    <3>2. NoOvertaking(T, s, s)  BY Zenon DEF NoOvertaking
    <3>3. Woken(T, s, l, 0, s)  BY <3>2 DEF Woken
    <3>. QED  BY Zenon, <2>1, <3>1, <3>3
  <2>3. k \in 1..L /\ k - 1 \in 0..L /\ k - 1 \notin Bad  BY <1>1, <2>1, <2>2
  <2>4. Woken(T, s, l, k - 1, W[k - 1])  BY Zenon, <2>3
  <2>5. W[k] = IF W[k - 1].st[l[k]] = "wtevt" THEN ReadyBehind(W[k - 1], l[k]) ELSE W[k - 1]
    BY Zenon, <1>4, <2>1, <2>2 DEF WakeBody
  <2>6. Woken(T, s, l, k, W[k])  BY Zenon, <2>3, <2>4, <2>5, SignalFacts
  <2>. QED  BY Zenon, <2>1, <2>6
<1>6. Woken(T, s, l, L, W[L])  BY <1>1, <1>5
<1>. QED  BY Zenon, <1>3, <1>6

\* chEvtBroadcastI at the end of an interrupt.
LEMMA AnnounceFacts ==
    ASSUME NEW T, NEW s, Books(T, s), NEW es, es.list \in Seq(T)
    PROVE  LET n == Reschedule(EvtBroadcast(s, es))
           IN  /\ Books(T, n) /\ Topmost(n) /\ n.prio = s.prio /\ n.real = s.real
               /\ NoOvertaking(T, s, n)
               /\ \A u \in T : Class(n, u) = IF s.st[u] = "wtevt" /\ u \in Range(es.list)
                                                THEN "run" ELSE Class(s, u)
<1>. DEFINE w == EvtBroadcast(s, es)
            n == Reschedule(w)
<1>1. Woken(T, s, es.list, Len(es.list), w)  BY Zenon, BroadcastFacts
<1>. HIDE DEF w
<1>2. Books(T, w)  BY Zenon, <1>1 DEF Woken
<1>3. Topmost(n) /\ \A u \in T : Step(T, w, n, u, Class(w, u))  BY Zenon, <1>2, RescheduleFacts
<1>. HIDE DEF n
<1>4. s.cur \in T  BY Zenon DEF Books, Sched
<1>5. Books(T, n) /\ n.prio = w.prio /\ n.real = w.real /\ NoOvertaking(T, w, n)
  BY Zenon, <1>3, <1>4 DEF Step
<1>6. \A u \in T : Class(n, u) = Class(w, u)  BY Zenon, <1>3 DEF Step
<1>7. \A u \in T : n.st[u] \in Run => w.st[u] \in Run
  <2>1. n \in Sched(T) /\ w \in Sched(T)  BY Zenon, <1>2, <1>5 DEF Books
  <2>. QED  BY <1>6, <2>1, ClassFacts
<1>8. NoOvertaking(T, s, n)
  BY Zenon, <1>1, <1>5, <1>7, OvertakingComposes DEF Woken
<1>9. \A u : u \in Range(es.list) <=> \E j \in 1..Len(es.list) : es.list[j] = u  BY Zenon, RangeFacts
<1>. QED  BY Zenon, <1>1, <1>3, <1>5, <1>6, <1>8, <1>9 DEF Woken, n, w

\* The owner o of a mutex inherits the priority of the running thread.
LEMMA BoostFacts ==
    ASSUME NEW T, NEW s, Books(T, s), NEW o \in T
    PROVE  LET n == MtxBoost(s, o)
           IN  /\ Books(T, n) /\ n.cur = s.cur /\ n.st = s.st /\ n.real = s.real
               /\ Range(n.ready) = Range(s.ready)
               /\ n.prio \in [T -> Nat]
               /\ \A u \in T : u # o => n.prio[u] = s.prio[u]
               /\ n.prio[o] = IF s.prio[o] >= s.prio[s.cur] THEN s.prio[o] ELSE s.prio[s.cur]
<1>. DEFINE n == MtxBoost(s, o)
            p == [s.prio EXCEPT ![o] = s.prio[s.cur]]
            b == [s EXCEPT !.prio[o] = s.prio[s.cur]]
<1>1. /\ s \in Sched(T) /\ s.prio \in [T -> Nat] /\ s.cur \in T /\ s.st \in [T -> State]
      /\ Queue(T, s.ready, s.prio) /\ s.ready \in Seq(T)
      /\ s.prio[o] \in Nat /\ s.prio[s.cur] \in Nat
  BY Zenon DEF Books, Sched
<1>2. CASE s.prio[o] >= s.prio[s.cur]  BY Zenon, <1>1, <1>2 DEF MtxBoost
<1>3. ASSUME ~(s.prio[o] >= s.prio[s.cur])
      PROVE  /\ b = [s EXCEPT !.prio = p] /\ b \in Sched(T) /\ b.cur = s.cur /\ b.st = s.st
             /\ b.real = s.real /\ b.ready = s.ready /\ b.prio = p
             /\ p \in [T -> Nat] /\ p[o] = s.prio[s.cur] /\ SameBut(T, o, s.prio, p)
             /\ o # s.cur
  <2>1. b = [s EXCEPT !.prio = p]  BY Zenon
  <2>2. p \in [T -> Nat] /\ p[o] = s.prio[s.cur] /\ SameBut(T, o, s.prio, p)
    BY Zenon, <1>1 DEF SameBut
  <2>. HIDE DEF b, p
  <2>3. /\ b \in Sched(T) /\ b.cur = s.cur /\ b.st = s.st
        /\ b.real = s.real /\ b.ready = s.ready /\ b.prio = p
    BY Zenon, <1>1, <2>1, <2>2 DEF Sched
  <2>. QED  BY <1>1, <1>3, <2>1, <2>2, <2>3
<1>. HIDE DEF b, p
<1>4. CASE ~(s.prio[o] >= s.prio[s.cur]) /\ s.st[o] # "ready"
  <2>1. n = b  BY Zenon, <1>4 DEF MtxBoost, b
  <2>2. o \notin Range(s.ready)  BY Zenon, <1>4 DEF Books
  <2>3. \A i \in 1..Len(s.ready) : s.ready[i] \in T /\ s.ready[i] # o
    BY <1>1, <2>2, RangeFacts
  <2>4. Queue(T, s.ready, p)  BY Zenon, <1>1, <1>3, <1>4, <2>3 DEF Queue, SameBut
  <2>5. Books(T, b)  BY <1>3, <1>4, <2>4 DEF Books
  <2>. QED  BY Zenon, <1>3, <1>4, <2>1, <2>5 DEF SameBut
<1>5. CASE ~(s.prio[o] >= s.prio[s.cur]) /\ s.st[o] = "ready"
  <2>. DEFINE d == Dequeue(s.ready, o)
              r == InsertBehind(d, p, o)
  <2>1. n = ReadyBehind([b EXCEPT !.ready = d], o)  BY Zenon, <1>3, <1>5 DEF MtxBoost, b
  <2>2. o \in Range(s.ready)  BY Zenon, <1>5 DEF Books
  <2>3. Queue(T, d, p) /\ Range(d) = Range(s.ready) \ {o}
    <3>1. SameBut(T, o, s.prio, p)  BY Zenon, <1>3, <1>5
    <3>2. Taken(T, s.ready, o, p, d)  BY <1>1, <2>2, <3>1, DequeueKeeps, Zenon
    <3>. QED  BY Zenon, <3>2 DEF Taken
  <2>. DEFINE c == [b EXCEPT !.ready = d]
  <2>4. d \in Seq(T)  BY Zenon, <2>3 DEF Queue
  <2>. HIDE DEF d
  <2>5. /\ c \in Sched(T) /\ c.cur = s.cur /\ c.st = s.st /\ c.real = s.real /\ c.ready = d /\ c.prio = p
    BY Zenon, <1>3, <1>5, <2>4 DEF Sched
  <2>. HIDE DEF c
  <2>6. o \notin Range(d) /\ p \in [T -> Nat] /\ p[o] \in {p[o], p[o] + 1}  BY Zenon, <1>3, <1>5, <2>3
  <2>7. Queue(T, r, p) /\ Range(r) = Range(d) \cup {o}
    BY <2>3, <2>6, InsertKeeps DEF InsertBehind
  <2>8. n = [c EXCEPT !.st[o] = "ready", !.ready = r]  BY Zenon, <2>1, <2>5 DEF ReadyBehind, c
  <2>9. r \in Seq(T)  BY Zenon, <2>7 DEF Queue
  <2>. HIDE DEF r, n
  <2>10. [s.st EXCEPT ![o] = "ready"] = s.st  BY Zenon, <1>1, <1>5
  <2>11. /\ n \in Sched(T) /\ n.cur = s.cur /\ n.st = s.st /\ n.real = s.real /\ n.ready = r /\ n.prio = p
    BY Zenon, <2>5, <2>8, <2>9, <2>10 DEF Sched
  <2>12. Range(r) = Range(s.ready)  BY Zenon, <2>2, <2>3, <2>7
  <2>13. Books(T, n)  BY Zenon, <2>7, <2>11, <2>12 DEF Books
  <2>. QED  BY Zenon, <1>3, <1>5, <2>11, <2>12, <2>13 DEF SameBut, n
<1>. QED  BY Zenon, <1>2, <1>4, <1>5

-----------------------------------------------------------------------------
(* The invariant of the start-up.  A thread that is ready or running is in *)
(* class "run"; the others are in the class of their state.                *)

Cls(t) == Class(sch, t)

\* The idle thread keeps the ready list from being empty.
KernelInv == Books(Thread, sch) /\ Topmost(sch) /\ Cls("idle") = "run"

\* Only the UDP thread ever inherits a priority; lwip_thread lowers its own.
PrioInv ==
    /\ \A t \in Thread \ {"lwip"} : sch.real[t] = CreatePrio(t)
    /\ \A t \in Thread \ {"lwip", "udp_server"} : sch.prio[t] = CreatePrio(t)
    /\ sch.prio["udp_server"] \in {NORMALPRIO, NORMALPRIO + 1}
    /\ pc["udp_server"] = "start" => sch.prio["udp_server"] = NORMALPRIO
    /\ pc["lwip"] # "loop" => sch.prio["lwip"] = CreatePrio("lwip") /\ sch.real["lwip"] = CreatePrio("lwip")

Label == {"start", "blinker", "HID", "usb_host", "udp_server", "nrf24_tx", "nrf24_irq", "shell",
          "wait", "sleep", "usbh", "poll", "suspend", "mutex", "register", "socket", "return",
          "first lock", "first copy", "first unlock", "lock", "copy", "unlock", "event", "sendto",
          "init", "line", "address", "send", "handle", "post", "transfer", "exit",
          "netif", "resume", "prio", "loop"}

TypeInv ==
    /\ pc \in [Thread -> Label]
    /\ esDS5Ready \in [init : BOOLEAN, list : Seq(Thread)]
    /\ esNRF24Interrupt \in [init : BOOLEAN, list : Seq(Thread)]
    /\ mtx \in [init : BOOLEAN, owner : {NoThread, "udp_server", "shell"}, queue : Seq(Thread)]

Peers == {"HID", "udp_server", "nrf24_tx"}

\* What main has not created yet does not exist; until it has created the shell
\* it stays ready and its peers stay behind it.  It creates the shell again only
\* after it has ended.
MainInv ==
    /\ \A i \in 1..6 : pc["main"] = MainOrder[i] => \A j \in i..7 : Cls(MainOrder[j]) = "none"
    /\ pc["main"] = "shell" => Cls("shell") \in {"none", "final"}
    /\ pc["main"] = "sleep" /\ Cls("main") # "wtexit" => Cls("shell") = "final"
    /\ Cls("shell") = "none" =>
          /\ \E i \in 1..7 : pc["main"] = MainOrder[i]
          /\ Cls("main") = "run"
          /\ \A t \in Peers : pc[t] = "start" /\ Leads(sch, "main", t)
    /\ Cls("usb_host") = "none" => \E i \in 1..3 : pc["main"] = MainOrder[i]

Held == {"first copy", "first unlock", "copy", "unlock"}
Users == {"udp_server", "shell"}

\* At most one thread waits for the mutex, behind the other, which inherits.
MutexInv ==
    /\ fault = "none" /\ mtx.owner # NoThread => pc[mtx.owner] \in Held
    /\ \A t \in Thread : Cls(t) = "wtmtx" => mtx.queue = <<t>>
    /\ mtx.queue # <<>> =>
          \E t, o \in Users : /\ t # o /\ mtx.queue = <<t>> /\ mtx.owner = o
                              /\ Cls(t) = "wtmtx" /\ pc[t] \in Held
                              /\ sch.prio[o] >= sch.prio[t]

\* The UDP thread has returned from lwipInit and initialised the mutex.
Up == pc["udp_server"] \notin {"start", "suspend", "mutex"}

\* lwip_thread, below its creator, does not run before that has suspended itself.
LwipInv ==
    /\ pc["udp_server"] = "start" => Cls("lwip") = "none" /\ pc["lwip"] = "start" /\ lwip_trp = NoThread
    /\ pc["udp_server"] = "suspend" => Cls("udp_server") = "run" /\ pc["lwip"] = "start" /\ lwip_trp = NoThread
    /\ pc["udp_server"] = "mutex" /\ pc["lwip"] \in {"start", "netif", "resume"} =>
          lwip_trp = "udp_server" /\ Cls("udp_server") = "suspended"
    /\ pc["lwip"] \notin {"start", "netif", "resume"} =>
          lwip_trp = NoThread /\ pc["udp_server"] \notin {"start", "suspend"}
    /\ Up => pc["lwip"] \notin {"start", "netif", "resume"}
    /\ pc["lwip"] # "start" => mboxOn

\* The USB host thread, above its clients, initialises esDS5Ready before they run.
EventInv ==
    /\ pc["usb_host"] = "start" =>
          /\ Cls("usb_host") \in {"none", "run"}
          /\ pc["udp_server"] = "start" /\ pc["nrf24_tx"] = "start"
    /\ pc["usb_host"] # "start" => esDS5Ready.init
    /\ pc["usb_host"] \in {"start", "usbh"} => hid = "off"
    /\ Up /\ pc["udp_server"] # "register" => "udp_server" \in Range(esDS5Ready.list)
    /\ pc["nrf24_tx"] \notin {"start", "init", "line", "register"} =>
          "nrf24_tx" \in Range(esDS5Ready.list)
    /\ \A t \in {"udp_server", "nrf24_tx"} : Cls(t) = "wtevt" => pc[t] = "event"
    /\ irqOn => pc["nrf24_tx"] # "start"
    /\ pc["nrf24_tx"] # "start" => esNRF24Interrupt.init

\* Without early commands the mutex excludes.
QuietInv ==
    ~EarlyCommands =>
        /\ pc["shell"] \notin {"start", "line"} => Up
        /\ Up => mtx.init
        /\ \A t \in Users : InCopy(t) => mtx.owner = t
        /\ fault = "none"

IInv == TypeInv /\ KernelInv /\ PrioInv /\ MainInv /\ MutexInv /\ LwipInv /\ EventInv /\ QuietInv

-----------------------------------------------------------------------------
(* What the kernel calls of a thread do.                                   *)

\* One thread t changes to class x.
Effect(t, x) == Step(Thread, sch, sch', t, x) /\ Topmost(sch')

\* chThdCreate gives the priority the thread has from the start.
LEMMA CreateCall ==
    ASSUME KernelInv, NEW t \in Thread, Cls(t) # "run",
           sch.prio[t] = CreatePrio(t), sch.real[t] = CreatePrio(t), chThdCreate(t)
    PROVE  Effect(t, "run")
<1>1. Books(Thread, sch) /\ Topmost(sch) /\ sch \in Sched(Thread)  BY Zenon DEF KernelInv, Books
<1>2. sch.st[t] \notin Run  BY Zenon, <1>1, ClassFacts DEF Cls
<1>3. [sch EXCEPT !.prio[t] = CreatePrio(t), !.real[t] = CreatePrio(t)] = sch
  <2>. DEFINE p == CreatePrio(t)
  <2>1. [sch.prio EXCEPT ![t] = p] = sch.prio /\ [sch.real EXCEPT ![t] = p] = sch.real
    BY Zenon, <1>1 DEF Sched
  <2>. HIDE DEF p
  <2>. DEFINE n == [sch EXCEPT !.prio = [sch.prio EXCEPT ![t] = p], !.real = [sch.real EXCEPT ![t] = p]]
  <2>2. n = [sch EXCEPT !.prio = sch.prio, !.real = sch.real]  BY Zenon, <2>1
  <2>3. n = sch  BY Zenon, <1>1, <2>2 DEF Sched
  <2>. QED  BY Zenon, <2>3 DEF p
<1>4. sch' = Wakeup(sch, t)  BY Zenon, <1>3 DEF chThdCreate
<1>. QED  BY Zenon, <1>1, <1>2, <1>4, WakeupFacts DEF Effect

LEMMA IdleReady ==
    ASSUME KernelInv, sch.cur # "idle" PROVE sch.ready # << >>
<1>1. "idle" \in Thread /\ sch \in Sched(Thread)  BY Zenon DEF Thread, KernelInv, Books
<1>2. sch.st["idle"] \in Run  BY Zenon, <1>1, ClassFacts DEF KernelInv, Cls
<1>3. "idle" \in Range(sch.ready) /\ sch.ready \in Seq(Thread)
  BY Zenon, <1>1, <1>2 DEF KernelInv, Books, Run, Sched
<1>. QED  BY <1>3, RangeFacts

LEMMA SleepCall ==
    ASSUME KernelInv, sch.cur # "idle", NEW x \in State \ Run, sch' = GoSleep(sch, x)
    PROVE  Effect(sch.cur, x)
<1>1. Books(Thread, sch) /\ sch.ready # << >>  BY Zenon, IdleReady DEF KernelInv
<1>. QED  BY Zenon, <1>1, SleepFacts DEF Effect

LEMMA CompleteCall ==
    ASSUME KernelInv, NEW t \in Thread, Complete(t)
    PROVE  Effect(t, "run") /\ Cls(t) = "blocked"
<1>1. Books(Thread, sch)  BY Zenon DEF KernelInv
<1>2. sch.st[t] \notin Run /\ Cls(t) = "blocked"  BY Zenon DEF Complete, Run, Cls, Class
<1>3. sch' = Reschedule(ReadyBehind(sch, t))  BY Zenon DEF Complete
<1>. QED  BY Zenon, <1>1, <1>2, <1>3, ReadyRescheduleFacts DEF Effect

\* lwip_thread resumes the caller of lwipInit.
LEMMA ResumeCall ==
    ASSUME KernelInv, NEW t \in Thread, Cls(t) = "suspended", sch' = Wakeup(sch, t)
    PROVE  Effect(t, "run")
<1>1. Books(Thread, sch) /\ Topmost(sch) /\ sch \in Sched(Thread)  BY Zenon DEF KernelInv, Books
<1>2. sch.st[t] \notin Run  BY Zenon, <1>1, ClassFacts DEF Cls
<1>. QED  BY Zenon, <1>1, <1>2, WakeupFacts DEF Effect

\* lwip_thread lowers its own priority.
LEMMA LowerCall ==
    ASSUME KernelInv, sch.cur = "lwip",
           sch' = Reschedule([sch EXCEPT !.prio["lwip"] = LOWPRIO, !.real["lwip"] = LOWPRIO])
    PROVE  /\ Books(Thread, sch') /\ Topmost(sch')
           /\ sch'.prio = [sch.prio EXCEPT !["lwip"] = LOWPRIO]
           /\ sch'.real = [sch.real EXCEPT !["lwip"] = LOWPRIO]
           /\ \A u \in Thread : Class(sch', u) = Class(sch, u)
<1>. DEFINE m == [sch EXCEPT !.prio["lwip"] = LOWPRIO, !.real["lwip"] = LOWPRIO]
<1>1. Books(Thread, sch) /\ "lwip" \in Thread /\ LOWPRIO \in Nat  BY Zenon DEF KernelInv, Thread, LOWPRIO
<1>2. "lwip" \notin Range(sch.ready)  BY Zenon, <1>1 DEF Books
<1>3. /\ Books(Thread, m) /\ m.st = sch.st
      /\ m.prio = [sch.prio EXCEPT !["lwip"] = LOWPRIO]
      /\ m.real = [sch.real EXCEPT !["lwip"] = LOWPRIO]
  <2>1. Repriced(Thread, sch, "lwip", LOWPRIO, LOWPRIO, m)  BY <1>1, <1>2, PrioFacts, Zenon
  <2>. QED  BY Zenon, <2>1 DEF Repriced
<1>. HIDE DEF m
<1>4. sch' = Reschedule(m)  BY Zenon DEF m
<1>5. Topmost(sch') /\ \A u \in Thread : Step(Thread, m, sch', u, Class(m, u))
  BY <1>3, <1>4, RescheduleFacts
<1>6. \A u \in Thread : Class(m, u) = Class(sch, u)  BY Zenon, <1>3 DEF Class
<1>. QED  BY Zenon, <1>1, <1>3, <1>5, <1>6 DEF Step

\* chThdExitS of t, and of the shell while main waits for it.
LEMMA ExitCall ==
    ASSUME KernelInv, sch.cur # "idle", sch.cur # "main", chThdExit
    PROVE  /\ Books(Thread, sch') /\ Topmost(sch') /\ sch'.prio = sch.prio /\ sch'.real = sch.real
           /\ Class(sch', sch.cur) = "final"
           /\ \A u \in Thread : u # sch.cur =>
                 Class(sch', u) = IF u = "main" /\ sch.cur = "shell" /\ Class(sch, "main") = "wtexit"
                                     THEN "run" ELSE Class(sch, u)
<1>1. Books(Thread, sch) /\ sch \in Sched(Thread) /\ "main" \in Thread /\ sch.cur \in Thread
      /\ "final" \in State \ Run /\ sch.ready # << >>
  BY Zenon, IdleReady DEF KernelInv, Books, Sched, Thread, State, Run
<1>2. Class(sch, "main") = "wtexit" <=> sch.st["main"] = "wtexit"
  <2>1. "wtexit" \in State \ Run  BY Zenon DEF State, Waiting, Run
  <2>. QED  BY Zenon, <1>1, <2>1, ClassFacts
<1>3. CASE sch.cur = "shell" /\ sch.st["main"] = "wtexit"
  <2>. DEFINE m == ReadyBehind(sch, "main")
  <2>1. sch' = GoSleep(m, "final")  BY Zenon, <1>3 DEF chThdExit
  <2>2. sch.st["main"] \notin Run  BY Zenon, <1>3 DEF Run
  <2>3. Step(Thread, sch, m, "main", "run") /\ m.cur = sch.cur
        /\ Range(m.ready) = Range(sch.ready) \cup {"main"}
    BY <1>1, <2>2, BehindFacts
  <2>. HIDE DEF m
  <2>4. Books(Thread, m)  BY Zenon, <2>3 DEF Step
  <2>5. m.ready # << >>
    <3>1. m.ready \in Seq(Thread) /\ "main" \in Range(m.ready)  BY Zenon, <2>3, <2>4 DEF Books, Sched
    <3>. QED  BY <3>1, RangeFacts
  <2>6. Step(Thread, m, sch', m.cur, "final") /\ Topmost(sch')
    BY Zenon, <1>1, <2>1, <2>4, <2>5, SleepFacts
  <2>. QED  BY Zenon, <1>2, <1>3, <2>3, <2>6 DEF Step
<1>4. CASE ~(sch.cur = "shell" /\ sch.st["main"] = "wtexit")
  <2>1. sch' = GoSleep(sch, "final")  BY Zenon, <1>4 DEF chThdExit
  <2>2. Step(Thread, sch, sch', sch.cur, "final") /\ Topmost(sch')  BY Zenon, <1>1, <2>1, SleepFacts
  <2>. QED  BY Zenon, <1>2, <1>4, <2>2 DEF Step
<1>. QED  BY Zenon, <1>3, <1>4

LEMMA FirstInLine ==
    ASSUME NEW T, NEW prio \in [T -> Nat], NEW t \in T
    PROVE  InsertBehind(<< >>, prio, t) = <<t>>
<1>1. PICK q : q = << >>  BY Zenon
<1>2. q \in Seq(T) /\ prio[t] \in Nat  BY <1>1
<1>3. PICK k : k = Place(q, prio, prio[t])  BY Zenon
<1>4. k \in 1..Len(q) + 1
  <2>1. /\ 1 \in 1..Len(q) + 1 /\ 1 > Len(q)
        /\ \A i \in 1..1 - 1 : prio[q[i]] >= prio[t]
    BY <1>1
  <2>. QED  BY <1>3, <2>1 DEF Place
<1>5. PICK r : /\ r = LinkAt(q, k, t) /\ r \in Seq(T) /\ Len(r) = Len(q) + 1
               /\ \A i \in 1..Len(r) :
                    r[i] = IF i < k THEN q[i] ELSE IF i = k THEN t ELSE q[i - 1]
  BY <1>2, <1>4, LinkFacts
<1>6. Len(q) = 0  BY Zenon, <1>1
<1>7. k = 1 /\ r \in Seq(T) /\ Len(r) = 1 /\ r[1] = t  BY <1>4, <1>5, <1>6
<1>8. r = <<t>>  BY <1>7
<1>. QED  BY Zenon, <1>1, <1>3, <1>5, <1>8 DEF InsertBehind

\* chMtxLock on a mutex that another thread owns.
LEMMA LockCall ==
    ASSUME TypeInv, KernelInv, MutexInv, fault = "none",
           NEW t \in Users, sch.cur = t, pc[t] \notin Held, mtx.owner # NoThread, chMtxLock
    PROVE  /\ mtx.owner \in Users /\ mtx.owner # t /\ mtx' = [mtx EXCEPT !.queue = <<t>>]
           /\ Books(Thread, sch') /\ Topmost(sch') /\ sch'.real = sch.real
           /\ Class(sch', t) = "wtmtx"
           /\ \A u \in Thread : u # t => Class(sch', u) = Class(sch, u)
           /\ \A u \in Thread : u # mtx.owner => sch'.prio[u] = sch.prio[u]
           /\ sch'.prio[mtx.owner] = IF sch.prio[mtx.owner] >= sch.prio[t]
                                        THEN sch.prio[mtx.owner] ELSE sch.prio[t]
<1>. DEFINE o == mtx.owner
            m == MtxBoost(sch, o)
<1>1. o \in Users /\ o # t /\ o \in Thread /\ t \in Thread
  BY Zenon DEF TypeInv, MutexInv, Users, Thread
<1>2. Books(Thread, sch) /\ sch \in Sched(Thread) /\ sch.prio \in [Thread -> Nat] /\ sch.cur \in Thread
  BY Zenon DEF KernelInv, Books, Sched
<1>3. mtx.queue = << >>
  <2>1. ASSUME mtx.queue # << >> PROVE FALSE
    <3>1. PICK u, v \in Users : u # v /\ mtx.owner = v /\ Cls(u) = "wtmtx"  BY Zenon, <2>1 DEF MutexInv
    <3>2. u = t  BY Zenon, <1>1, <3>1 DEF Users
    <3>. QED  BY Zenon, <1>1, <1>2, <3>1, <3>2 DEF Cls, Class, Books, Run
  <2>. QED  BY Zenon, <2>1
<1>4. mtx' = [mtx EXCEPT !.queue = <<t>>]
  <2>1. InsertBehind(mtx.queue, sch.prio, sch.cur) = <<t>>  BY <1>1, <1>2, <1>3, FirstInLine
  <2>. QED  BY Zenon, <2>1 DEF chMtxLock, MtxLock
<1>5. /\ Books(Thread, m) /\ m.cur = t /\ m.st = sch.st /\ m.real = sch.real
      /\ Range(m.ready) = Range(sch.ready)
      /\ \A u \in Thread : u # o => m.prio[u] = sch.prio[u]
      /\ m.prio[o] = IF sch.prio[o] >= sch.prio[t] THEN sch.prio[o] ELSE sch.prio[t]
  BY <1>1, <1>2, BoostFacts
<1>6. sch' = GoSleep(m, "wtmtx")  BY Zenon DEF chMtxLock, MtxLockSched
<1>. HIDE DEF m
<1>7. m.ready # << >>
  <2>1. sch.cur # "idle"  BY Zenon DEF Users
  <2>2. sch.ready # << >> /\ sch.ready \in Seq(Thread)  BY Zenon, <1>2, <2>1, IdleReady DEF Sched
  <2>3. sch.ready[1] \in Range(sch.ready)
    <3>1. 1 \in 1..Len(sch.ready)  BY <2>2
    <3>. QED  BY Zenon, <2>2, <3>1, RangeFacts
  <2>4. m.ready \in Seq(Thread)  BY Zenon, <1>5 DEF Books, Sched
  <2>. QED  BY <1>5, <2>3, <2>4, RangeFacts
<1>8. "wtmtx" \in State \ Run  BY Zenon DEF State, Waiting, Run
<1>9. Step(Thread, m, sch', m.cur, "wtmtx") /\ Topmost(sch')
  BY Zenon, <1>5, <1>6, <1>7, <1>8, SleepFacts
<1>10. \A u \in Thread : Class(m, u) = Class(sch, u)  BY Zenon, <1>5 DEF Class
<1>11. /\ Books(Thread, sch') /\ sch'.prio = m.prio /\ sch'.real = sch.real /\ Class(sch', t) = "wtmtx"
       /\ \A u \in Thread : u # t => Class(sch', u) = Class(sch, u)
  BY Zenon, <1>5, <1>9, <1>10 DEF Step
<1>. QED  BY Zenon, <1>1, <1>4, <1>5, <1>9, <1>11

\* chMtxUnlock on a mutex that u waits for.
LEMMA UnlockCall ==
    ASSUME TypeInv, KernelInv, MutexInv, NEW t \in Users, sch.cur = t,
           mtx.init, mtx.queue # << >>, chMtxUnlock
    PROVE  \E u \in Users :
              /\ u # t /\ Cls(u) = "wtmtx" /\ pc[u] \in Held
              /\ mtx' = [mtx EXCEPT !.owner = u, !.queue = << >>]
              /\ Books(Thread, sch') /\ Topmost(sch') /\ sch'.real = sch.real
              /\ sch'.prio = [sch.prio EXCEPT ![t] = sch.real[t]]
              /\ Class(sch', u) = "run"
              /\ \A v \in Thread : v # u => Class(sch', v) = Class(sch, v)
<1>1. PICK u, o \in Users : u # o /\ mtx.queue = <<u>> /\ mtx.owner = o /\ Cls(u) = "wtmtx" /\ pc[u] \in Held
  BY Zenon DEF MutexInv
<1>2. /\ Books(Thread, sch) /\ sch \in Sched(Thread) /\ sch.prio \in [Thread -> Nat]
      /\ sch.real \in [Thread -> Nat] /\ t \in Thread /\ u \in Thread
  BY Zenon DEF KernelInv, Books, Sched, Users, Thread
<1>3. u # t /\ t \notin Range(sch.ready)  BY Zenon, <1>1, <1>2 DEF Books, Cls, Class, Run
<1>. DEFINE m == [sch EXCEPT !.prio[t] = sch.real[t]]
<1>4. mtx' = [mtx EXCEPT !.owner = u, !.queue = << >>] /\ sch' = Reschedule(ReadyBehind(m, u))
  <2>1. Head(mtx.queue) = u /\ Tail(mtx.queue) = << >>  BY <1>1
  <2>. QED  BY Zenon, <2>1 DEF chMtxUnlock, MtxUnlock, MtxUnlockSched
<1>5. Books(Thread, m) /\ m.st = sch.st /\ m.real = sch.real /\ m.prio = [sch.prio EXCEPT ![t] = sch.real[t]]
  <2>. DEFINE p == [sch.prio EXCEPT ![t] = sch.real[t]]
              n == [sch EXCEPT !.prio[t] = sch.real[t], !.real[t] = sch.real[t]]
  <2>1. Repriced(Thread, sch, t, sch.real[t], sch.real[t], n)
    <3>1. sch.real[t] \in Nat  BY Zenon, <1>2
    <3>. QED  BY <1>2, <1>3, <3>1, PrioFacts, Zenon
  <2>2. [sch.real EXCEPT ![t] = sch.real[t]] = sch.real  BY Zenon, <1>2
  <2>3. m = [sch EXCEPT !.prio = p]  BY Zenon
  <2>4. n = [sch EXCEPT !.prio = p, !.real = sch.real]  BY Zenon, <2>2
  <2>. HIDE DEF m, n, p
  <2>. DEFINE R == [cur : {sch.cur}, ready : {sch.ready}, st : {sch.st}, prio : {p}, real : {sch.real}]
  <2>5. m \in R  BY Zenon, <1>2, <2>3 DEF Sched
  <2>6. n \in R  BY Zenon, <1>2, <2>4 DEF Sched
  <2>7. m = n  BY <2>5, <2>6
  <2>. QED  BY Zenon, <2>1, <2>2, <2>7 DEF Repriced, p
<1>. HIDE DEF m
<1>6. m.st[u] \notin Run  BY Zenon, <1>1, <1>2, <1>5, ClassFacts DEF Cls
<1>7. Step(Thread, m, sch', u, "run") /\ Topmost(sch')
  BY Zenon, <1>2, <1>4, <1>5, <1>6, ReadyRescheduleFacts
<1>8. \A v \in Thread : Class(m, v) = Class(sch, v)  BY Zenon, <1>5 DEF Class
<1>9. /\ Books(Thread, sch') /\ sch'.prio = m.prio /\ sch'.real = sch.real /\ Class(sch', u) = "run"
      /\ \A v \in Thread : v # u => Class(sch', v) = Class(sch, v)
  BY Zenon, <1>5, <1>7, <1>8 DEF Step
<1>. QED  BY Zenon, <1>1, <1>3, <1>4, <1>5, <1>7, <1>9

LEMMA AnnounceCall ==
    ASSUME KernelInv, NEW es \in [init : BOOLEAN, list : Seq(Thread)], es.init, chEvtBroadcastI(es)
    PROVE  /\ Books(Thread, sch') /\ Topmost(sch') /\ sch'.prio = sch.prio /\ sch'.real = sch.real
           /\ NoOvertaking(Thread, sch, sch')
           /\ \A u \in Thread : Class(sch', u) = Class(sch, u)
                                \/ (Class(sch', u) = "run" /\ Class(sch, u) = "wtevt")
<1>1. sch' = Reschedule(EvtBroadcast(sch, es))  BY Zenon DEF chEvtBroadcastI
<1>2. Books(Thread, sch) /\ es.list \in Seq(Thread)  BY Zenon DEF KernelInv
<1>3. /\ Books(Thread, sch') /\ Topmost(sch') /\ sch'.prio = sch.prio /\ sch'.real = sch.real
      /\ NoOvertaking(Thread, sch, sch')
      /\ \A u \in Thread : Class(sch', u) = IF sch.st[u] = "wtevt" /\ u \in Range(es.list)
                                               THEN "run" ELSE Class(sch, u)
  BY <1>1, <1>2, AnnounceFacts
<1>4. \A u \in Thread : sch.st[u] = "wtevt" => Class(sch, u) = "wtevt"  BY Zenon DEF Class, Run
<1>. QED  BY Zenon, <1>3, <1>4

-----------------------------------------------------------------------------
(* What a step of t, or of an interrupt, leaves alone.                     *)

Actors == Thread \cup {"interrupt"}

\* The classes of u that a step of t ends.
Wakes(t, u) ==
    CASE t = "main" -> IF u = pc["main"] /\ u # "lwip" THEN {"none", "final"} ELSE {}
      [] t = "udp_server" -> IF u = "lwip" THEN {"none"} ELSE {"wtmtx"}
      [] t = "shell" -> IF u = "main" THEN {"wtexit"} ELSE {"wtmtx"}
      [] t = "lwip" -> {"suspended"}
      [] t = "interrupt" -> {"blocked", "wtevt"}
      [] OTHER -> {}

Turn(t) == t \in Thread => sch.cur = t

Kern(t) ==
    /\ Books(Thread, sch') /\ Topmost(sch')
    /\ \A u \in Thread : u # t => \/ Class(sch', u) = Class(sch, u)
                                  \/ Class(sch', u) = "run" /\ Class(sch, u) \in Wakes(t, u)
    /\ t \in Thread => Class(sch', t) # "none"

Orderly == NoOvertaking(Thread, sch, sch') /\ sch'.prio = sch.prio /\ sch'.real = sch.real

Pcs(t) == pc' \in [Thread -> Label] /\ \A u \in Thread : u # t => pc'[u] = pc[u]

LEMMA RunningClass ==
    ASSUME KernelInv PROVE sch.cur \in Thread /\ Class(sch, sch.cur) = "run"
BY Zenon DEF KernelInv, Books, Sched, Class, Run

LEMMA KernelKeeps ==
    ASSUME KernelInv, NEW t \in Actors, t # "idle", Kern(t) PROVE KernelInv'
<1>1. "idle" \in Thread  BY Zenon DEF Thread
<1>2. Class(sch', "idle") = "run"  BY Zenon, <1>1 DEF Kern, KernelInv, Cls
<1>. QED  BY Zenon, <1>2 DEF Kern, KernelInv, Cls

LEMMA PcMove ==
    ASSUME TypeInv, NEW t \in Thread, NEW n \in Label, pc' = [pc EXCEPT ![t] = n]
    PROVE  Pcs(t) /\ pc'[t] = n
BY Zenon DEF TypeInv, Pcs

\* Calls that do not change the scheduler.
LEMMA KernSame ==
    ASSUME KernelInv, NEW t \in Actors, Turn(t), sch' = sch
    PROVE  Kern(t) /\ Orderly /\ \A u \in Thread : Class(sch', u) = Class(sch, u)
<1>1. \A u \in Thread : Class(sch', u) = Class(sch, u)  BY Zenon
<1>2. NoOvertaking(Thread, sch, sch')  BY Zenon DEF NoOvertaking
<1>3. t \in Thread => Class(sch', t) # "none"  BY Zenon, RunningClass DEF Turn
<1>. QED  BY Zenon, <1>1, <1>2, <1>3 DEF Kern, Orderly, KernelInv

\* Calls that change one thread.
LEMMA KernOwn ==
    ASSUME NEW t \in Thread, NEW x, Effect(t, x), x # "none"
    PROVE  /\ Kern(t) /\ Orderly /\ Class(sch', t) = x
           /\ \A u \in Thread : u # t => Class(sch', u) = Class(sch, u)
BY Zenon DEF Effect, Step, Kern, Orderly

LEMMA KernWake ==
    ASSUME KernelInv, NEW t \in Actors, Turn(t), NEW v \in Thread, v # t, Class(sch, v) \in Wakes(t, v),
           Effect(v, "run")
    PROVE  /\ Kern(t) /\ Orderly /\ Class(sch', v) = "run"
           /\ \A u \in Thread : u # v => Class(sch', u) = Class(sch, u)
<1>1. /\ Books(Thread, sch') /\ Topmost(sch') /\ Class(sch', v) = "run" /\ Orderly
      /\ \A u \in Thread : u # v => Class(sch', u) = Class(sch, u)
  BY Zenon DEF Effect, Step, Orderly
<1>2. t \in Thread => Class(sch', t) # "none"  BY Zenon, <1>1, RunningClass DEF Turn
<1>. QED  BY Zenon, <1>1, <1>2 DEF Kern

-----------------------------------------------------------------------------
(* The parts of the invariant that a step does not touch.                  *)

PrioSame == sch'.prio = sch.prio /\ sch'.real = sch.real

LEMMA PrioKeeps ==
    ASSUME PrioInv, PrioSame, pc'["udp_server"] = "start" => pc["udp_server"] = "start",
           pc'["lwip"] # "loop" => pc["lwip"] # "loop"
    PROVE  PrioInv'
BY Zenon DEF PrioInv, PrioSame, CreatePrio

LEMMA MainKeeps ==
    ASSUME KernelInv, PrioInv, MainInv, LwipInv, NEW t \in Actors, t # "main", t # "idle", Turn(t), Kern(t), Pcs(t),
           t \notin {"udp_server", "shell", "lwip"} => Orderly,
           Class(sch, "main") = "wtexit" =>
              Class(sch', "main") = "wtexit" \/ Class(sch', "shell") = "final"
    PROVE  MainInv'
<1>1. Thread = {"main", "blinker", "HID", "usb_host", "udp_server", "nrf24_tx", "nrf24_irq", "shell", "lwip", "idle"}
  BY Zenon DEF Thread
<1>2. /\ \A i \in 1..7 : MainOrder[i] \in Thread /\ MainOrder[i] # "lwip"
      /\ MainOrder[1] = "blinker" /\ MainOrder[2] = "HID" /\ MainOrder[3] = "usb_host" /\ MainOrder[4] = "udp_server"
      /\ MainOrder[5] = "nrf24_tx" /\ MainOrder[6] = "nrf24_irq" /\ MainOrder[7] = "shell"
  BY DEF MainOrder, Thread
<1>3. pc'["main"] = pc["main"]  BY Zenon, <1>1 DEF Pcs
<1>4. t \in Thread => Class(sch, t) = "run"  BY Zenon, RunningClass DEF Turn
<1>5. \A u \in Thread : u # "lwip" => (Class(sch, u) = "none" <=> Class(sch', u) = "none")
  BY Zenon, <1>4 DEF Kern, Wakes, Actors
<1>6. Class(sch, "shell") = "final" => Class(sch', "shell") = "final"
  BY Zenon, <1>1, <1>4 DEF Kern, Wakes, Actors
<1>7. \A i \in 1..6 : pc'["main"] = MainOrder[i] => \A j \in i..7 : Class(sch', MainOrder[j]) = "none"
  BY <1>2, <1>3, <1>5 DEF MainInv, Cls
<1>8. pc'["main"] = "shell" => Class(sch', "shell") \in {"none", "final"}
  BY Zenon, <1>1, <1>3, <1>5, <1>6 DEF MainInv, Cls
<1>9. pc'["main"] = "sleep" /\ Class(sch', "main") # "wtexit" => Class(sch', "shell") = "final"
  BY Zenon, <1>3, <1>6 DEF MainInv, Cls
<1>10. ASSUME Class(sch', "shell") = "none"
       PROVE  /\ \E i \in 1..7 : pc'["main"] = MainOrder[i]
              /\ Class(sch', "main") = "run"
              /\ \A u \in Peers : pc'[u] = "start" /\ Leads(sch', "main", u)
  <2>1. Class(sch, "shell") = "none"  BY Zenon, <1>1, <1>5, <1>10
  <2>2. /\ \E i \in 1..7 : pc["main"] = MainOrder[i]
        /\ Class(sch, "main") = "run"
        /\ \A u \in Peers : pc[u] = "start" /\ Leads(sch, "main", u)
    BY Zenon, <2>1 DEF MainInv, Cls
  <2>3. Class(sch', "main") = "run"  BY Zenon, <1>1, <2>2 DEF Kern
  <2>4. t # "lwip"
    <3>1. Class(sch, "lwip") = "none"  BY Zenon, <2>2 DEF LwipInv, Peers, Cls
    <3>. QED  BY Zenon, <1>1, <1>4, <3>1
  <2>5. t \notin Peers /\ t # "shell"  BY Zenon, <1>1, <1>4, <2>1, <2>2 DEF Leads, Turn, Peers
  <2>6. Orderly  BY Zenon, <2>4, <2>5 DEF Peers
  <2>7. ASSUME NEW u \in Peers PROVE pc'[u] = "start" /\ Leads(sch', "main", u)
    <3>1. u \in Thread /\ "main" \in Thread  BY Zenon DEF Peers, Thread
    <3>2. pc'[u] = "start"  BY Zenon, <2>2, <2>5, <3>1 DEF Pcs
    <3>3. sch.prio[u] <= sch.prio["main"]
      BY <2>2, <2>7 DEF PrioInv, Peers, CreatePrio, Thread, NORMALPRIO
    <3>4. sch'.st["main"] \in Run
      BY Zenon, <2>3, <3>1, ClassFacts DEF Kern, Books
    <3>. QED  BY Zenon, <2>2, <2>6, <3>1, <3>2, <3>3, <3>4 DEF Orderly, NoOvertaking
  <2>. QED  BY Zenon, <1>3, <2>2, <2>3, <2>7
<1>11. Class(sch', "usb_host") = "none" => \E i \in 1..3 : pc'["main"] = MainOrder[i]
  BY Zenon, <1>1, <1>3, <1>5 DEF MainInv, Cls
<1>. QED  BY Zenon, <1>7, <1>8, <1>9, <1>10, <1>11 DEF MainInv, Cls

\* A step that does not use the mutex, or that copies while t holds it.
LEMMA MutexKeeps ==
    ASSUME TypeInv, KernelInv, MutexInv, fault = "none", NEW t \in Actors, Turn(t), Kern(t), Pcs(t),
           mtx' = mtx, \A u \in Users : sch'.prio[u] = sch.prio[u],
           t \in Thread => Class(sch', t) # "wtmtx",
           t \in Users => /\ pc[t] \in Held => pc'[t] \in Held
                          /\ \A u \in Thread : u # t => Class(sch', u) = Class(sch, u) \/ Class(sch, u) # "wtmtx"
    PROVE  MutexInv'
<1>1. Users \subseteq Thread /\ NoThread \notin Users  BY Zenon DEF Users, Thread, NoThread
<1>2. t \in Thread => Class(sch, t) = "run"  BY Zenon, RunningClass DEF Turn
<1>3. \A u \in Thread : Class(sch, u) = "wtmtx" => Class(sch', u) = "wtmtx"
  BY Zenon, <1>1, <1>2 DEF Kern, Wakes, Actors, Users
<1>4. \A u \in Thread : Class(sch', u) = "wtmtx" => u = t \/ Class(sch, u) = "wtmtx"
  BY Zenon DEF Kern
<1>5. \A u \in Users : pc[u] \in Held => pc'[u] \in Held  BY Zenon, <1>1 DEF Pcs
<1>6. mtx.owner # NoThread => mtx.owner \in Users /\ pc'[mtx.owner] \in Held
  BY Zenon, <1>5 DEF MutexInv, TypeInv, Users
<1>7. ASSUME NEW u \in Thread, Class(sch', u) = "wtmtx" PROVE mtx.queue = <<u>>
  <2>1. Class(sch, u) = "wtmtx"  BY Zenon, <1>4, <1>7
  <2>. QED  BY Zenon, <2>1 DEF MutexInv, Cls
<1>8. ASSUME mtx.queue # << >>
      PROVE  \E u, o \in Users : /\ u # o /\ mtx.queue = <<u>> /\ mtx.owner = o
                                 /\ Class(sch', u) = "wtmtx" /\ pc'[u] \in Held
                                 /\ sch'.prio[o] >= sch'.prio[u]
  <2>1. PICK u, o \in Users : /\ u # o /\ mtx.queue = <<u>> /\ mtx.owner = o
                              /\ Class(sch, u) = "wtmtx" /\ pc[u] \in Held
                              /\ sch.prio[o] >= sch.prio[u]
    BY Zenon, <1>8 DEF MutexInv, Cls
  <2>2. Class(sch', u) = "wtmtx" /\ pc'[u] \in Held  BY Zenon, <1>1, <1>3, <1>5, <2>1
  <2>. QED  BY Zenon, <2>1, <2>2
<1>. QED  BY Zenon, <1>6, <1>7, <1>8 DEF MutexInv, Cls

LEMMA LwipKeeps ==
    ASSUME LwipInv, NEW t \in Actors, t # "udp_server", t # "lwip", Kern(t), Pcs(t),
           lwip_trp' = lwip_trp, mboxOn' = mboxOn
    PROVE  LwipInv'
<1>1. "udp_server" \in Thread /\ "lwip" \in Thread  BY Zenon DEF Thread
<1>2. pc'["udp_server"] = pc["udp_server"] /\ pc'["lwip"] = pc["lwip"]  BY Zenon, <1>1 DEF Pcs
<1>3. /\ Class(sch, "lwip") = "none" => Class(sch', "lwip") = "none"
      /\ Class(sch, "udp_server") = "suspended" => Class(sch', "udp_server") = "suspended"
      /\ Class(sch, "udp_server") = "run" => Class(sch', "udp_server") = "run"
  BY Zenon, <1>1 DEF Kern, Wakes
<1>. QED  BY Zenon, <1>2, <1>3 DEF LwipInv, Cls, Up

\* Once it is up, the UDP thread does not go back.
LEMMA LwipKeepsUp ==
    ASSUME LwipInv, Pcs("udp_server"), Up, Up', lwip_trp' = lwip_trp, mboxOn' = mboxOn
    PROVE  LwipInv'
<1>1. pc'["lwip"] = pc["lwip"]  BY Zenon DEF Pcs, Thread
<1>. QED  BY Zenon, <1>1 DEF LwipInv, Cls, Up

\* A client of esDS5Ready does not run before the USB host thread has.
LEMMA ClientsRunLate ==
    ASSUME KernelInv, PrioInv, MainInv, EventInv, sch.cur \in {"udp_server", "nrf24_tx"}
    PROVE  pc["usb_host"] # "start"
<1>. SUFFICES ASSUME pc["usb_host"] = "start" PROVE FALSE  BY Zenon
<1>. DEFINE t == sch.cur
<1>1. t \in Thread /\ "usb_host" \in Thread /\ Class(sch, t) = "run"  BY Zenon, RunningClass DEF Thread
<1>2. sch.prio[t] = NORMALPRIO /\ sch.prio["usb_host"] = NORMALPRIO + 2
  BY Zenon DEF EventInv, PrioInv, CreatePrio, Thread
<1>3. CASE Class(sch, "usb_host") = "none"
  <2>1. PICK i \in 1..3 : pc["main"] = MainOrder[i]  BY Zenon, <1>3 DEF MainInv, Cls
  <2>2. Class(sch, MainOrder[4]) = "none" /\ Class(sch, MainOrder[5]) = "none"
    BY <2>1 DEF MainInv, Cls
  <2>. QED  BY Zenon, <1>1, <2>2 DEF MainOrder
<1>4. CASE Class(sch, "usb_host") = "run"
  <2>1. sch.st["usb_host"] \in Run  BY Zenon, <1>1, <1>4, ClassFacts DEF KernelInv, Books
  <2>2. "usb_host" \in Range(sch.ready)  BY Zenon, <1>1, <2>1 DEF KernelInv, Books, Run
  <2>3. sch.prio["usb_host"] <= sch.prio[t]  BY Zenon, <2>2 DEF KernelInv, Topmost
  <2>. QED  BY <1>2, <2>3 DEF NORMALPRIO
<1>. QED  BY Zenon, <1>3, <1>4 DEF EventInv, Cls

LEMMA EventKeeps ==
    ASSUME KernelInv, PrioInv, MainInv, EventInv, NEW t \in Actors, t # "usb_host", Turn(t), Kern(t), Pcs(t),
           esDS5Ready'.init = esDS5Ready.init, Range(esDS5Ready.list) \subseteq Range(esDS5Ready'.list),
           hid = "off" => hid' = "off", esNRF24Interrupt.init => esNRF24Interrupt'.init,
           t # "nrf24_tx" => irqOn' = irqOn,
           t = "udp_server" =>
              /\ Up' /\ pc'["udp_server"] # "register" => "udp_server" \in Range(esDS5Ready'.list)
              /\ Class(sch', "udp_server") = "wtevt" => pc'["udp_server"] = "event",
           t = "nrf24_tx" =>
              /\ pc'["nrf24_tx"] # "start" /\ esNRF24Interrupt'.init
              /\ pc'["nrf24_tx"] \notin {"start", "init", "line", "register"} =>
                    "nrf24_tx" \in Range(esDS5Ready'.list)
              /\ Class(sch', "nrf24_tx") = "wtevt" => pc'["nrf24_tx"] = "event"
    PROVE  EventInv'
<1>1. "udp_server" \in Thread /\ "nrf24_tx" \in Thread /\ "usb_host" \in Thread  BY Zenon DEF Thread
<1>2. /\ pc'["usb_host"] = pc["usb_host"]
      /\ t # "udp_server" => pc'["udp_server"] = pc["udp_server"]
      /\ t # "nrf24_tx" => pc'["nrf24_tx"] = pc["nrf24_tx"]
  BY Zenon, <1>1 DEF Pcs
<1>3. t \in {"udp_server", "nrf24_tx"} => pc["usb_host"] # "start"
  BY Zenon, <1>1, ClientsRunLate DEF Turn
<1>4. Class(sch, "usb_host") \in {"none", "run"} => Class(sch', "usb_host") \in {"none", "run"}
  BY Zenon, <1>1 DEF Kern
<1>5. \A u \in {"udp_server", "nrf24_tx"} : u # t /\ Class(sch', u) = "wtevt" => Class(sch, u) = "wtevt"
  BY Zenon, <1>1 DEF Kern
<1>. QED  BY <1>2, <1>3, <1>4, <1>5 DEF EventInv, Cls, Up

\* Who copies, by class.
LEMMA CopyFacts ==
    ASSUME NEW t \in Users
    PROVE  /\ KernelInv => (InCopy(t) <=> pc[t] \in Held /\ Class(sch, t) # "wtmtx")
           /\ KernelInv' => (InCopy(t)' <=> pc'[t] \in Held /\ Class(sch', t) # "wtmtx")
<1>1. t \in Thread /\ "wtmtx" \in State \ Run  BY Zenon DEF Users, Thread, State, Waiting, Run
<1>2. KernelInv => (Class(sch, t) = "wtmtx" <=> sch.st[t] = "wtmtx")
  BY Zenon, <1>1, ClassFacts DEF KernelInv, Books
<1>3. KernelInv' => (Class(sch', t) = "wtmtx" <=> sch'.st[t] = "wtmtx")
  BY Zenon, <1>1, ClassFacts DEF KernelInv, Books
<1>. QED  BY Zenon, <1>2, <1>3 DEF InCopy, Held

LEMMA QuietKeeps ==
    ASSUME KernelInv, KernelInv', QuietInv, NEW t \in Actors, Turn(t), Kern(t), Pcs(t), mtx' = mtx,
           ~EarlyCommands => fault' = "none",
           t \in Users => /\ pc'[t] \in Held => pc[t] \in Held
                          /\ \A u \in Thread : u # t => Class(sch', u) = Class(sch, u) \/ Class(sch, u) # "wtmtx",
           t = "udp_server" => (Up' <=> Up),
           t = "shell" /\ ~EarlyCommands /\ pc'["shell"] \notin {"start", "line"} => Up
    PROVE  QuietInv'
<1>. SUFFICES ASSUME ~EarlyCommands
              PROVE  /\ pc'["shell"] \notin {"start", "line"} => Up'
                     /\ Up' => mtx.init
                     /\ \A u \in Users : InCopy(u)' => mtx.owner = u
  BY Zenon DEF QuietInv
<1>1. Users \subseteq Thread /\ "udp_server" \in Thread /\ "shell" \in Thread  BY Zenon DEF Users, Thread
<1>2. Up' <=> Up  BY Zenon, <1>1 DEF Up, Pcs
<1>3. pc'["shell"] \notin {"start", "line"} => Up  BY Zenon, <1>1 DEF QuietInv, Pcs
<1>4. ASSUME NEW u \in Users, InCopy(u)' PROVE mtx.owner = u
  <2>1. pc'[u] \in Held /\ Class(sch', u) # "wtmtx"  BY Zenon, <1>4, CopyFacts
  <2>2. pc[u] \in Held  BY Zenon, <1>1, <2>1 DEF Pcs
  <2>3. Class(sch, u) # "wtmtx"
    <3>1. CASE u = t  BY Zenon, <1>1, <3>1, RunningClass DEF Turn
    <3>2. CASE u # t  BY Zenon, <1>1, <2>1, <3>2 DEF Kern, Wakes, Users, Actors
    <3>. QED  BY Zenon, <3>1, <3>2
  <2>. QED  BY Zenon, <2>2, <2>3, CopyFacts DEF QuietInv
<1>. QED  BY Zenon, <1>2, <1>3, <1>4 DEF QuietInv

\* chMtxLock at the label l.
LEMMA LockStep ==
    ASSUME IInv, NEW t \in Users, NEW l, l \notin Held, NEW n \in Held, At(t, l, n), chMtxLock,
           t = "udp_server" => l \notin {"start", "suspend", "mutex"},
           t = "shell" => l # "start" /\ l # "line"
    PROVE  TypeInv' /\ KernelInv' /\ PrioInv' /\ MutexInv' /\ QuietInv' /\ Kern(t) /\ Pcs(t)
           /\ pc'[t] = n /\ (\A u \in Thread : u # t => Class(sch', u) = Class(sch, u))
           /\ Class(sch', t) \in {"run", "wtmtx"}
<1>1. /\ TypeInv /\ KernelInv /\ PrioInv /\ MutexInv /\ QuietInv /\ fault = "none" /\ sch.cur = t
      /\ pc[t] = l /\ pc' = [pc EXCEPT ![t] = n] /\ fault' = fault
      /\ esDS5Ready' = esDS5Ready /\ esNRF24Interrupt' = esNRF24Interrupt
  BY Zenon DEF IInv, At, chMtxLock, events
<1>2. t \in Thread /\ Users \subseteq Thread /\ Held \subseteq Label /\ t \in Actors /\ t # "idle" /\ Turn(t)
      /\ "udp_server" \in Thread /\ "shell" \in Thread /\ "lwip" \in Thread /\ Users = {"udp_server", "shell"}
  <2>1. Users = {"udp_server", "shell"} /\ Held \subseteq Label  BY Zenon DEF Users, Held, Label
  <2>2. "udp_server" \in Thread /\ "shell" \in Thread /\ "lwip" \in Thread  BY Zenon DEF Thread
  <2>3. t \in Thread /\ Users \subseteq Thread /\ t # "idle"  BY Zenon, <2>1, <2>2
  <2>. QED  BY Zenon, <1>1, <2>1, <2>2, <2>3 DEF Actors, Turn
<1>3. Pcs(t) /\ pc'[t] = n  BY Zenon, <1>1, <1>2, PcMove
<1>4. Class(sch, t) = "run" /\ sch \in Sched(Thread) /\ sch.prio \in [Thread -> Nat]
  BY Zenon, <1>1, RunningClass DEF KernelInv, Books, Sched
<1>5. /\ ~EarlyCommands => Up /\ fault' = "none" /\ (\A u \in Users : InCopy(u) => mtx.owner = u) /\ mtx.init
      /\ Up' <=> Up
  BY Zenon, <1>1, <1>2, <1>3 DEF QuietInv, Up, Pcs, Held
<1>6. PrioSame => PrioInv'
  <2>1. pc'["udp_server"] = "start" => pc["udp_server"] = "start"  BY Zenon, <1>1, <1>2, <1>3 DEF Pcs, Held
  <2>2. pc'["lwip"] = pc["lwip"]  BY Zenon, <1>2, <1>3 DEF Pcs
  <2>. QED  BY Zenon, <1>1, <2>1, <2>2, PrioKeeps
<1>7. CASE mtx.owner = NoThread
  <2>1. sch' = sch /\ mtx' = [mtx EXCEPT !.owner = t]
    BY Zenon, <1>1, <1>7 DEF chMtxLock, MtxLockSched, MtxLock
  <2>2. Kern(t) /\ \A u \in Thread : Class(sch', u) = Class(sch, u)  BY Zenon, <1>1, <1>2, <2>1, KernSame
  <2>3. KernelInv' /\ PrioInv'  BY Zenon, <1>1, <1>2, <1>6, <2>1, <2>2, KernelKeeps DEF PrioSame
  <2>4. mtx.queue = << >>  BY Zenon, <1>1, <1>2, <1>7 DEF MutexInv, NoThread
  <2>5. mtx'.owner = t /\ mtx'.queue = << >> /\ mtx'.init = mtx.init
        /\ mtx' \in [init : BOOLEAN, owner : {NoThread, "udp_server", "shell"}, queue : Seq(Thread)]
    BY Zenon, <1>1, <1>2, <2>1, <2>4 DEF TypeInv
  <2>6. TypeInv'  BY Zenon, <1>1, <1>3, <2>5 DEF TypeInv, Pcs
  <2>7. MutexInv'
    <3>1. \A u \in Thread : Class(sch', u) # "wtmtx"  BY <1>1, <2>2, <2>4 DEF MutexInv, Cls
    <3>. QED  BY Zenon, <1>3, <2>5, <3>1 DEF MutexInv, Cls
  <2>8. QuietInv'
    <3>1. ASSUME ~EarlyCommands, NEW u \in Users, InCopy(u)' PROVE u = t
      <4>1. pc'[u] \in Held /\ Class(sch', u) # "wtmtx"  BY Zenon, <2>3, <3>1, CopyFacts
      <4>2. CASE u # t
        <5>1. pc[u] \in Held /\ Class(sch, u) # "wtmtx"  BY Zenon, <1>2, <1>3, <2>2, <4>1, <4>2 DEF Pcs
        <5>2. InCopy(u)  BY Zenon, <1>1, <5>1, CopyFacts
        <5>. QED  BY Zenon, <1>2, <1>5, <1>7, <3>1, <5>2 DEF NoThread
      <4>. QED  BY Zenon, <4>2
    <3>. QED  BY Zenon, <1>5, <2>5, <3>1 DEF QuietInv
  <2>. QED  BY Zenon, <1>2, <1>3, <1>4, <2>2, <2>3, <2>6, <2>7, <2>8
<1>8. CASE mtx.owner # NoThread
  <2>. DEFINE o == mtx.owner
  <2>1. /\ o \in Users /\ o # t /\ mtx' = [mtx EXCEPT !.queue = <<t>>]
        /\ Books(Thread, sch') /\ Topmost(sch') /\ sch'.real = sch.real
        /\ Class(sch', t) = "wtmtx"
        /\ \A u \in Thread : u # t => Class(sch', u) = Class(sch, u)
        /\ \A u \in Thread : u # o => sch'.prio[u] = sch.prio[u]
        /\ sch'.prio[o] = IF sch.prio[o] >= sch.prio[t] THEN sch.prio[o] ELSE sch.prio[t]
    BY Zenon, <1>1, <1>8, LockCall
  <2>2. Kern(t)  BY Zenon, <2>1 DEF Kern
  <2>3. KernelInv'  BY Zenon, <1>1, <1>2, <2>2, KernelKeeps
  <2>4. mtx'.owner = o /\ mtx'.queue = <<t>> /\ mtx'.init = mtx.init
        /\ mtx' \in [init : BOOLEAN, owner : {NoThread, "udp_server", "shell"}, queue : Seq(Thread)]
    <3>1. PICK q : q = <<t>> /\ q \in Seq(Thread)
      <4>1. <<t>> \in Seq(Thread)  BY <1>2
      <4>. QED  BY Zenon, <4>1
    <3>2. mtx' = [mtx EXCEPT !.queue = q]  BY Zenon, <2>1, <3>1
    <3>3. q \in Seq(Thread)  BY Zenon, <3>1
    <3>4. mtx'.owner = o /\ mtx'.queue = q /\ mtx'.init = mtx.init
          /\ mtx' \in [init : BOOLEAN, owner : {NoThread, "udp_server", "shell"}, queue : Seq(Thread)]
      BY Zenon, <1>1, <3>2, <3>3 DEF TypeInv
    <3>. QED  BY Zenon, <3>1, <3>4
  <2>. HIDE DEF o
  <2>5. TypeInv'  BY Zenon, <1>1, <1>3, <2>4 DEF TypeInv, Pcs
  <2>6. pc[o] \in Held /\ pc'[o] = pc[o]  BY Zenon, <1>1, <1>2, <1>3, <1>8, <2>1 DEF MutexInv, Pcs, o
  <2>7. PrioInv'
    <3>1. pc'["udp_server"] # "start" \/ (pc["udp_server"] = "start" /\ o # "udp_server")
      BY Zenon, <1>1, <1>2, <1>3, <2>6 DEF Pcs, Held
    <3>2. pc'["lwip"] = pc["lwip"]  BY Zenon, <1>2, <1>3 DEF Pcs
    <3>. QED  BY <1>1, <1>2, <1>4, <2>1, <3>1, <3>2 DEF PrioInv, CreatePrio, NORMALPRIO, Thread
  <2>8. \A u \in Thread : Class(sch, u) # "wtmtx"
    <3>1. ASSUME mtx.queue # << >> PROVE FALSE
      <4>1. PICK u, v \in Users : u # v /\ mtx.owner = v /\ Class(sch, u) = "wtmtx"
        BY Zenon, <1>1, <3>1 DEF MutexInv, Cls
      <4>2. v = o  BY Zenon, <4>1 DEF o
      <4>3. u = t  BY Zenon, <1>2, <2>1, <4>1, <4>2
      <4>. QED  BY Zenon, <1>4, <4>1, <4>3
    <3>2. \A u : <<u>> # << >>  BY Zenon
    <3>. QED  BY Zenon, <1>1, <3>1, <3>2 DEF MutexInv, Cls
  <2>9. sch'.prio[o] >= sch'.prio[t]
    <3>1. sch.prio[o] \in Nat /\ sch.prio[t] \in Nat  BY Zenon, <1>2, <1>4, <2>1
    <3>. QED  BY <1>2, <2>1, <3>1
  <2>10. MutexInv'
    BY <1>1, <1>2, <1>3, <2>1, <2>4, <2>6, <2>8, <2>9 DEF MutexInv, Cls
  <2>11. QuietInv'
    <3>1. ASSUME ~EarlyCommands, NEW u \in Users, InCopy(u)' PROVE u = o
      BY Zenon, <1>2, <2>1, <2>3, <3>1, CopyFacts
    <3>. QED  BY Zenon, <1>5, <2>4, <3>1 DEF QuietInv
  <2>. QED  BY Zenon, <1>3, <2>1, <2>2, <2>3, <2>5, <2>7, <2>10, <2>11
<1>. QED  BY Zenon, <1>7, <1>8

\* chMtxUnlock at the label l.
LEMMA UnlockStep ==
    ASSUME IInv, NEW t \in Users, NEW l \in Held, NEW n \in Label \ Held, At(t, l, n), chMtxUnlock,
           t = "udp_server" => n \notin {"start", "suspend", "mutex"},
           t = "shell" => n = "start"
    PROVE  TypeInv' /\ KernelInv' /\ PrioInv' /\ MutexInv' /\ QuietInv' /\ Kern(t) /\ Pcs(t)
           /\ pc'[t] = n /\ Class(sch', t) = "run"
           /\ (\A u \in Thread \ Users : Class(sch', u) = Class(sch, u))
<1>1. /\ TypeInv /\ KernelInv /\ PrioInv /\ MutexInv /\ QuietInv /\ fault = "none" /\ sch.cur = t
      /\ pc[t] = l /\ pc' = [pc EXCEPT ![t] = n]
      /\ esDS5Ready' = esDS5Ready /\ esNRF24Interrupt' = esNRF24Interrupt
  BY Zenon DEF IInv, At, chMtxUnlock, events
<1>2. t \in Thread /\ Users \subseteq Thread /\ t \in Actors /\ t # "idle" /\ Turn(t)
      /\ "udp_server" \in Thread /\ "shell" \in Thread /\ "lwip" \in Thread /\ Users = {"udp_server", "shell"}
  <2>1. Users = {"udp_server", "shell"}  BY Zenon DEF Users
  <2>2. "udp_server" \in Thread /\ "shell" \in Thread /\ "lwip" \in Thread  BY Zenon DEF Thread
  <2>3. t \in Thread /\ Users \subseteq Thread /\ t # "idle"  BY Zenon, <2>1, <2>2
  <2>. QED  BY Zenon, <1>1, <2>1, <2>2, <2>3 DEF Actors, Turn
<1>3. Pcs(t) /\ pc'[t] = n  BY Zenon, <1>1, <1>2, PcMove
<1>4. /\ Class(sch, t) = "run" /\ sch \in Sched(Thread) /\ sch.prio \in [Thread -> Nat]
      /\ mtx \in [init : BOOLEAN, owner : {NoThread, "udp_server", "shell"}, queue : Seq(Thread)]
  BY Zenon, <1>1, RunningClass DEF KernelInv, Books, Sched, TypeInv
<1>5. pc["udp_server"] # "start" \/ t # "udp_server"  BY Zenon, <1>1 DEF Held
<1>6. /\ ~EarlyCommands => Up /\ mtx.init /\ \A u \in Users : InCopy(u) => mtx.owner = u
      /\ Up => Up'
      /\ pc'["udp_server"] = "start" => pc["udp_server"] = "start" /\ t # "udp_server"
      /\ pc'["lwip"] = pc["lwip"]
  BY Zenon, <1>1, <1>2, <1>3, <1>5 DEF QuietInv, Up, Pcs, Held
<1>7. PrioSame => PrioInv'  BY Zenon, <1>1, <1>6, PrioKeeps
<1>8. ASSUME ~EarlyCommands PROVE mtx.owner = t
  <2>1. InCopy(t)  BY Zenon, <1>1, <1>4, CopyFacts
  <2>. QED  BY Zenon, <1>6, <1>8, <2>1
<1>9. CASE ~mtx.init
  <2>1. EarlyCommands  BY Zenon, <1>6, <1>9
  <2>2. sch' = sch /\ mtx' = mtx /\ fault' = "mutex"  BY Zenon, <1>9 DEF chMtxUnlock
  <2>3. Kern(t) /\ \A u \in Thread : Class(sch', u) = Class(sch, u)  BY Zenon, <1>1, <1>2, <2>2, KernSame
  <2>4. KernelInv' /\ PrioInv'  BY Zenon, <1>1, <1>2, <1>7, <2>2, <2>3, KernelKeeps DEF PrioSame
  <2>5. TypeInv'  BY Zenon, <1>1, <1>3, <2>2 DEF TypeInv, Pcs
  <2>6. QuietInv'  BY Zenon, <2>1 DEF QuietInv
  <2>7. MutexInv'
    <3>1. \A u \in Thread : Class(sch', u) = "wtmtx" => mtx.queue = <<u>>
      BY Zenon, <1>1, <2>3 DEF MutexInv, Cls
    <3>2. ASSUME mtx.queue # << >>
          PROVE  \E u, o \in Users : /\ u # o /\ mtx.queue = <<u>> /\ mtx.owner = o
                                     /\ Class(sch', u) = "wtmtx" /\ pc'[u] \in Held
                                     /\ sch'.prio[o] >= sch'.prio[u]
      <4>1. PICK u, o \in Users : /\ u # o /\ mtx.queue = <<u>> /\ mtx.owner = o
                                  /\ Class(sch, u) = "wtmtx" /\ pc[u] \in Held
                                  /\ sch.prio[o] >= sch.prio[u]
        BY Zenon, <1>1, <3>2 DEF MutexInv, Cls
      <4>2. u # t  BY Zenon, <1>4, <4>1
      <4>. QED  BY Zenon, <1>2, <1>3, <2>2, <2>3, <4>1, <4>2 DEF Pcs
    <3>. QED  BY Zenon, <2>2, <3>1, <3>2 DEF MutexInv, Cls
  <2>. QED  BY Zenon, <1>2, <1>3, <1>4, <2>3, <2>4, <2>5, <2>6, <2>7
<1>10. CASE mtx.init /\ mtx.queue = << >>
  <2>1. sch' = sch /\ mtx' = [mtx EXCEPT !.owner = NoThread] /\ fault' = fault
    BY Zenon, <1>10 DEF chMtxUnlock, MtxUnlockSched, MtxUnlock
  <2>2. Kern(t) /\ \A u \in Thread : Class(sch', u) = Class(sch, u)  BY Zenon, <1>1, <1>2, <2>1, KernSame
  <2>3. KernelInv' /\ PrioInv'  BY Zenon, <1>1, <1>2, <1>7, <2>1, <2>2, KernelKeeps DEF PrioSame
  <2>4. mtx'.owner = NoThread /\ mtx'.queue = << >> /\ mtx'.init
        /\ mtx' \in [init : BOOLEAN, owner : {NoThread, "udp_server", "shell"}, queue : Seq(Thread)]
    BY Zenon, <1>4, <1>10, <2>1
  <2>5. TypeInv'  BY Zenon, <1>1, <1>3, <2>4 DEF TypeInv, Pcs
  <2>6. MutexInv'
    <3>1. \A u : <<u>> # << >>  BY Zenon
    <3>2. \A u \in Thread : Class(sch', u) # "wtmtx"  BY Zenon, <1>1, <1>10, <2>2, <3>1 DEF MutexInv, Cls
    <3>. QED  BY Zenon, <2>4, <3>2 DEF MutexInv, Cls
  <2>7. QuietInv'
    <3>1. ASSUME ~EarlyCommands, NEW u \in Users, InCopy(u)' PROVE FALSE
      <4>1. pc'[u] \in Held /\ Class(sch', u) # "wtmtx"  BY Zenon, <2>3, <3>1, CopyFacts
      <4>2. u # t  BY Zenon, <1>3, <4>1
      <4>3. pc[u] \in Held /\ Class(sch, u) # "wtmtx"  BY Zenon, <1>2, <1>3, <2>2, <4>1, <4>2 DEF Pcs
      <4>4. InCopy(u)  BY Zenon, <1>1, <4>3, CopyFacts
      <4>. QED  BY Zenon, <1>6, <1>8, <3>1, <4>2, <4>4
    <3>2. ~EarlyCommands => fault' = "none"  BY Zenon, <1>1, <2>1
    <3>. QED  BY Zenon, <1>6, <2>4, <3>1, <3>2 DEF QuietInv
  <2>. QED  BY Zenon, <1>2, <1>3, <1>4, <2>2, <2>3, <2>5, <2>6, <2>7
<1>11. CASE mtx.init /\ mtx.queue # << >>
  <2>1. PICK v \in Users :
              /\ v # t /\ Cls(v) = "wtmtx" /\ pc[v] \in Held
              /\ mtx' = [mtx EXCEPT !.owner = v, !.queue = << >>]
              /\ Books(Thread, sch') /\ Topmost(sch') /\ sch'.real = sch.real
              /\ sch'.prio = [sch.prio EXCEPT ![t] = sch.real[t]]
              /\ Class(sch', v) = "run"
              /\ \A u \in Thread : u # v => Class(sch', u) = Class(sch, u)
    BY Zenon, <1>1, <1>11, UnlockCall
  <2>2. fault' = fault  BY Zenon, <1>11 DEF chMtxUnlock
  <2>3. Kern(t)
    <3>1. "wtmtx" \in Wakes(t, v)  BY Zenon, <1>2, <2>1 DEF Wakes
    <3>. QED  BY Zenon, <1>2, <1>4, <2>1, <3>1 DEF Kern, Cls
  <2>4. KernelInv'  BY Zenon, <1>1, <1>2, <2>3, KernelKeeps
  <2>5. mtx'.owner = v /\ mtx'.queue = << >> /\ mtx'.init
        /\ mtx' \in [init : BOOLEAN, owner : {NoThread, "udp_server", "shell"}, queue : Seq(Thread)]
    <3>1. PICK q : q = << >> /\ q \in Seq(Thread)
      <4>1. << >> \in Seq(Thread)  OBVIOUS
      <4>. QED  BY Zenon, <4>1
    <3>2. mtx' = [mtx EXCEPT !.owner = v, !.queue = q] /\ q \in Seq(Thread)  BY Zenon, <2>1, <3>1
    <3>3. mtx'.owner = v /\ mtx'.queue = q /\ mtx'.init
          /\ mtx' \in [init : BOOLEAN, owner : {NoThread, "udp_server", "shell"}, queue : Seq(Thread)]
      BY Zenon, <1>2, <1>4, <1>11, <3>2
    <3>. QED  BY Zenon, <3>1, <3>3
  <2>6. TypeInv'  BY Zenon, <1>1, <1>3, <2>5 DEF TypeInv, Pcs
  <2>7. PrioInv'
    <3>1. \A u \in Thread : sch'.prio[u] = IF u = t THEN sch.real[t] ELSE sch.prio[u]
      BY Zenon, <1>2, <1>4, <2>1
    <3>. QED  BY <1>1, <1>2, <1>6, <2>1, <3>1 DEF PrioInv, CreatePrio, NORMALPRIO, Thread
  <2>8. \A u \in Thread : Class(sch', u) # "wtmtx"
    <3>1. PICK w : mtx.queue = <<w>>  BY Zenon, <1>1, <1>11 DEF MutexInv
    <3>2. \A u \in Thread : Class(sch, u) = "wtmtx" => <<u>> = <<w>>  BY Zenon, <1>1, <3>1 DEF MutexInv, Cls
    <3>3. \A u \in Thread : Class(sch, u) = "wtmtx" => u = w  BY Zenon, <3>2
    <3>. QED  BY Zenon, <1>2, <2>1, <3>3 DEF Cls
  <2>9. pc'[v] \in Held  BY Zenon, <1>2, <1>3, <2>1 DEF Pcs
  <2>10. MutexInv'  BY Zenon, <2>5, <2>8, <2>9 DEF MutexInv, Cls
  <2>11. QuietInv'
    <3>1. ASSUME ~EarlyCommands, NEW u \in Users, InCopy(u)' PROVE u = v
      <4>1. pc'[u] \in Held  BY Zenon, <2>4, <3>1, CopyFacts
      <4>. QED  BY Zenon, <1>2, <1>3, <2>1, <4>1
    <3>2. ~EarlyCommands => fault' = "none"  BY Zenon, <1>1, <2>2
    <3>. QED  BY Zenon, <1>6, <2>5, <3>1, <3>2 DEF QuietInv
  <2>. QED  BY Zenon, <1>2, <1>3, <1>4, <2>1, <2>3, <2>4, <2>6, <2>7, <2>10, <2>11
<1>. QED  BY Zenon, <1>9, <1>10, <1>11

-----------------------------------------------------------------------------
(* The steps of each thread keep the invariant.                            *)

\* A step of none of main, the users of the mutex and lwip_thread.
LEMMA OtherStep ==
    ASSUME IInv, NEW t \in Actors, t \notin {"main", "idle", "udp_server", "lwip", "shell"},
           Turn(t), fault = "none", Kern(t), Orderly, Pcs(t),
           t \in Thread => Class(sch', t) # "wtmtx",
           mtx' = mtx, lwip_trp' = lwip_trp, mboxOn' = mboxOn, ~EarlyCommands => fault' = "none",
           esDS5Ready' \in [init : BOOLEAN, list : Seq(Thread)],
           esNRF24Interrupt' \in [init : BOOLEAN, list : Seq(Thread)],
           EventInv'
    PROVE  IInv'
<1>1. TypeInv /\ KernelInv /\ PrioInv /\ MainInv /\ MutexInv /\ LwipInv /\ QuietInv  BY Zenon DEF IInv
<1>2. "udp_server" \in Thread /\ "lwip" \in Thread /\ "main" \in Thread  BY Zenon DEF Thread
<1>3. t \notin Users /\ Users \subseteq Thread  BY Zenon DEF Users, Thread
<1>4. TypeInv'  BY Zenon, <1>1 DEF TypeInv, Pcs
<1>5. KernelInv'  BY Zenon, <1>1, KernelKeeps
<1>6. PrioInv'
  <2>1. pc'["udp_server"] = pc["udp_server"] /\ pc'["lwip"] = pc["lwip"]  BY Zenon, <1>2 DEF Pcs
  <2>. QED  BY Zenon, <1>1, <2>1, PrioKeeps DEF Orderly, PrioSame
<1>7. MainInv'
  <2>1. Class(sch, "main") = "wtexit" => Class(sch', "main") = "wtexit"  BY Zenon, <1>2 DEF Kern, Wakes
  <2>. QED  BY Zenon, <1>1, <2>1, MainKeeps
<1>8. MutexInv'  BY Zenon, <1>1, <1>3, MutexKeeps DEF Orderly
<1>9. LwipInv'  BY Zenon, <1>1, LwipKeeps
<1>10. QuietInv'  BY Zenon, <1>1, <1>3, <1>5, QuietKeeps
<1>. QED  BY Zenon, <1>4, <1>5, <1>6, <1>7, <1>8, <1>9, <1>10 DEF IInv

\* A step that only sleeps or computes.
LEMMA BlockStep ==
    ASSUME IInv, NEW t \in Thread, t # "idle", NEW l, NEW n \in Label, At(t, l, n), Block
    PROVE  /\ Turn(t) /\ t \in Actors /\ fault = "none" /\ Kern(t) /\ Orderly /\ Pcs(t)
           /\ pc[t] = l /\ pc'[t] = n /\ Class(sch', t) = "blocked"
           /\ \A u \in Thread : u # t => Class(sch', u) = Class(sch, u)
           /\ esDS5Ready' = esDS5Ready /\ esNRF24Interrupt' = esNRF24Interrupt
           /\ mtx' = mtx /\ lwip_trp' = lwip_trp /\ hid' = hid /\ irqOn' = irqOn /\ mboxOn' = mboxOn
           /\ fault' = fault
<1>1. /\ TypeInv /\ KernelInv /\ fault = "none" /\ sch.cur = t /\ pc[t] = l /\ pc' = [pc EXCEPT ![t] = n]
      /\ sch' = GoSleep(sch, "blocked")
      /\ esDS5Ready' = esDS5Ready /\ esNRF24Interrupt' = esNRF24Interrupt
      /\ mtx' = mtx /\ lwip_trp' = lwip_trp /\ hid' = hid /\ irqOn' = irqOn /\ mboxOn' = mboxOn
      /\ fault' = fault
  BY Zenon DEF IInv, At, Block, events, devices
<1>2. Pcs(t) /\ pc'[t] = n  BY Zenon, <1>1, PcMove
<1>3. "blocked" \in State \ Run  BY Zenon DEF State, Waiting, Run
<1>4. Effect(t, "blocked")  BY Zenon, <1>1, <1>3, SleepCall
<1>5. /\ Kern(t) /\ Orderly /\ Class(sch', t) = "blocked"
      /\ \A u \in Thread : u # t => Class(sch', u) = Class(sch, u)
  BY Zenon, <1>4, KernOwn
<1>6. Turn(t) /\ t \in Actors  BY Zenon, <1>1 DEF Turn, Actors
<1>. QED  BY Zenon, <1>1, <1>2, <1>5, <1>6

LEMMA ComputeStep ==
    ASSUME IInv, NEW t \in Thread, NEW l, NEW n \in Label, At(t, l, n), sch' = sch
    PROVE  /\ Turn(t) /\ t \in Actors /\ fault = "none" /\ Kern(t) /\ Orderly /\ Pcs(t)
           /\ pc[t] = l /\ pc'[t] = n /\ Class(sch', t) = "run"
           /\ \A u \in Thread : Class(sch', u) = Class(sch, u)
<1>1. /\ TypeInv /\ KernelInv /\ fault = "none" /\ sch.cur = t /\ pc[t] = l /\ pc' = [pc EXCEPT ![t] = n]
  BY Zenon DEF IInv, At
<1>2. Pcs(t) /\ pc'[t] = n  BY Zenon, <1>1, PcMove
<1>3. Turn(t) /\ t \in Actors  BY Zenon, <1>1 DEF Turn, Actors
<1>4. Class(sch', t) = "run"  BY Zenon, <1>1, RunningClass
<1>5. Kern(t) /\ Orderly /\ \A u \in Thread : Class(sch', u) = Class(sch, u)  BY Zenon, <1>1, <1>3, KernSame
<1>. QED  BY Zenon, <1>1, <1>2, <1>3, <1>4, <1>5

\* Such a step of a thread that is not a client of an event source.
LEMMA BlinkerStep == IInv /\ Thread1 => IInv'
<1>. SUFFICES ASSUME IInv, Thread1 PROVE IInv'  BY Zenon
<1>. DEFINE t == "blinker"
<1>1. t \in Thread /\ "start" \in Label /\ At(t, "start", "start") /\ Block  BY Zenon DEF Thread, Label, Thread1
<1>2. /\ Turn(t) /\ t \in Actors /\ fault = "none" /\ Kern(t) /\ Orderly /\ Pcs(t) /\ Class(sch', t) = "blocked"
      /\ esDS5Ready' = esDS5Ready /\ esNRF24Interrupt' = esNRF24Interrupt
      /\ mtx' = mtx /\ lwip_trp' = lwip_trp /\ hid' = hid /\ irqOn' = irqOn /\ mboxOn' = mboxOn /\ fault' = fault
  BY Zenon, <1>1, BlockStep
<1>3. TypeInv /\ KernelInv /\ PrioInv /\ MainInv /\ EventInv  BY Zenon DEF IInv
<1>4. EventInv'  BY Zenon, <1>2, <1>3, EventKeeps
<1>. QED  BY Zenon, <1>2, <1>3, <1>4, OtherStep DEF TypeInv

LEMMA HidStep == IInv /\ ThreadTestHID => IInv'
<1>. SUFFICES ASSUME IInv, ThreadTestHID PROVE IInv'  BY Zenon
<1>. DEFINE t == "HID"
<1>1. t \in Thread /\ "start" \in Label /\ "sleep" \in Label  BY Zenon DEF Thread, Label
<1>2. TypeInv /\ KernelInv /\ PrioInv /\ MainInv /\ EventInv  BY Zenon DEF IInv
<1>3. /\ Turn(t) /\ t \in Actors /\ fault = "none" /\ Kern(t) /\ Orderly /\ Pcs(t) /\ Class(sch', t) # "wtmtx"
      /\ esDS5Ready' = esDS5Ready /\ esNRF24Interrupt' = esNRF24Interrupt
      /\ mtx' = mtx /\ lwip_trp' = lwip_trp /\ irqOn' = irqOn /\ mboxOn' = mboxOn /\ fault' = fault
      /\ hid = "off" => hid' = "off"
  <2>1. CASE At(t, "sleep", "start") /\ Block  BY Zenon, <1>1, <2>1, BlockStep
  <2>2. CASE /\ At(t, "start", "sleep")
             /\ hid' = IF hid = "active" THEN "ready" ELSE hid
             /\ UNCHANGED <<sch, events, mtx, lwip_trp, irqOn, mboxOn, fault>>
    <3>1. sch' = sch  BY Zenon, <2>2
    <3>2. /\ Turn(t) /\ t \in Actors /\ fault = "none" /\ Kern(t) /\ Orderly /\ Pcs(t) /\ Class(sch', t) = "run"
      BY Zenon, <1>1, <2>2, <3>1, ComputeStep
    <3>. QED  BY Zenon, <2>2, <3>2 DEF events
  <2>. QED  BY Zenon, <2>1, <2>2 DEF ThreadTestHID
<1>4. EventInv'  BY Zenon, <1>2, <1>3, EventKeeps
<1>. QED  BY Zenon, <1>2, <1>3, <1>4, OtherStep DEF TypeInv

LEMMA UsbStep == IInv /\ UsbHostThread => IInv'
<1>. SUFFICES ASSUME IInv, UsbHostThread PROVE IInv'  BY Zenon
<1>. DEFINE t == "usb_host"
<1>1. /\ t \in Thread /\ "usbh" \in Label /\ "poll" \in Label /\ "sleep" \in Label
      /\ "udp_server" \in Thread /\ "nrf24_tx" \in Thread
  BY Zenon DEF Thread, Label
<1>2. TypeInv /\ KernelInv /\ PrioInv /\ MainInv /\ EventInv  BY Zenon DEF IInv
<1>3. /\ Turn(t) /\ t \in Actors /\ fault = "none" /\ Kern(t) /\ Orderly /\ Pcs(t) /\ Class(sch', t) # "wtmtx"
      /\ mtx' = mtx /\ lwip_trp' = lwip_trp /\ irqOn' = irqOn /\ mboxOn' = mboxOn /\ fault' = fault
      /\ esNRF24Interrupt' = esNRF24Interrupt
      /\ esDS5Ready' \in [init : BOOLEAN, list : Seq(Thread)] /\ esDS5Ready'.init
      /\ pc'[t] # "start" /\ (pc'[t] = "usbh" => hid' = "off")
      /\ pc[t] = "start" \/ esDS5Ready' = esDS5Ready
  <2>1. CASE At(t, "sleep", "poll") /\ Block
    <3>1. /\ Turn(t) /\ t \in Actors /\ fault = "none" /\ Kern(t) /\ Orderly /\ Pcs(t) /\ Class(sch', t) = "blocked"
          /\ pc[t] = "sleep" /\ pc'[t] = "poll"
          /\ esDS5Ready' = esDS5Ready /\ esNRF24Interrupt' = esNRF24Interrupt
          /\ mtx' = mtx /\ lwip_trp' = lwip_trp /\ hid' = hid /\ irqOn' = irqOn /\ mboxOn' = mboxOn /\ fault' = fault
      BY Zenon, <1>1, <2>1, BlockStep
    <3>. QED  BY Zenon, <1>2, <3>1 DEF EventInv, TypeInv
  <2>2. ASSUME NEW l, NEW n \in Label, At(t, l, n), sch' = sch
        PROVE  /\ Turn(t) /\ t \in Actors /\ fault = "none" /\ Kern(t) /\ Orderly /\ Pcs(t) /\ Class(sch', t) # "wtmtx"
               /\ pc[t] = l /\ pc'[t] = n
    BY Zenon, <1>1, <2>2, ComputeStep
  <2>3. CASE /\ At("usb_host", "start", "usbh")
             /\ esDS5Ready' = EvtObjectInit(esDS5Ready)
             /\ UNCHANGED <<sch, esNRF24Interrupt, epending, mtx, lwip_trp, devices, fault>>
    <3>1. << >> \in Seq(Thread)  OBVIOUS
    <3>2. esDS5Ready' \in [init : BOOLEAN, list : Seq(Thread)] /\ esDS5Ready'.init
      BY Zenon, <2>3, <3>1 DEF EvtObjectInit
    <3>3. pc[t] = "start"  BY Zenon, <2>3 DEF At
    <3>4. hid' = "off"  BY Zenon, <1>2, <2>3, <3>3 DEF EventInv, devices
    <3>. QED  BY Zenon, <1>1, <2>2, <2>3, <3>2, <3>4 DEF devices
  <2>4. CASE /\ At("usb_host", "usbh", "poll")
             /\ hid' = "empty"
             /\ UNCHANGED <<sch, events, mtx, lwip_trp, irqOn, mboxOn, fault>>
    BY <1>1, <1>2, <2>2, <2>4 DEF events, EventInv, TypeInv
  <2>5. CASE /\ At("usb_host", "poll", "sleep")
             /\ UNCHANGED <<sch, events, mtx, lwip_trp, irqOn, mboxOn, fault>>
    BY <1>1, <1>2, <2>2, <2>5 DEF events, EventInv, TypeInv
  <2>. QED  BY Zenon, <2>1, <2>3, <2>4, <2>5 DEF UsbHostThread
<1>4. pc'["udp_server"] = pc["udp_server"] /\ pc'["nrf24_tx"] = pc["nrf24_tx"]  BY Zenon, <1>1, <1>3 DEF Pcs
<1>5. \A u \in {"udp_server", "nrf24_tx"} : Class(sch', u) = "wtevt" => Class(sch, u) = "wtevt"
  BY Zenon, <1>1, <1>3 DEF Kern
<1>6. EventInv'  BY Zenon, <1>2, <1>3, <1>4, <1>5 DEF EventInv, Cls, Up
<1>. QED  BY Zenon, <1>2, <1>3, <1>6, OtherStep DEF TypeInv

\* chEvtWaitOne goes on, or sleeps at the same label.
LEMMA WaitStep ==
    ASSUME IInv, NEW t \in Thread, t # "idle", NEW l \in Label, NEW n \in Label, chEvtWaitOne(t, l, n)
    PROVE  /\ Turn(t) /\ t \in Actors /\ fault = "none" /\ Kern(t) /\ Orderly /\ Pcs(t)
           /\ pc[t] = l /\ pc'[t] \in {l, n} /\ Class(sch', t) \in {"run", "wtevt"}
           /\ Class(sch', t) = "wtevt" => pc'[t] = l
           /\ \A u \in Thread : u # t => Class(sch', u) = Class(sch, u)
           /\ esDS5Ready' = esDS5Ready /\ esNRF24Interrupt' = esNRF24Interrupt
           /\ mtx' = mtx /\ lwip_trp' = lwip_trp /\ hid' = hid /\ irqOn' = irqOn /\ mboxOn' = mboxOn
           /\ fault' = fault
<1>1. /\ TypeInv /\ KernelInv /\ fault = "none" /\ sch.cur = t /\ pc[t] = l
      /\ esDS5Ready' = esDS5Ready /\ esNRF24Interrupt' = esNRF24Interrupt
      /\ mtx' = mtx /\ lwip_trp' = lwip_trp /\ hid' = hid /\ irqOn' = irqOn /\ mboxOn' = mboxOn
      /\ fault' = fault
  BY Zenon DEF IInv, chEvtWaitOne, devices
<1>2. Turn(t) /\ t \in Actors  BY Zenon, <1>1 DEF Turn, Actors
<1>3. CASE t \in epending
  <2>1. pc' = [pc EXCEPT ![t] = n] /\ sch' = sch  BY Zenon, <1>3 DEF chEvtWaitOne
  <2>2. Pcs(t) /\ pc'[t] = n  BY Zenon, <1>1, <2>1, PcMove
  <2>3. Class(sch', t) = "run"  BY Zenon, <1>1, <2>1, RunningClass
  <2>4. Kern(t) /\ Orderly /\ \A u \in Thread : Class(sch', u) = Class(sch, u)
    BY Zenon, <1>1, <1>2, <2>1, KernSame
  <2>. QED  BY Zenon, <1>1, <1>2, <2>2, <2>3, <2>4
<1>4. CASE t \notin epending
  <2>1. pc' = pc /\ sch' = GoSleep(sch, "wtevt")  BY Zenon, <1>4 DEF chEvtWaitOne
  <2>2. Pcs(t) /\ pc'[t] = l  BY Zenon, <1>1, <2>1 DEF Pcs, TypeInv
  <2>3. "wtevt" \in State \ Run  BY Zenon DEF State, Waiting, Run
  <2>4. Effect(t, "wtevt")  BY Zenon, <1>1, <2>1, <2>3, SleepCall
  <2>5. /\ Kern(t) /\ Orderly /\ Class(sch', t) = "wtevt"
        /\ \A u \in Thread : u # t => Class(sch', u) = Class(sch, u)
    BY Zenon, <2>4, KernOwn
  <2>. QED  BY Zenon, <1>1, <1>2, <2>2, <2>5
<1>. QED  BY Zenon, <1>3, <1>4

\* The listener is the first of the list.
LEMMA RegisterFacts ==
    ASSUME NEW es \in [init : BOOLEAN, list : Seq(Thread)], NEW t \in Thread
    PROVE  LET n == EvtRegister(es, t)
           IN  /\ n \in [init : BOOLEAN, list : Seq(Thread)] /\ n.init = es.init
               /\ t \in Range(n.list) /\ Range(es.list) \subseteq Range(n.list)
<1>. DEFINE a == <<t>>
            l == es.list
            r == a \o l
            n == EvtRegister(es, t)
<1>1. a \in Seq(Thread) /\ Len(a) = 1 /\ a[1] = t  OBVIOUS
<1>2. l \in Seq(Thread) /\ Len(l) \in Nat  OBVIOUS
<1>3. n = [es EXCEPT !.list = r]  BY Zenon DEF EvtRegister
<1>. HIDE DEF a, l
<1>4. r \in Seq(Thread) /\ Len(r) = 1 + Len(l)
      /\ \A i \in 1..Len(r) : r[i] = IF i <= 1 THEN a[i] ELSE l[i - 1]
  <2>1. a \in Seq(Thread) /\ l \in Seq(Thread)  BY Zenon, <1>1, <1>2
  <2>2. /\ a \o l \in Seq(Thread) /\ Len(a \o l) = Len(a) + Len(l)
        /\ \A i \in 1..Len(a \o l) : (a \o l)[i] = IF i <= Len(a) THEN a[i] ELSE l[i - Len(a)]
    BY Zenon, <2>1, ConcatFacts
  <2>. QED  BY Zenon, <1>1, <2>2
<1>. HIDE DEF r, n
<1>5. n \in [init : BOOLEAN, list : Seq(Thread)] /\ n.init = es.init /\ n.list = r  BY Zenon, <1>3, <1>4
<1>6. t \in Range(r)
  <2>1. 1 \in 1..Len(r) /\ r[1] = t  BY <1>1, <1>2, <1>4
  <2>. QED  BY Zenon, <1>4, <2>1, RangeFacts
<1>7. ASSUME NEW x \in Range(l) PROVE x \in Range(r)
  <2>1. PICK i \in 1..Len(l) : l[i] = x  BY Zenon, <1>2, RangeFacts
  <2>2. i + 1 \in 1..Len(r) /\ r[i + 1] = l[i]  BY <1>2, <1>4
  <2>. QED  BY Zenon, <1>4, <2>1, <2>2, RangeFacts
<1>. QED  BY Zenon, <1>5, <1>6, <1>7 DEF n, l

\* The steps of the radio's threads, their calls of the driver included.
LEMMA RadioStep ==
    ASSUME IInv, NEW t \in {"nrf24_tx", "nrf24_irq"}, Turn(t), t \in Actors, fault = "none", Kern(t), Orderly, Pcs(t),
           Class(sch', t) # "wtmtx",
           mtx' = mtx, lwip_trp' = lwip_trp, mboxOn' = mboxOn, hid' = hid, fault' = fault,
           esDS5Ready' \in [init : BOOLEAN, list : Seq(Thread)], esDS5Ready'.init = esDS5Ready.init,
           Range(esDS5Ready.list) \subseteq Range(esDS5Ready'.list),
           esNRF24Interrupt' \in [init : BOOLEAN, list : Seq(Thread)],
           esNRF24Interrupt.init => esNRF24Interrupt'.init,
           t # "nrf24_tx" => irqOn' = irqOn,
           t = "nrf24_tx" =>
              /\ pc'["nrf24_tx"] # "start" /\ esNRF24Interrupt'.init
              /\ pc'["nrf24_tx"] \notin {"start", "init", "line", "register"} =>
                    "nrf24_tx" \in Range(esDS5Ready'.list)
              /\ Class(sch', "nrf24_tx") = "wtevt" => pc'["nrf24_tx"] = "event"
    PROVE  IInv'
<1>1. TypeInv /\ KernelInv /\ PrioInv /\ MainInv /\ EventInv  BY Zenon DEF IInv
<1>2. EventInv'  BY Zenon, <1>1, EventKeeps
<1>. QED  BY Zenon, <1>1, <1>2, OtherStep DEF IInv, QuietInv

LEMMA TxStep == IInv /\ NRF24TxThread => IInv'
<1>. SUFFICES ASSUME IInv, NRF24TxThread PROVE IInv'  BY Zenon
<1>. DEFINE t == "nrf24_tx"
<1>1. /\ t \in Thread /\ "init" \in Label /\ "register" \in Label /\ "address" \in Label
      /\ "event" \in Label /\ "send" \in Label
  BY Zenon DEF Thread, Label
<1>2. TypeInv /\ EventInv  BY Zenon DEF IInv
<1>3. ASSUME NEW l, NEW n \in Label, At(t, l, n), sch' = sch
      PROVE  /\ Turn(t) /\ t \in Actors /\ fault = "none" /\ Kern(t) /\ Orderly /\ Pcs(t) /\ Class(sch', t) = "run"
             /\ pc[t] = l /\ pc'[t] = n
  BY Zenon, <1>1, <1>3, ComputeStep
<1>4. CASE /\ At("nrf24_tx", "start", "init")
           /\ esNRF24Interrupt' = EvtObjectInit(esNRF24Interrupt)
           /\ UNCHANGED <<sch, esDS5Ready, epending, mtx, lwip_trp, devices, fault>>
  <2>1. << >> \in Seq(Thread)  OBVIOUS
  <2>2. esNRF24Interrupt' \in [init : BOOLEAN, list : Seq(Thread)] /\ esNRF24Interrupt'.init
    BY Zenon, <1>4, <2>1 DEF EvtObjectInit
  <2>. QED  BY Zenon, <1>1, <1>2, <1>3, <1>4, <2>2, RadioStep DEF devices, TypeInv
<1>5. CASE /\ At("nrf24_tx", "line", "register")
           /\ irqOn' = TRUE
           /\ UNCHANGED <<sch, events, mtx, lwip_trp, hid, mboxOn, fault>>
  <2>1. pc[t] = "line"  BY Zenon, <1>1, <1>3, <1>5
  <2>2. esNRF24Interrupt'.init  BY Zenon, <1>2, <1>5, <2>1 DEF EventInv, events
  <2>. QED  BY Zenon, <1>1, <1>2, <1>3, <1>5, <2>2, RadioStep DEF events, TypeInv
<1>6. CASE /\ At("nrf24_tx", "register", "address")
           /\ esDS5Ready' = EvtRegister(esDS5Ready, "nrf24_tx")
           /\ UNCHANGED <<sch, esNRF24Interrupt, epending, mtx, lwip_trp, devices, fault>>
  <2>1. pc[t] = "register"  BY Zenon, <1>1, <1>3, <1>6
  <2>2. esNRF24Interrupt'.init  BY Zenon, <1>2, <1>6, <2>1 DEF EventInv
  <2>3. esDS5Ready \in [init : BOOLEAN, list : Seq(Thread)]  BY Zenon, <1>2 DEF TypeInv
  <2>4. /\ esDS5Ready' \in [init : BOOLEAN, list : Seq(Thread)] /\ esDS5Ready'.init = esDS5Ready.init
        /\ t \in Range(esDS5Ready'.list) /\ Range(esDS5Ready.list) \subseteq Range(esDS5Ready'.list)
    BY Zenon, <1>1, <1>6, <2>3, RegisterFacts
  <2>. QED  BY Zenon, <1>1, <1>2, <1>3, <1>6, <2>2, <2>4, RadioStep DEF devices, TypeInv
<1>7. CASE chEvtWaitOne("nrf24_tx", "event", "send")
  <2>1. /\ Turn(t) /\ t \in Actors /\ fault = "none" /\ Kern(t) /\ Orderly /\ Pcs(t)
        /\ pc[t] = "event" /\ pc'[t] \in {"event", "send"} /\ Class(sch', t) \in {"run", "wtevt"}
        /\ Class(sch', t) = "wtevt" => pc'[t] = "event"
        /\ esDS5Ready' = esDS5Ready /\ esNRF24Interrupt' = esNRF24Interrupt
        /\ mtx' = mtx /\ lwip_trp' = lwip_trp /\ hid' = hid /\ irqOn' = irqOn /\ mboxOn' = mboxOn
        /\ fault' = fault
    BY Zenon, <1>1, <1>7, WaitStep
  <2>2. esNRF24Interrupt.init /\ t \in Range(esDS5Ready.list)  BY Zenon, <1>2, <2>1 DEF EventInv
  <2>. QED  BY Zenon, <1>2, <2>1, <2>2, RadioStep DEF TypeInv
<1>. QED  BY Zenon, <1>4, <1>5, <1>6, <1>7 DEF NRF24TxThread

LEMMA IrqStep == IInv /\ NRF24InterruptThread => IInv'
<1>. SUFFICES ASSUME IInv, NRF24InterruptThread PROVE IInv'  BY Zenon
<1>. DEFINE t == "nrf24_irq"
<1>1. t \in Thread /\ "event" \in Label /\ "handle" \in Label  BY Zenon DEF Thread, Label
<1>2. TypeInv  BY Zenon DEF IInv
<1>3. CASE /\ At("nrf24_irq", "start", "event")
           /\ esNRF24Interrupt' = EvtRegister(esNRF24Interrupt, "nrf24_irq")
           /\ UNCHANGED <<sch, esDS5Ready, epending, mtx, lwip_trp, devices, fault>>
  <2>1. sch' = sch  BY Zenon, <1>3
  <2>2. /\ Turn(t) /\ t \in Actors /\ fault = "none" /\ Kern(t) /\ Orderly /\ Pcs(t) /\ Class(sch', t) = "run"
    BY Zenon, <1>1, <1>3, <2>1, ComputeStep
  <2>3. esNRF24Interrupt \in [init : BOOLEAN, list : Seq(Thread)]  BY Zenon, <1>2 DEF TypeInv
  <2>4. esNRF24Interrupt' \in [init : BOOLEAN, list : Seq(Thread)] /\ esNRF24Interrupt'.init = esNRF24Interrupt.init
    BY Zenon, <1>1, <1>3, <2>3, RegisterFacts
  <2>. QED  BY Zenon, <1>2, <1>3, <2>2, <2>4, RadioStep DEF devices, TypeInv
<1>4. CASE chEvtWaitOne("nrf24_irq", "event", "handle")
  <2>1. /\ Turn(t) /\ t \in Actors /\ fault = "none" /\ Kern(t) /\ Orderly /\ Pcs(t)
        /\ Class(sch', t) \in {"run", "wtevt"}
        /\ esDS5Ready' = esDS5Ready /\ esNRF24Interrupt' = esNRF24Interrupt
        /\ mtx' = mtx /\ lwip_trp' = lwip_trp /\ hid' = hid /\ irqOn' = irqOn /\ mboxOn' = mboxOn
        /\ fault' = fault
    BY Zenon, <1>1, <1>4, WaitStep
  <2>. QED  BY Zenon, <1>2, <2>1, RadioStep DEF TypeInv
<1>. QED  BY Zenon, <1>3, <1>4 DEF NRF24InterruptThread

LEMMA InterruptStep == IInv /\ Interrupt => IInv'
<1>. SUFFICES ASSUME IInv, Interrupt PROVE IInv'  BY Zenon
<1>. DEFINE t == "interrupt"
<1>1. t \in Actors /\ t \notin Thread /\ Turn(t)  BY Zenon DEF Actors, Thread, Turn
<1>2. TypeInv /\ KernelInv /\ PrioInv /\ MainInv /\ EventInv  BY Zenon DEF IInv
<1>3. ASSUME NEW es \in [init : BOOLEAN, list : Seq(Thread)], es.init, fault = "none", chEvtBroadcastI(es)
      PROVE  /\ fault = "none" /\ Kern(t) /\ Orderly /\ pc' = pc /\ fault' = fault
             /\ esDS5Ready' = esDS5Ready /\ esNRF24Interrupt' = esNRF24Interrupt
             /\ mtx' = mtx /\ lwip_trp' = lwip_trp /\ hid' = hid /\ irqOn' = irqOn /\ mboxOn' = mboxOn
  <2>1. /\ Books(Thread, sch') /\ Topmost(sch') /\ sch'.prio = sch.prio /\ sch'.real = sch.real
        /\ NoOvertaking(Thread, sch, sch')
        /\ \A u \in Thread : Class(sch', u) = Class(sch, u)
                             \/ (Class(sch', u) = "run" /\ Class(sch, u) = "wtevt")
    BY Zenon, <1>2, <1>3, AnnounceCall
  <2>2. Kern(t) /\ Orderly  BY Zenon, <1>1, <2>1 DEF Kern, Orderly, Wakes
  <2>. QED  BY Zenon, <1>3, <2>2 DEF chEvtBroadcastI, devices
<1>4. /\ fault = "none" /\ Kern(t) /\ Orderly /\ pc' = pc /\ fault' = fault
      /\ esDS5Ready' = esDS5Ready /\ esNRF24Interrupt' = esNRF24Interrupt
      /\ mtx' = mtx /\ lwip_trp' = lwip_trp /\ hid' = hid /\ irqOn' = irqOn /\ mboxOn' = mboxOn
  <2>1. CASE HidReport
    <3>1. fault = "none" /\ hid = "ready" /\ chEvtBroadcastI(esDS5Ready)  BY Zenon, <2>1 DEF HidReport
    <3>2. esDS5Ready.init  BY Zenon, <1>2, <3>1 DEF EventInv
    <3>3. esDS5Ready \in [init : BOOLEAN, list : Seq(Thread)]  BY Zenon, <1>2 DEF TypeInv
    <3>. QED  BY Zenon, <1>3, <3>1, <3>2, <3>3
  <2>2. CASE GpioInterrupt
    <3>1. fault = "none" /\ irqOn /\ chEvtBroadcastI(esNRF24Interrupt)  BY Zenon, <2>2 DEF GpioInterrupt
    <3>2. esNRF24Interrupt.init  BY Zenon, <1>2, <3>1 DEF EventInv
    <3>3. esNRF24Interrupt \in [init : BOOLEAN, list : Seq(Thread)]  BY Zenon, <1>2 DEF TypeInv
    <3>. QED  BY Zenon, <1>3, <3>1, <3>2, <3>3
  <2>3. ASSUME NEW v \in Thread, Complete(v)
        PROVE  /\ fault = "none" /\ Kern(t) /\ Orderly /\ pc' = pc /\ fault' = fault
               /\ esDS5Ready' = esDS5Ready /\ esNRF24Interrupt' = esNRF24Interrupt
               /\ mtx' = mtx /\ lwip_trp' = lwip_trp /\ hid' = hid /\ irqOn' = irqOn /\ mboxOn' = mboxOn
    <3>1. Effect(v, "run") /\ Class(sch, v) = "blocked"  BY Zenon, <1>2, <2>3, CompleteCall DEF Cls
    <3>2. "blocked" \in Wakes(t, v) /\ v # t  BY Zenon, <1>1 DEF Wakes
    <3>3. Kern(t) /\ Orderly  BY Zenon, <1>1, <1>2, <3>1, <3>2, KernWake
    <3>. QED  BY Zenon, <2>3, <3>3 DEF Complete, events, devices
  <2>. QED  BY Zenon, <2>1, <2>2, <2>3 DEF Interrupt
<1>5. Pcs(t)  BY Zenon, <1>2, <1>4 DEF Pcs, TypeInv
<1>6. EventInv'  BY Zenon, <1>1, <1>2, <1>4, <1>5, EventKeeps
<1>7. ~EarlyCommands => fault' = "none"  BY Zenon, <1>4
<1>. QED  BY Zenon, <1>1, <1>2, <1>4, <1>5, <1>6, <1>7, OtherStep DEF TypeInv

-----------------------------------------------------------------------------
(* main.                                                                   *)

LEMMA MainRest ==
    ASSUME IInv, Turn("main"), fault = "none", Kern("main"), Orderly, Pcs("main"),
           Class(sch', "main") # "wtmtx",
           UNCHANGED <<events, mtx, lwip_trp, devices, fault>>, MainInv'
    PROVE  IInv'
<1>1. TypeInv /\ KernelInv /\ PrioInv /\ MutexInv /\ LwipInv /\ QuietInv /\ EventInv /\ MainInv  BY Zenon DEF IInv
<1>2. "udp_server" \in Thread /\ "lwip" \in Thread /\ "main" \in Thread /\ "main" \in Actors
  BY Zenon DEF Thread, Actors
<1>3. "main" \notin Users /\ Users \subseteq Thread  BY Zenon DEF Users, Thread
<1>4. TypeInv'  BY Zenon, <1>1 DEF TypeInv, Pcs, events
<1>5. KernelInv'  BY Zenon, <1>1, <1>2, KernelKeeps
<1>6. PrioInv'
  <2>1. pc'["udp_server"] = pc["udp_server"] /\ pc'["lwip"] = pc["lwip"]  BY Zenon, <1>2 DEF Pcs
  <2>. QED  BY Zenon, <1>1, <2>1, PrioKeeps DEF Orderly, PrioSame
<1>7. MutexInv'  BY Zenon, <1>1, <1>2, <1>3, MutexKeeps DEF Orderly
<1>8. LwipInv'  BY Zenon, <1>1, <1>2, LwipKeeps DEF devices
<1>9. QuietInv'
  <2>1. fault' = "none"  BY Zenon
  <2>. QED  BY Zenon, <1>1, <1>2, <1>3, <1>5, <2>1, QuietKeeps
<1>10. EventInv'  BY Zenon, <1>1, <1>2, EventKeeps DEF events, devices
<1>. QED  BY Zenon, <1>4, <1>5, <1>6, <1>7, <1>8, <1>9, <1>10 DEF IInv

LEMMA OrderFacts ==
    /\ \A i \in 1..7 : MainOrder[i] \in Thread /\ MainOrder[i] \notin {"main", "lwip"} /\ MainOrder[i + 1] \in Label
    /\ \A i, j \in 1..8 : i # j => MainOrder[i] # MainOrder[j]
    /\ \A i \in 1..8 : /\ MainOrder[i] # "sleep"
                       /\ MainOrder[i] = "usb_host" <=> i = 3
                       /\ MainOrder[i] = "udp_server" <=> i = 4
                       /\ MainOrder[i] = "shell" <=> i = 7
<1>1. /\ MainOrder[1] = "blinker" /\ MainOrder[2] = "HID" /\ MainOrder[3] = "usb_host" /\ MainOrder[4] = "udp_server"
      /\ MainOrder[5] = "nrf24_tx" /\ MainOrder[6] = "nrf24_irq" /\ MainOrder[7] = "shell" /\ MainOrder[8] = "wait"
  BY Zenon DEF MainOrder
<1>2. \A i \in 1..8 : i = 1 \/ i = 2 \/ i = 3 \/ i = 4 \/ i = 5 \/ i = 6 \/ i = 7 \/ i = 8  OBVIOUS
<1>3. ASSUME NEW i \in 1..7
      PROVE  MainOrder[i] \in Thread /\ MainOrder[i] \notin {"main", "lwip"} /\ MainOrder[i + 1] \in Label
  <2>1. i = 1 \/ i = 2 \/ i = 3 \/ i = 4 \/ i = 5 \/ i = 6 \/ i = 7  OBVIOUS
  <2>2. MainOrder[i] \in Thread /\ MainOrder[i] \notin {"main", "lwip"}  BY Zenon, <1>1, <2>1 DEF Thread
  <2>3. \A j \in 2..8 : MainOrder[j] \in Label
    <3>1. \A j \in 2..8 : j = 2 \/ j = 3 \/ j = 4 \/ j = 5 \/ j = 6 \/ j = 7 \/ j = 8  OBVIOUS
    <3>. QED  BY Zenon, <1>1, <3>1 DEF Label
  <2>4. i + 1 \in 2..8  OBVIOUS
  <2>. QED  BY Zenon, <2>2, <2>3, <2>4
<1>4. ASSUME NEW i \in 1..8, NEW j \in 1..8, i # j PROVE MainOrder[i] # MainOrder[j]
  BY <1>1, <1>2, <1>4
<1>5. ASSUME NEW i \in 1..8
      PROVE  /\ MainOrder[i] # "sleep"
             /\ MainOrder[i] = "usb_host" <=> i = 3
             /\ MainOrder[i] = "udp_server" <=> i = 4
             /\ MainOrder[i] = "shell" <=> i = 7
  BY Zenon, <1>1, <1>2
<1>. QED  BY Zenon, <1>3, <1>4, <1>5

LEMMA MainStep == IInv /\ Main => IInv'
<1>. SUFFICES ASSUME IInv, Main PROVE IInv'  BY Zenon
<1>1. TypeInv /\ KernelInv /\ PrioInv /\ MainInv  BY Zenon DEF IInv
<1>2. /\ MainOrder[1] = "blinker" /\ MainOrder[2] = "HID" /\ MainOrder[3] = "usb_host" /\ MainOrder[4] = "udp_server"
      /\ MainOrder[5] = "nrf24_tx" /\ MainOrder[6] = "nrf24_irq" /\ MainOrder[7] = "shell" /\ MainOrder[8] = "wait"
  BY Zenon DEF MainOrder
<1>3. /\ "main" \in Thread /\ "main" \in Actors /\ "shell" \in Thread /\ "usb_host" \in Thread
      /\ "sleep" \in Label /\ "shell" \in Label
  BY Zenon DEF Thread, Actors, Label
<1>4. CASE At("main", "sleep", "shell") /\ Block
  <2>1. /\ Turn("main") /\ fault = "none" /\ Kern("main") /\ Orderly /\ Pcs("main")
        /\ pc["main"] = "sleep" /\ pc'["main"] = "shell" /\ Class(sch', "main") = "blocked"
        /\ \A u \in Thread : u # "main" => Class(sch', u) = Class(sch, u)
    BY Zenon, <1>3, <1>4, BlockStep
  <2>2. Class(sch, "main") = "run"  BY Zenon, <1>1, <1>4, RunningClass DEF At
  <2>3. Class(sch', "shell") = "final"  BY Zenon, <1>1, <1>3, <2>1, <2>2 DEF MainInv, Cls
  <2>4. Class(sch', "usb_host") # "none"  BY <1>1, <1>2, <1>3, <2>1 DEF MainInv, Cls
  <2>5. MainInv'  BY <1>2, <2>1, <2>3, <2>4 DEF MainInv, Cls
  <2>. QED  BY Zenon, <1>4, <2>1, <2>5, MainRest DEF Block
<1>5. CASE At("main", "wait", "sleep") /\ chThdWait("shell")
  <2>1. pc["main"] = "wait" /\ pc' = [pc EXCEPT !["main"] = "sleep"] /\ sch.cur = "main" /\ fault = "none"
    BY Zenon, <1>5 DEF At
  <2>2. Pcs("main") /\ pc'["main"] = "sleep" /\ Turn("main")  BY Zenon, <1>1, <1>3, <2>1, PcMove DEF Turn
  <2>3. /\ Kern("main") /\ Orderly /\ Class(sch', "main") \in {"run", "wtexit"}
        /\ Class(sch', "main") # "wtexit" => Class(sch', "shell") = "final"
        /\ \A u \in Thread : u # "main" => Class(sch', u) = Class(sch, u)
    <3>1. CASE sch.st["shell"] = "final"
      <4>1. sch' = sch  BY Zenon, <1>5, <3>1 DEF chThdWait
      <4>2. Kern("main") /\ Orderly /\ \A u \in Thread : Class(sch', u) = Class(sch, u)
        BY Zenon, <1>1, <1>3, <2>2, <4>1, KernSame
      <4>3. Class(sch, "main") = "run" /\ Class(sch, "shell") = "final"
        BY Zenon, <1>1, <2>1, <3>1, RunningClass DEF Class, Run
      <4>. QED  BY Zenon, <1>3, <4>2, <4>3
    <3>2. CASE sch.st["shell"] # "final"
      <4>1. sch' = GoSleep(sch, "wtexit")  BY Zenon, <1>5, <3>2 DEF chThdWait
      <4>2. "wtexit" \in State \ Run  BY Zenon DEF State, Waiting, Run
      <4>3. Effect("main", "wtexit")  BY Zenon, <1>1, <2>1, <4>1, <4>2, SleepCall
      <4>. QED  BY Zenon, <1>3, <4>3, KernOwn
    <3>. QED  BY Zenon, <3>1, <3>2
  <2>4. Class(sch', "shell") # "none" /\ Class(sch', "usb_host") # "none"
    BY <1>1, <1>2, <1>3, <2>1, <2>3 DEF MainInv, Cls
  <2>5. MainInv'  BY <1>2, <2>2, <2>3, <2>4 DEF MainInv, Cls
  <2>. QED  BY Zenon, <1>5, <2>1, <2>2, <2>3, <2>5, MainRest DEF chThdWait
<1>6. ASSUME NEW i \in 1..7, At("main", MainOrder[i], MainOrder[i + 1]), chThdCreate(MainOrder[i])
      PROVE  IInv'
  <2>. DEFINE v == MainOrder[i]
  <2>1. v \in Thread /\ v \notin {"main", "lwip"} /\ MainOrder[i + 1] \in Label
    BY Zenon, OrderFacts
  <2>2. pc["main"] = v /\ pc' = [pc EXCEPT !["main"] = MainOrder[i + 1]] /\ sch.cur = "main" /\ fault = "none"
    BY Zenon, <1>6 DEF At
  <2>3. Pcs("main") /\ pc'["main"] = MainOrder[i + 1] /\ Turn("main")  BY Zenon, <1>1, <1>3, <2>1, <2>2, PcMove DEF Turn
  <2>4. Class(sch, v) \in {"none", "final"} /\ (i # 7 => Class(sch, v) = "none" /\ Class(sch, "shell") = "none")
    BY <1>1, <1>2, <2>2 DEF MainInv, Cls
  <2>5. sch.prio[v] = CreatePrio(v) /\ sch.real[v] = CreatePrio(v)
    <3>1. CASE v = "udp_server"
      <4>1. Class(sch, "shell") = "none"  BY Zenon, <1>2, <2>4, <3>1
      <4>2. pc["udp_server"] = "start"  BY Zenon, <1>1, <4>1 DEF MainInv, Cls, Peers
      <4>. QED  BY Zenon, <1>1, <2>1, <3>1, <4>2 DEF PrioInv, CreatePrio
    <3>2. CASE v # "udp_server"  BY Zenon, <1>1, <2>1, <3>2 DEF PrioInv
    <3>. QED  BY Zenon, <3>1, <3>2
  <2>6. Effect(v, "run")
    <3>1. Cls(v) # "run"  BY Zenon, <2>4 DEF Cls
    <3>. QED  BY Zenon, <1>1, <1>6, <2>1, <2>5, <3>1, CreateCall
  <2>7. /\ Kern("main") /\ Orderly /\ Class(sch', v) = "run"
        /\ \A u \in Thread : u # v => Class(sch', u) = Class(sch, u)
    <3>1. Class(sch, v) \in Wakes("main", v)  BY Zenon, <2>1, <2>2, <2>4 DEF Wakes
    <3>. QED  BY Zenon, <1>1, <1>3, <2>1, <2>3, <2>6, <3>1, KernWake
  <2>8. Class(sch, "main") = "run" /\ Class(sch', "main") = "run"
    BY Zenon, <1>1, <1>3, <2>1, <2>2, <2>7, RunningClass
  <2>9. MainInv'
    <3>1. \A k \in 1..6 : pc'["main"] = MainOrder[k] => \A j \in k..7 : Class(sch', MainOrder[j]) = "none"
      <4>. SUFFICES ASSUME NEW k \in 1..6, pc'["main"] = MainOrder[k], NEW j \in k..7
                    PROVE  Class(sch', MainOrder[j]) = "none"
        BY Zenon
      <4>1. k = i + 1
        <5>1. k \in 1..8 /\ i + 1 \in 1..8 /\ MainOrder[i + 1] = MainOrder[k]  BY <2>3
        <5>. QED  BY Zenon, <5>1, OrderFacts
      <4>2. i \in 1..6 /\ j \in i..7 /\ j # i  BY <4>1
      <4>3. Class(sch, MainOrder[j]) = "none"  BY Zenon, <1>1, <2>2, <4>2 DEF MainInv, Cls
      <4>4. MainOrder[j] # v /\ MainOrder[j] \in Thread
        <5>1. j \in 1..7 /\ j \in 1..8 /\ i \in 1..8  BY <4>2
        <5>. QED  BY <4>2, <5>1, OrderFacts
      <4>. QED  BY Zenon, <2>7, <4>3, <4>4
    <3>2. pc'["main"] = "shell" => Class(sch', "shell") = "none"
      <4>1. pc'["main"] = "shell" => i = 6 /\ v # "shell"
        <5>1. i \in 1..8 /\ i + 1 \in 1..8  OBVIOUS
        <5>2. pc'["main"] = "shell" => i + 1 = 7  BY Zenon, <2>3, <5>1, OrderFacts
        <5>. QED  BY <5>1, <5>2, OrderFacts
      <4>. QED  BY <1>3, <2>4, <2>7, <4>1
    <3>3. pc'["main"] # "sleep"
      <4>1. i + 1 \in 1..8  OBVIOUS
      <4>. QED  BY Zenon, <2>3, <4>1, OrderFacts
    <3>4. ASSUME Class(sch', "shell") = "none"
          PROVE  /\ \E k \in 1..7 : pc'["main"] = MainOrder[k]
                 /\ \A u \in Peers : pc'[u] = "start" /\ Leads(sch', "main", u)
      <4>1. i # 7 /\ Class(sch, "shell") = "none"  BY Zenon, <1>2, <2>4, <2>7, <3>4
      <4>2. i + 1 \in 1..7  BY <4>1
      <4>3. ASSUME NEW u \in Peers PROVE pc'[u] = "start" /\ Leads(sch', "main", u)
        <5>1. u \in Thread /\ u # "main"  BY Zenon DEF Peers, Thread
        <5>2. pc[u] = "start" /\ Leads(sch, "main", u)  BY Zenon, <1>1, <4>1 DEF MainInv, Cls
        <5>3. sch.prio[u] <= sch.prio["main"]
          BY <1>1, <5>2 DEF PrioInv, Peers, CreatePrio, Thread, NORMALPRIO
        <5>4. sch'.st["main"] \in Run  BY Zenon, <1>3, <2>7, <2>8, ClassFacts DEF Kern, Books
        <5>. QED  BY Zenon, <1>3, <2>3, <2>7, <5>1, <5>2, <5>3, <5>4 DEF Pcs, Orderly, NoOvertaking
      <4>. QED  BY Zenon, <2>3, <4>2, <4>3
    <3>5. ASSUME Class(sch', "usb_host") = "none" PROVE \E k \in 1..3 : pc'["main"] = MainOrder[k]
      <4>1. v # "usb_host" /\ Class(sch, "usb_host") = "none"  BY Zenon, <1>3, <2>7, <3>5
      <4>2. PICK k \in 1..3 : pc["main"] = MainOrder[k]  BY Zenon, <1>1, <4>1 DEF MainInv, Cls
      <4>3. i = k /\ i # 3
        <5>1. i \in 1..8 /\ k \in 1..8 /\ MainOrder[i] = MainOrder[k] /\ MainOrder[i] # "usb_host"
          BY <2>2, <4>1, <4>2
        <5>. QED  BY Zenon, <5>1, OrderFacts
      <4>4. i + 1 \in 1..3  BY <4>3
      <4>. QED  BY Zenon, <2>3, <4>4
    <3>. QED  BY Zenon, <2>8, <3>1, <3>2, <3>3, <3>4, <3>5 DEF MainInv, Cls
  <2>. QED  BY Zenon, <1>6, <2>2, <2>3, <2>7, <2>8, <2>9, MainRest DEF chThdCreate
<1>. QED  BY Zenon, <1>4, <1>5, <1>6 DEF Main

-----------------------------------------------------------------------------
(* lwip_thread.                                                            *)

\* Before it has resumed its creator, that is suspended.
LEMMA LwipWaits ==
    ASSUME KernelInv, PrioInv, LwipInv, sch.cur = "lwip", pc["lwip"] \in {"start", "netif", "resume"}
    PROVE  pc["udp_server"] = "mutex" /\ lwip_trp = "udp_server" /\ Class(sch, "udp_server") = "suspended"
<1>1. "lwip" \in Thread /\ "udp_server" \in Thread /\ Class(sch, "lwip") = "run"  BY Zenon, RunningClass DEF Thread
<1>2. pc["udp_server"] # "start"  BY Zenon, <1>1 DEF LwipInv, Cls
<1>3. ASSUME pc["udp_server"] = "suspend" PROVE FALSE
  <2>1. Class(sch, "udp_server") = "run"  BY Zenon, <1>3 DEF LwipInv, Cls
  <2>2. sch.st["udp_server"] \in Run  BY Zenon, <1>1, <2>1, ClassFacts DEF KernelInv, Books
  <2>3. "udp_server" \in Range(sch.ready)  BY Zenon, <1>1, <2>2 DEF KernelInv, Books, Run
  <2>4. sch.prio["udp_server"] <= sch.prio["lwip"]  BY Zenon, <2>3 DEF KernelInv, Topmost
  <2>5. sch.prio["lwip"] = NORMALPRIO - 1  BY Zenon DEF PrioInv, CreatePrio
  <2>. QED  BY <2>4, <2>5 DEF PrioInv, NORMALPRIO
<1>. QED  BY Zenon, <1>2, <1>3 DEF LwipInv, Cls, Up

LEMMA LwipRest ==
    ASSUME IInv, Turn("lwip"), fault = "none", Kern("lwip"), Pcs("lwip"), Class(sch', "lwip") # "wtmtx",
           \A u \in Users : sch'.prio[u] = sch.prio[u], UNCHANGED <<events, mtx, hid, irqOn, fault>>,
           PrioInv', LwipInv'
    PROVE  IInv'
<1>1. TypeInv /\ KernelInv /\ PrioInv /\ MutexInv /\ LwipInv /\ QuietInv /\ EventInv /\ MainInv  BY Zenon DEF IInv
<1>2. "main" \in Thread /\ "lwip" \in Thread /\ "lwip" \in Actors /\ "lwip" \notin Users
  BY Zenon DEF Thread, Actors, Users
<1>3. TypeInv'  BY Zenon, <1>1 DEF TypeInv, Pcs, events
<1>4. KernelInv'  BY Zenon, <1>1, <1>2, KernelKeeps
<1>5. MainInv'
  <2>1. Class(sch, "main") = "wtexit" => Class(sch', "main") = "wtexit"  BY Zenon, <1>2 DEF Kern, Wakes
  <2>. QED  BY Zenon, <1>1, <1>2, <2>1, MainKeeps
<1>6. MutexInv'  BY Zenon, <1>1, <1>2, MutexKeeps
<1>7. QuietInv'
  <2>1. fault' = "none"  BY Zenon
  <2>. QED  BY Zenon, <1>1, <1>2, <1>4, <2>1, QuietKeeps
<1>8. EventInv'  BY Zenon, <1>1, <1>2, EventKeeps DEF events
<1>. QED  BY Zenon, <1>3, <1>4, <1>5, <1>6, <1>7, <1>8 DEF IInv

LEMMA LwipStep == IInv /\ LwipThread => IInv'
<1>. SUFFICES ASSUME IInv, LwipThread PROVE IInv'  BY Zenon
<1>. DEFINE t == "lwip"
<1>1. TypeInv /\ KernelInv /\ PrioInv /\ LwipInv  BY Zenon DEF IInv
<1>2. /\ t \in Thread /\ t \in Actors /\ "udp_server" \in Thread /\ "netif" \in Label /\ "resume" \in Label
      /\ "prio" \in Label /\ "loop" \in Label /\ Users \subseteq Thread /\ t \notin Users
  BY DEF Thread, Actors, Label, Users
<1>3. ASSUME NEW l, NEW n \in Label, At(t, l, n), Block,
             (l = "netif" /\ n = "resume") \/ (l = "loop" /\ n = "loop")
      PROVE  IInv'
  <2>1. /\ Turn(t) /\ fault = "none" /\ Kern(t) /\ Orderly /\ Pcs(t)
        /\ pc[t] = l /\ pc'[t] = n /\ Class(sch', t) = "blocked"
        /\ \A u \in Thread : u # t => Class(sch', u) = Class(sch, u)
        /\ lwip_trp' = lwip_trp /\ mboxOn' = mboxOn
    BY Zenon, <1>2, <1>3, BlockStep
  <2>2. pc'["udp_server"] = pc["udp_server"] /\ Class(sch', "udp_server") = Class(sch, "udp_server")
    BY Zenon, <1>2, <2>1 DEF Pcs
  <2>3. PrioInv'  BY Zenon, <1>1, <1>3, <2>1, <2>2, PrioKeeps DEF Orderly, PrioSame
  <2>4. sch.cur = t  BY Zenon, <1>3 DEF At
  <2>5. l = "netif" => pc["udp_server"] = "mutex" /\ lwip_trp = "udp_server" /\ Class(sch, "udp_server") = "suspended"
    BY Zenon, <1>1, <2>1, <2>4, LwipWaits
  <2>6. LwipInv'
    <3>1. CASE l = "netif"  BY Zenon, <1>1, <1>3, <2>1, <2>2, <2>5, <3>1 DEF LwipInv, Cls, Up
    <3>2. CASE l = "loop"  BY Zenon, <1>1, <1>3, <2>1, <2>2, <3>2 DEF LwipInv, Cls, Up
    <3>. QED  BY Zenon, <1>3, <3>1, <3>2
  <2>. QED  BY Zenon, <1>2, <1>3, <2>1, <2>3, <2>6, LwipRest DEF Orderly, Block, devices
<1>4. CASE /\ At("lwip", "start", "netif")
           /\ mboxOn' = TRUE
           /\ UNCHANGED <<sch, events, mtx, lwip_trp, hid, irqOn, fault>>
  <2>1. sch' = sch /\ sch.cur = t /\ lwip_trp' = lwip_trp /\ mboxOn'  BY Zenon, <1>4 DEF At
  <2>2. /\ Turn(t) /\ fault = "none" /\ Kern(t) /\ Orderly /\ Pcs(t)
        /\ pc[t] = "start" /\ pc'[t] = "netif" /\ Class(sch', t) = "run"
        /\ \A u \in Thread : Class(sch', u) = Class(sch, u)
    BY Zenon, <1>2, <1>4, <2>1, ComputeStep
  <2>3. pc'["udp_server"] = pc["udp_server"] /\ Class(sch', "udp_server") = Class(sch, "udp_server")
    BY Zenon, <1>2, <2>2 DEF Pcs
  <2>4. pc["udp_server"] = "mutex" /\ lwip_trp = "udp_server" /\ Class(sch, "udp_server") = "suspended"
    BY Zenon, <1>1, <2>1, <2>2, LwipWaits
  <2>5. LwipInv'  BY Zenon, <2>1, <2>2, <2>3, <2>4 DEF LwipInv, Cls, Up
  <2>6. PrioInv'  BY Zenon, <1>1, <2>2, <2>3, PrioKeeps DEF Orderly, PrioSame
  <2>. QED  BY Zenon, <1>2, <1>4, <2>2, <2>5, <2>6, LwipRest DEF Orderly
<1>5. CASE /\ At("lwip", "resume", "prio")
           /\ sch' = IF lwip_trp = NoThread THEN sch ELSE Wakeup(sch, lwip_trp)
           /\ lwip_trp' = NoThread
           /\ UNCHANGED <<events, mtx, devices, fault>>
  <2>1. pc[t] = "resume" /\ sch.cur = t /\ fault = "none" /\ pc' = [pc EXCEPT ![t] = "prio"]  BY Zenon, <1>5 DEF At
  <2>2. Pcs(t) /\ pc'[t] = "prio" /\ Turn(t)  BY Zenon, <1>1, <1>2, <2>1, PcMove DEF Turn
  <2>3. pc["udp_server"] = "mutex" /\ lwip_trp = "udp_server" /\ Class(sch, "udp_server") = "suspended"
    BY Zenon, <1>1, <2>1, LwipWaits
  <2>4. sch' = Wakeup(sch, "udp_server")  BY Zenon, <1>5, <2>3 DEF NoThread
  <2>5. Effect("udp_server", "run")  BY Zenon, <1>1, <1>2, <2>3, <2>4, ResumeCall DEF Cls
  <2>6. "suspended" \in Wakes(t, "udp_server")  BY Zenon DEF Wakes
  <2>7. /\ Kern(t) /\ Orderly /\ \A u \in Thread : u # "udp_server" => Class(sch', u) = Class(sch, u)
    BY Zenon, <1>1, <1>2, <2>2, <2>3, <2>5, <2>6, KernWake
  <2>8. Class(sch', t) = "run"  BY Zenon, <1>1, <1>2, <2>1, <2>7, RunningClass
  <2>9. pc'["udp_server"] = "mutex"  BY Zenon, <1>2, <2>2, <2>3 DEF Pcs
  <2>10. LwipInv'  BY Zenon, <1>1, <1>5, <2>1, <2>2, <2>9 DEF LwipInv, Cls, Up, devices
  <2>11. PrioInv'  BY Zenon, <1>1, <2>1, <2>2, <2>7, <2>9, PrioKeeps DEF Orderly, PrioSame
  <2>. QED  BY Zenon, <1>2, <1>5, <2>1, <2>2, <2>7, <2>8, <2>10, <2>11, LwipRest DEF Orderly, devices
<1>6. CASE /\ At("lwip", "prio", "loop")
           /\ sch' = Reschedule([sch EXCEPT !.prio["lwip"] = LOWPRIO, !.real["lwip"] = LOWPRIO])
           /\ UNCHANGED <<events, mtx, lwip_trp, devices, fault>>
  <2>1. pc[t] = "prio" /\ sch.cur = t /\ fault = "none" /\ pc' = [pc EXCEPT ![t] = "loop"]  BY Zenon, <1>6 DEF At
  <2>2. Pcs(t) /\ pc'[t] = "loop" /\ Turn(t)  BY Zenon, <1>1, <1>2, <2>1, PcMove DEF Turn
  <2>3. /\ Books(Thread, sch') /\ Topmost(sch')
        /\ sch'.prio = [sch.prio EXCEPT !["lwip"] = LOWPRIO]
        /\ sch'.real = [sch.real EXCEPT !["lwip"] = LOWPRIO]
        /\ \A u \in Thread : Class(sch', u) = Class(sch, u)
    BY Zenon, <1>1, <1>6, <2>1, LowerCall
  <2>4. Class(sch', t) = "run"  BY Zenon, <1>1, <1>2, <2>1, <2>3, RunningClass
  <2>5. Kern(t)  BY Zenon, <2>3, <2>4 DEF Kern
  <2>6. sch.prio \in [Thread -> Nat] /\ sch.real \in [Thread -> Nat]  BY Zenon, <1>1 DEF KernelInv, Books, Sched
  <2>7. \A u \in Thread : u # t => sch'.prio[u] = sch.prio[u] /\ sch'.real[u] = sch.real[u]
    BY Zenon, <2>3, <2>6
  <2>8. pc'["udp_server"] = pc["udp_server"]  BY Zenon, <1>2, <2>2 DEF Pcs
  <2>9. PrioInv'  BY Zenon, <1>1, <1>2, <2>2, <2>7, <2>8 DEF PrioInv, CreatePrio
  <2>10. LwipInv'  BY Zenon, <1>1, <1>6, <2>1, <2>2, <2>8 DEF LwipInv, Cls, Up, devices
  <2>11. \A u \in Users : sch'.prio[u] = sch.prio[u]  BY Zenon, <1>2, <2>7
  <2>. QED  BY Zenon, <1>6, <2>1, <2>2, <2>4, <2>5, <2>9, <2>10, <2>11, LwipRest DEF devices
<1>. QED  BY Zenon, <1>2, <1>3, <1>4, <1>5, <1>6 DEF LwipThread

-----------------------------------------------------------------------------
(* udp_get_destination and udp_set_destination, of either thread.          *)

LEMMA AccessRest ==
    ASSUME IInv, NEW t \in Users, Turn(t), Kern(t), Pcs(t),
           Class(sch', "main") = Class(sch, "main"), Class(sch', t) # "wtevt",
           UNCHANGED <<events, lwip_trp, devices>>,
           t = "udp_server" => /\ Up /\ pc[t] # "register"
                               /\ Up' /\ pc'[t] # "register"
    PROVE  MainInv' /\ LwipInv' /\ EventInv'
<1>1. KernelInv /\ PrioInv /\ LwipInv /\ EventInv /\ MainInv  BY Zenon DEF IInv
<1>2. t \in Thread /\ t \in Actors /\ t \in {"udp_server", "shell"}  BY Zenon DEF Thread, Actors, Users
<1>3. MainInv'  BY Zenon, <1>1, <1>2, MainKeeps
<1>4. LwipInv'
  <2>1. CASE t = "udp_server"  BY Zenon, <1>1, <2>1, LwipKeepsUp DEF devices
  <2>2. CASE t = "shell"  BY Zenon, <1>1, <1>2, <2>2, LwipKeeps DEF devices
  <2>. QED  BY Zenon, <1>2, <2>1, <2>2
<1>5. EventInv'
  <2>1. t = "udp_server" => "udp_server" \in Range(esDS5Ready'.list)  BY Zenon, <1>1 DEF EventInv, events
  <2>. QED  BY Zenon, <1>1, <1>2, <2>1, EventKeeps DEF events, devices
<1>. QED  BY Zenon, <1>3, <1>4, <1>5

LEMMA AccessStep ==
    ASSUME IInv, NEW t \in Users, NEW lock \in Label \ Held, NEW copy \in Held, NEW unlock \in Held,
           NEW n \in Label \ Held, DestinationAccess(t, lock, copy, unlock, n),
           t = "udp_server" => \A l \in {lock, n} : l \notin {"start", "suspend", "mutex", "register"},
           t = "shell" => lock \notin {"start", "line"} /\ n = "start"
    PROVE  IInv'
<1>1. TypeInv /\ KernelInv /\ PrioInv /\ MutexInv /\ LwipInv /\ QuietInv /\ EventInv /\ MainInv  BY Zenon DEF IInv
<1>2. t \in Thread /\ t \in Actors /\ t \in {"udp_server", "shell"} /\ "main" \in Thread \ Users /\ t # "main"
      /\ t # "idle"
  BY Zenon DEF Thread, Actors, Users
<1>3. Held \subseteq Label /\ \A l \in Held : l \notin {"start", "line", "suspend", "mutex", "register"}
  BY Zenon DEF Held, Label
<1>4. ASSUME At(t, lock, copy), chMtxLock PROVE IInv'
  <2>1. /\ TypeInv' /\ KernelInv' /\ PrioInv' /\ MutexInv' /\ QuietInv' /\ Kern(t) /\ Pcs(t) /\ pc'[t] = copy
        /\ (\A u \in Thread : u # t => Class(sch', u) = Class(sch, u)) /\ Class(sch', t) \in {"run", "wtmtx"}
    BY Zenon, <1>4, LockStep
  <2>2. pc[t] = lock /\ Turn(t)  BY Zenon, <1>4 DEF At, Turn
  <2>3. t = "udp_server" => Up /\ pc[t] # "register" /\ Up' /\ pc'[t] # "register"
    BY Zenon, <1>3, <2>1, <2>2 DEF Up
  <2>4. UNCHANGED <<events, lwip_trp, devices>>  BY Zenon, <1>4 DEF chMtxLock
  <2>5. Class(sch', "main") = Class(sch, "main")  BY Zenon, <1>2, <2>1
  <2>6. MainInv' /\ LwipInv' /\ EventInv'  BY Zenon, <2>1, <2>2, <2>3, <2>4, <2>5, AccessRest
  <2>. QED  BY Zenon, <2>1, <2>6 DEF IInv
<1>5. ASSUME At(t, copy, unlock), UNCHANGED <<sch, events, mtx, lwip_trp, devices, fault>> PROVE IInv'
  <2>1. /\ Turn(t) /\ fault = "none" /\ Kern(t) /\ Orderly /\ Pcs(t)
        /\ pc[t] = copy /\ pc'[t] = unlock /\ Class(sch', t) = "run"
        /\ \A u \in Thread : Class(sch', u) = Class(sch, u)
    BY Zenon, <1>2, <1>3, <1>5, ComputeStep
  <2>2. t = "udp_server" => Up /\ pc[t] # "register" /\ Up' /\ pc'[t] # "register"
    BY Zenon, <1>3, <2>1 DEF Up
  <2>3. MainInv' /\ LwipInv' /\ EventInv'
    <3>1. Class(sch', "main") = Class(sch, "main") /\ Class(sch', t) # "wtevt"  BY Zenon, <1>2, <2>1
    <3>. QED  BY Zenon, <1>5, <2>1, <2>2, <3>1, AccessRest
  <2>4. TypeInv'  BY Zenon, <1>1, <1>5, <2>1 DEF TypeInv, Pcs, events
  <2>5. KernelInv'  BY Zenon, <1>1, <1>2, <2>1, KernelKeeps
  <2>6. PrioInv'
    <3>1. pc'["udp_server"] = "start" => pc["udp_server"] = "start"
      BY Zenon, <1>2, <1>3, <2>1 DEF Pcs, Thread
    <3>2. pc'["lwip"] = pc["lwip"]  BY Zenon, <1>2, <2>1 DEF Pcs, Thread
    <3>. QED  BY Zenon, <1>1, <2>1, <3>1, <3>2, PrioKeeps DEF Orderly, PrioSame
  <2>7. MutexInv'  BY Zenon, <1>1, <1>2, <1>5, <2>1, MutexKeeps DEF Orderly
  <2>8. QuietInv'
    <3>1. t = "shell" /\ ~EarlyCommands => Up  BY Zenon, <1>1, <1>3, <2>1 DEF QuietInv
    <3>2. t = "udp_server" => (Up' <=> Up)  BY Zenon, <2>2
    <3>3. fault' = "none"  BY Zenon, <1>5, <2>1
    <3>. QED  BY Zenon, <1>1, <1>2, <1>5, <2>1, <2>5, <3>1, <3>2, <3>3, QuietKeeps
  <2>. QED  BY Zenon, <2>3, <2>4, <2>5, <2>6, <2>7, <2>8 DEF IInv
<1>6. ASSUME At(t, unlock, n), chMtxUnlock PROVE IInv'
  <2>1. /\ TypeInv' /\ KernelInv' /\ PrioInv' /\ MutexInv' /\ QuietInv' /\ Kern(t) /\ Pcs(t) /\ pc'[t] = n
        /\ Class(sch', t) = "run" /\ (\A u \in Thread \ Users : Class(sch', u) = Class(sch, u))
    BY Zenon, <1>6, UnlockStep
  <2>2. pc[t] = unlock /\ Turn(t)  BY Zenon, <1>6 DEF At, Turn
  <2>3. t = "udp_server" => Up /\ pc[t] # "register" /\ Up' /\ pc'[t] # "register"
    BY Zenon, <1>3, <2>1, <2>2 DEF Up
  <2>4. UNCHANGED <<events, lwip_trp, devices>>  BY Zenon, <1>6 DEF chMtxUnlock
  <2>5. Class(sch', "main") = Class(sch, "main")  BY Zenon, <1>2, <2>1
  <2>6. MainInv' /\ LwipInv' /\ EventInv'  BY Zenon, <2>1, <2>2, <2>3, <2>4, <2>5, AccessRest
  <2>. QED  BY Zenon, <2>1, <2>6 DEF IInv
<1>. QED  BY Zenon, <1>4, <1>5, <1>6 DEF DestinationAccess

-----------------------------------------------------------------------------
(* The shell, and the calls of the radio driver.                           *)

LEMMA ShellRest ==
    ASSUME IInv, Turn("shell"), fault = "none", Kern("shell"), PrioSame, Pcs("shell"),
           Class(sch', "shell") # "wtmtx", pc["shell"] \notin Held, pc'["shell"] \notin Held,
           \A u \in Thread : u # "shell" => Class(sch', u) = Class(sch, u) \/ Class(sch, u) # "wtmtx",
           Class(sch, "main") = "wtexit" => Class(sch', "main") = "wtexit" \/ Class(sch', "shell") = "final",
           UNCHANGED <<events, mtx, lwip_trp, devices>>, ~EarlyCommands => fault' = "none",
           ~EarlyCommands /\ pc'["shell"] \notin {"start", "line"} => Up
    PROVE  IInv'
<1>1. TypeInv /\ KernelInv /\ PrioInv /\ MutexInv /\ LwipInv /\ QuietInv /\ EventInv /\ MainInv  BY Zenon DEF IInv
<1>2. "shell" \in Thread /\ "shell" \in Actors  BY Zenon DEF Thread, Actors
<1>3. TypeInv'  BY Zenon, <1>1 DEF TypeInv, Pcs, events
<1>4. KernelInv'  BY Zenon, <1>1, <1>2, KernelKeeps
<1>5. PrioInv'
  <2>1. pc'["udp_server"] = pc["udp_server"] /\ pc'["lwip"] = pc["lwip"]  BY Zenon DEF Pcs, Thread
  <2>. QED  BY Zenon, <1>1, <2>1, PrioKeeps
<1>6. MainInv'  BY Zenon, <1>1, <1>2, MainKeeps
<1>7. MutexInv'  BY Zenon, <1>1, <1>2, MutexKeeps DEF PrioSame
<1>8. LwipInv'  BY Zenon, <1>1, <1>2, LwipKeeps DEF devices
<1>9. EventInv'  BY Zenon, <1>1, <1>2, EventKeeps DEF events, devices
<1>10. QuietInv'  BY Zenon, <1>1, <1>2, <1>4, QuietKeeps
<1>. QED  BY Zenon, <1>3, <1>4, <1>5, <1>6, <1>7, <1>8, <1>9, <1>10 DEF IInv

\* A call that waits, between two commands.
LEMMA ShellBlocks ==
    ASSUME IInv, NEW l \in Label \ Held, NEW n \in {"start", "line"}, At("shell", l, n), Block
    PROVE  IInv'
<1>1. "shell" \in Thread /\ "main" \in Thread /\ n \in Label \ Held  BY Zenon DEF Thread, Label, Held
<1>2. /\ Turn("shell") /\ fault = "none" /\ Kern("shell") /\ Orderly /\ Pcs("shell")
      /\ pc["shell"] = l /\ pc'["shell"] = n /\ Class(sch', "shell") = "blocked"
      /\ \A u \in Thread : u # "shell" => Class(sch', u) = Class(sch, u)
  BY Zenon, <1>1, BlockStep
<1>3. UNCHANGED <<events, mtx, lwip_trp, devices>> /\ fault' = "none"  BY Zenon, <1>2 DEF Block
<1>. QED  BY Zenon, <1>1, <1>2, <1>3, ShellRest DEF Orderly, PrioSame

LEMMA ShellStep == IInv /\ ShellThread => IInv'
<1>. SUFFICES ASSUME IInv, ShellThread PROVE IInv'  BY Zenon
<1>. DEFINE t == "shell"
<1>1. TypeInv /\ KernelInv /\ MainInv /\ LwipInv /\ QuietInv  BY Zenon DEF IInv
<1>2. /\ t \in Thread /\ t \in Actors /\ t \in Users /\ "main" \in Thread /\ "lwip" \in Thread
      /\ {"start", "lock", "post", "transfer", "exit", "line"} \subseteq Label \ Held
      /\ {"copy", "unlock"} \subseteq Held
  BY DEF Thread, Actors, Label, Users, Held
<1>3. CASE At(t, "start", "line") /\ Block  BY Zenon, <1>2, <1>3, ShellBlocks
<1>4. ASSUME NEW n \in {"start", "lock", "post", "transfer", "exit"}, At(t, "line", n),
             ~EarlyCommands /\ n # "start" => Up,
             UNCHANGED <<sch, events, mtx, lwip_trp, devices, fault>>
      PROVE  IInv'
  <2>1. n \in Label \ Held  BY Zenon, <1>2
  <2>2. /\ Turn(t) /\ fault = "none" /\ Kern(t) /\ Orderly /\ Pcs(t)
        /\ pc[t] = "line" /\ pc'[t] = n /\ Class(sch', t) = "run"
        /\ \A u \in Thread : Class(sch', u) = Class(sch, u)
    BY Zenon, <1>2, <1>4, <2>1, ComputeStep
  <2>3. UNCHANGED <<events, mtx, lwip_trp, devices>> /\ fault' = "none"  BY Zenon, <1>4, <2>2
  <2>. QED  BY Zenon, <1>2, <1>4, <2>1, <2>2, <2>3, ShellRest DEF Orderly, PrioSame
<1>5. CASE \E n \in {"start", "lock", "post", "transfer", "exit"} :
              /\ EarlyCommands \/ pc["udp_server"] \notin {"start", "suspend", "mutex"}
              /\ At(t, "line", n)
              /\ UNCHANGED <<sch, events, mtx, lwip_trp, devices, fault>>
  BY Zenon, <1>4, <1>5 DEF Up
<1>6. CASE At(t, "line", "start") /\ UNCHANGED <<sch, events, mtx, lwip_trp, devices, fault>>
  BY Zenon, <1>4, <1>6
<1>7. CASE DestinationAccess(t, "lock", "copy", "unlock", "start")
  BY Zenon, <1>2, <1>7, AccessStep
<1>8. CASE At(t, "post", "start") /\ mboxOn /\ Block  BY Zenon, <1>2, <1>8, ShellBlocks
<1>9. CASE /\ At(t, "post", "start") /\ ~mboxOn /\ fault' = "mailbox"
           /\ UNCHANGED <<sch, events, mtx, lwip_trp, devices>>
  <2>1. /\ Turn(t) /\ fault = "none" /\ Kern(t) /\ Orderly /\ Pcs(t)
        /\ pc[t] = "post" /\ pc'[t] = "start" /\ Class(sch', t) = "run"
        /\ \A u \in Thread : Class(sch', u) = Class(sch, u)
    BY Zenon, <1>2, <1>9, ComputeStep
  <2>2. ~EarlyCommands => FALSE
    <3>1. ~EarlyCommands => Up  BY Zenon, <1>1, <2>1 DEF QuietInv
    <3>. QED  BY Zenon, <1>1, <1>9, <3>1 DEF LwipInv
  <2>3. UNCHANGED <<events, mtx, lwip_trp, devices>>  BY Zenon, <1>9
  <2>. QED  BY Zenon, <1>2, <2>1, <2>2, <2>3, ShellRest DEF Orderly, PrioSame
<1>10. CASE At(t, "exit", "start") /\ chThdExit
  <2>1. pc[t] = "exit" /\ sch.cur = t /\ fault = "none" /\ pc' = [pc EXCEPT ![t] = "start"]  BY Zenon, <1>10 DEF At
  <2>2. Pcs(t) /\ pc'[t] = "start" /\ Turn(t)  BY Zenon, <1>1, <1>2, <2>1, PcMove DEF Turn
  <2>3. /\ Books(Thread, sch') /\ Topmost(sch') /\ PrioSame /\ Class(sch', t) = "final"
        /\ \A u \in Thread : u # t =>
              \/ Class(sch', u) = Class(sch, u)
              \/ u = "main" /\ Class(sch, u) = "wtexit" /\ Class(sch', u) = "run"
    BY Zenon, <1>1, <1>10, <2>1, ExitCall DEF PrioSame
  <2>4. Kern(t)  BY Zenon, <2>3 DEF Kern, Wakes
  <2>5. UNCHANGED <<events, mtx, lwip_trp, devices>> /\ fault' = "none"  BY Zenon, <1>10, <2>1 DEF chThdExit
  <2>. QED  BY Zenon, <1>2, <2>1, <2>2, <2>3, <2>4, <2>5, ShellRest
<1>. QED  BY Zenon, <1>3, <1>5, <1>6, <1>7, <1>8, <1>9, <1>10 DEF ShellThread

LEMMA DriverStep == IInv /\ DriverCall => IInv'
<1>. SUFFICES ASSUME IInv, DriverCall PROVE IInv'  BY Zenon
<1>1. TypeInv /\ EventInv  BY Zenon DEF IInv
<1>2. {"init", "line", "address", "event", "send", "handle", "start"} \subseteq Label /\ "transfer" \in Label \ Held
      /\ {"nrf24_tx", "nrf24_irq"} \subseteq Thread
  BY Zenon DEF Label, Held, Thread
<1>3. ASSUME NEW t \in {"nrf24_tx", "nrf24_irq"}, NEW l \in Label, NEW n \in Label, At(t, l, n), Block,
             t = "nrf24_tx" => /\ l # "start" /\ n # "start"
                               /\ n = "event" => l \in {"address", "send"}
                               /\ n # "event" => n = "line"
      PROVE  IInv'
  <2>1. t \in Thread /\ t # "idle"  BY Zenon, <1>2, <1>3
  <2>2. /\ Turn(t) /\ t \in Actors /\ fault = "none" /\ Kern(t) /\ Orderly /\ Pcs(t)
        /\ pc[t] = l /\ pc'[t] = n /\ Class(sch', t) = "blocked"
        /\ esDS5Ready' = esDS5Ready /\ esNRF24Interrupt' = esNRF24Interrupt
        /\ mtx' = mtx /\ lwip_trp' = lwip_trp /\ hid' = hid /\ irqOn' = irqOn /\ mboxOn' = mboxOn
        /\ fault' = fault
    BY Zenon, <1>3, <2>1, BlockStep
  <2>3. esDS5Ready' \in [init : BOOLEAN, list : Seq(Thread)] /\ esNRF24Interrupt' \in [init : BOOLEAN, list : Seq(Thread)]
    BY Zenon, <1>1, <2>2 DEF TypeInv
  <2>4. t = "nrf24_tx" => /\ pc'["nrf24_tx"] # "start" /\ esNRF24Interrupt'.init
                          /\ pc'["nrf24_tx"] \notin {"start", "init", "line", "register"} =>
                                "nrf24_tx" \in Range(esDS5Ready'.list)
    BY Zenon, <1>1, <1>3, <2>2 DEF EventInv
  <2>. QED  BY Zenon, <1>3, <2>2, <2>3, <2>4, RadioStep
<1>4. CASE At("shell", "transfer", "start") /\ Block  BY Zenon, <1>2, <1>4, ShellBlocks
<1>5. CASE \/ At("nrf24_tx", "init", "line") /\ Block
           \/ At("nrf24_tx", "address", "event") /\ Block
           \/ At("nrf24_tx", "send", "event") /\ Block
           \/ At("nrf24_irq", "handle", "event") /\ Block
  BY Zenon, <1>2, <1>3, <1>5
<1>. QED  BY <1>4, <1>5 DEF DriverCall

-----------------------------------------------------------------------------
(* UdpServerThread.                                                        *)

LEMMA UdpRest ==
    ASSUME IInv, Turn("udp_server"), Kern("udp_server"), PrioSame, Pcs("udp_server"),
           pc'["udp_server"] # "start",
           Class(sch', "udp_server") = "wtevt" => pc'["udp_server"] = "event",
           esDS5Ready' \in [init : BOOLEAN, list : Seq(Thread)], esDS5Ready'.init = esDS5Ready.init,
           Range(esDS5Ready.list) \subseteq Range(esDS5Ready'.list),
           Up' /\ pc'["udp_server"] # "register" => "udp_server" \in Range(esDS5Ready'.list),
           mtx' \in [init : BOOLEAN, owner : {NoThread, "udp_server", "shell"}, queue : Seq(Thread)],
           UNCHANGED <<esNRF24Interrupt, devices>>, MutexInv', LwipInv', KernelInv' => QuietInv'
    PROVE  IInv'
<1>. DEFINE t == "udp_server"
<1>1. TypeInv /\ KernelInv /\ PrioInv /\ LwipInv /\ EventInv /\ MainInv  BY Zenon DEF IInv
<1>2. t \in Thread /\ t \in Actors /\ "main" \in Thread  BY Zenon DEF Thread, Actors
<1>3. TypeInv'  BY Zenon, <1>1 DEF TypeInv, Pcs
<1>4. KernelInv'  BY Zenon, <1>1, <1>2, KernelKeeps
<1>5. PrioInv'
  <2>1. pc'["lwip"] = pc["lwip"]  BY Zenon DEF Pcs, Thread
  <2>. QED  BY Zenon, <1>1, <2>1, PrioKeeps
<1>6. MainInv'
  <2>1. Class(sch, "main") = "wtexit" => Class(sch', "main") = "wtexit"  BY Zenon, <1>2 DEF Kern, Wakes
  <2>. QED  BY Zenon, <1>1, <1>2, <2>1, MainKeeps
<1>7. EventInv'  BY Zenon, <1>1, <1>2, EventKeeps DEF devices
<1>. QED  BY Zenon, <1>3, <1>4, <1>5, <1>6, <1>7 DEF IInv

\* A step that leaves the mutex alone, and is wholly before or after its initialisation.
LEMMA UdpQuiet ==
    ASSUME IInv, Turn("udp_server"), fault = "none", Kern("udp_server"), PrioSame, Pcs("udp_server"),
           Class(sch', "udp_server") # "wtmtx", pc["udp_server"] \notin Held, pc'["udp_server"] \notin Held,
           \A u \in Thread : u # "udp_server" => Class(sch', u) = Class(sch, u) \/ Class(sch, u) # "wtmtx",
           UNCHANGED <<mtx, fault>>, Up' <=> Up
    PROVE  /\ MutexInv' /\ (KernelInv' => QuietInv')
           /\ mtx' \in [init : BOOLEAN, owner : {NoThread, "udp_server", "shell"}, queue : Seq(Thread)]
<1>1. TypeInv /\ KernelInv /\ MutexInv /\ QuietInv  BY Zenon DEF IInv
<1>2. "udp_server" \in Thread /\ "udp_server" \in Actors  BY Zenon DEF Thread, Actors
<1>3. MutexInv'
  <2>1. \A u \in Users : sch'.prio[u] = sch.prio[u]  BY Zenon DEF PrioSame
  <2>. QED  BY Zenon, <1>1, <1>2, <2>1, MutexKeeps
<1>4. ASSUME KernelInv' PROVE QuietInv'  BY Zenon, <1>1, <1>2, <1>4, QuietKeeps
<1>. QED  BY Zenon, <1>1, <1>3, <1>4 DEF TypeInv

\* A step of the loop, or on the way to it.
LEMMA UdpOn ==
    ASSUME IInv, Turn("udp_server"), fault = "none", Kern("udp_server"), PrioSame, Pcs("udp_server"),
           Class(sch', "udp_server") # "wtmtx", pc["udp_server"] \notin Held, pc'["udp_server"] \notin Held,
           \A u \in Thread : u # "udp_server" => Class(sch', u) = Class(sch, u),
           Up, Up', pc["udp_server"] # "register", pc'["udp_server"] # "register",
           Class(sch', "udp_server") = "wtevt" => pc'["udp_server"] = "event",
           UNCHANGED <<esDS5Ready, esNRF24Interrupt, mtx, lwip_trp, devices, fault>>
    PROVE  IInv'
<1>1. TypeInv /\ LwipInv /\ EventInv  BY Zenon DEF IInv
<1>2. /\ MutexInv' /\ (KernelInv' => QuietInv')
      /\ mtx' \in [init : BOOLEAN, owner : {NoThread, "udp_server", "shell"}, queue : Seq(Thread)]
  BY Zenon, UdpQuiet
<1>3. LwipInv'  BY Zenon, <1>1, LwipKeepsUp DEF devices
<1>4. pc'["udp_server"] # "start"  BY Zenon DEF Up
<1>5. esDS5Ready' \in [init : BOOLEAN, list : Seq(Thread)] /\ esDS5Ready' = esDS5Ready  BY Zenon, <1>1 DEF TypeInv
<1>6. "udp_server" \in Range(esDS5Ready'.list)  BY Zenon, <1>1, <1>5 DEF EventInv
<1>. QED  BY Zenon, <1>2, <1>3, <1>4, <1>5, <1>6, UdpRest

\* lwipInit: the thread creates lwip_thread and suspends itself.
LEMMA UdpInit ==
    ASSUME IInv,
           \/ At("udp_server", "start", "suspend") /\ chThdCreate("lwip")
           \/ /\ At("udp_server", "suspend", "mutex")
              /\ lwip_trp' = "udp_server"
              /\ sch' = GoSleep(sch, "suspended")
              /\ UNCHANGED <<events, mtx, devices, fault>>
    PROVE  IInv'
<1>. DEFINE t == "udp_server"
<1>1. TypeInv /\ KernelInv /\ PrioInv /\ LwipInv /\ EventInv /\ MainInv  BY Zenon DEF IInv
<1>2. /\ t \in Thread /\ t \in Actors /\ "lwip" \in Thread /\ {"suspend", "mutex"} \subseteq Label
      /\ "suspended" \in State \ Run /\ {"start", "suspend", "mutex"} \cap Held = {}
  BY Zenon DEF Thread, Actors, Label, State, Waiting, Run, Held
<1>3. esDS5Ready' = esDS5Ready /\ esNRF24Interrupt' = esNRF24Interrupt /\ UNCHANGED <<devices, mtx, fault>>
  BY Zenon DEF chThdCreate, events
<1>4. esDS5Ready' \in [init : BOOLEAN, list : Seq(Thread)]  BY Zenon, <1>1, <1>3 DEF TypeInv
<1>5. CASE At(t, "start", "suspend") /\ chThdCreate("lwip")
  <2>1. pc[t] = "start" /\ sch.cur = t /\ fault = "none" /\ pc' = [pc EXCEPT ![t] = "suspend"]  BY Zenon, <1>5 DEF At
  <2>2. Pcs(t) /\ pc'[t] = "suspend" /\ Turn(t)  BY Zenon, <1>1, <1>2, <2>1, PcMove DEF Turn
  <2>3. Class(sch, "lwip") = "none" /\ pc["lwip"] = "start" /\ lwip_trp = NoThread
    BY Zenon, <1>1, <2>1 DEF LwipInv, Cls
  <2>4. sch.prio["lwip"] = CreatePrio("lwip") /\ sch.real["lwip"] = CreatePrio("lwip")
    BY Zenon, <1>1, <2>3 DEF PrioInv
  <2>5. Effect("lwip", "run")  BY Zenon, <1>1, <1>2, <1>5, <2>3, <2>4, CreateCall DEF Cls
  <2>6. "none" \in Wakes(t, "lwip")  BY Zenon DEF Wakes
  <2>7. /\ Kern(t) /\ Orderly /\ Class(sch', "lwip") = "run"
        /\ \A u \in Thread : u # "lwip" => Class(sch', u) = Class(sch, u)
    BY Zenon, <1>1, <1>2, <2>2, <2>3, <2>5, <2>6, KernWake
  <2>8. Class(sch', t) = "run"  BY Zenon, <1>1, <1>2, <2>1, <2>7, RunningClass
  <2>9. lwip_trp' = lwip_trp /\ pc'["lwip"] = pc["lwip"]  BY Zenon, <1>2, <1>5, <2>2 DEF chThdCreate, Pcs
  <2>10. LwipInv'  BY Zenon, <2>2, <2>3, <2>8, <2>9 DEF LwipInv, Cls, Up
  <2>11. \A u \in Thread : u # t => Class(sch', u) = Class(sch, u) \/ Class(sch, u) # "wtmtx"
    BY Zenon, <2>3, <2>7
  <2>12. (Up' <=> Up) /\ ~Up'  BY Zenon, <2>1, <2>2 DEF Up
  <2>13. /\ MutexInv' /\ (KernelInv' => QuietInv')
         /\ mtx' \in [init : BOOLEAN, owner : {NoThread, "udp_server", "shell"}, queue : Seq(Thread)]
    BY Zenon, <1>2, <1>3, <2>1, <2>2, <2>7, <2>8, <2>11, <2>12, UdpQuiet DEF Orderly, PrioSame
  <2>. QED  BY Zenon, <1>3, <1>4, <2>2, <2>7, <2>8, <2>10, <2>12, <2>13, UdpRest DEF Orderly, PrioSame
<1>6. CASE /\ At(t, "suspend", "mutex") /\ lwip_trp' = "udp_server"
           /\ sch' = GoSleep(sch, "suspended")
  <2>1. pc[t] = "suspend" /\ sch.cur = t /\ fault = "none" /\ pc' = [pc EXCEPT ![t] = "mutex"]  BY Zenon, <1>6 DEF At
  <2>2. Pcs(t) /\ pc'[t] = "mutex" /\ Turn(t)  BY Zenon, <1>1, <1>2, <2>1, PcMove DEF Turn
  <2>3. Effect(sch.cur, "suspended")  BY Zenon, <1>1, <1>2, <1>6, <2>1, SleepCall
  <2>4. /\ Kern(t) /\ Orderly /\ Class(sch', t) = "suspended"
        /\ \A u \in Thread : u # t => Class(sch', u) = Class(sch, u)
    BY Zenon, <1>2, <2>1, <2>3, KernOwn
  <2>5. pc'["lwip"] = pc["lwip"] /\ pc["lwip"] = "start"  BY Zenon, <1>1, <1>2, <2>1, <2>2 DEF LwipInv, Pcs
  <2>6. LwipInv'  BY Zenon, <1>6, <2>2, <2>4, <2>5 DEF LwipInv, Cls, Up
  <2>7. (Up' <=> Up) /\ ~Up'  BY Zenon, <2>1, <2>2 DEF Up
  <2>8. /\ MutexInv' /\ (KernelInv' => QuietInv')
        /\ mtx' \in [init : BOOLEAN, owner : {NoThread, "udp_server", "shell"}, queue : Seq(Thread)]
    BY Zenon, <1>2, <1>3, <2>1, <2>2, <2>4, <2>7, UdpQuiet DEF Orderly, PrioSame
  <2>. QED  BY Zenon, <1>3, <1>4, <2>2, <2>4, <2>6, <2>7, <2>8, UdpRest DEF Orderly, PrioSame
<1>. QED  BY Zenon, <1>5, <1>6

LEMMA MutexInitStep == IInv /\ MutexInit => IInv'
<1>. SUFFICES ASSUME IInv, MutexInit PROVE IInv'  BY Zenon
<1>. DEFINE t == "udp_server"
<1>1. TypeInv /\ KernelInv /\ PrioInv /\ MutexInv /\ LwipInv /\ EventInv /\ MainInv /\ QuietInv  BY Zenon DEF IInv
<1>2. /\ t \in Thread /\ t \in Actors /\ "register" \in Label /\ "shell" \in Thread /\ "lwip" \in Thread
      /\ "register" \notin Held /\ "mutex" \notin Held /\ Users = {t, "shell"}
  BY Zenon DEF Thread, Actors, Label, Held, Users
<1>3. /\ At(t, "mutex", "register") /\ sch' = sch /\ mtx' = [init |-> TRUE, owner |-> NoThread, queue |-> << >>]
      /\ UNCHANGED <<events, lwip_trp, devices, fault>>
  BY Zenon DEF MutexInit, MtxObjectInit
<1>4. /\ Turn(t) /\ fault = "none" /\ Kern(t) /\ Orderly /\ Pcs(t)
      /\ pc[t] = "mutex" /\ pc'[t] = "register" /\ Class(sch', t) = "run"
      /\ \A u \in Thread : Class(sch', u) = Class(sch, u)
  BY Zenon, <1>2, <1>3, ComputeStep
<1>5. mtx'.init /\ mtx'.owner = NoThread /\ mtx'.queue = << >>
      /\ mtx' \in [init : BOOLEAN, owner : {NoThread, "udp_server", "shell"}, queue : Seq(Thread)]
  <2>1. mtx' = [init |-> TRUE, owner |-> NoThread, queue |-> << >>]  BY Zenon, <1>3
  <2>2. << >> \in Seq(Thread)  OBVIOUS
  <2>. QED  BY <2>1, <2>2, SMTT(60)
<1>6. \A u \in Thread : Class(sch, u) # "wtmtx"
  <2>1. mtx.queue = << >>
    <3>. SUFFICES ASSUME mtx.queue # << >> PROVE FALSE  BY Zenon
    <3>1. PICK u, o \in Users : /\ u # o /\ mtx.owner = o /\ pc[u] \in Held
      BY Zenon, <1>1 DEF MutexInv
    <3>2. o = t  BY Zenon, <1>2, <1>4, <3>1
    <3>3. o # NoThread
      <4>1. t # NoThread  BY Zenon DEF NoThread
      <4>. QED  BY Zenon, <3>2, <4>1
    <3>. QED  BY <1>1, <1>2, <1>4, <3>1, <3>2, <3>3 DEF MutexInv
  <2>2. ASSUME NEW u \in Thread, Class(sch, u) = "wtmtx" PROVE FALSE
    <3>1. mtx.queue = <<u>>  BY Zenon, <1>1, <2>2 DEF MutexInv, Cls
    <3>2. <<u>> # << >>  BY Zenon
    <3>. QED  BY Zenon, <2>1, <3>1, <3>2
  <2>. QED  BY Zenon, <2>2
<1>7. MutexInv'  BY Zenon, <1>4, <1>5, <1>6 DEF MutexInv, Cls
<1>8. LwipInv'
  <2>1. pc'["lwip"] = pc["lwip"]  BY Zenon, <1>2, <1>4 DEF Pcs
  <2>2. Class(sch, t) = "run"  BY Zenon, <1>2, <1>4
  <2>3. pc["lwip"] \notin {"start", "netif", "resume"}  BY Zenon, <1>1, <1>4, <2>2 DEF LwipInv, Cls
  <2>. QED  BY Zenon, <1>1, <1>3, <1>4, <2>1, <2>3 DEF LwipInv, Up, devices
<1>9. ASSUME KernelInv' PROVE QuietInv'
  <2>. SUFFICES ASSUME ~EarlyCommands
                PROVE  /\ pc'["shell"] \notin {"start", "line"} => Up'
                       /\ Up' => mtx'.init
                       /\ \A u \in Users : InCopy(u)' => mtx'.owner = u
                       /\ fault' = "none"
    BY Zenon DEF QuietInv
  <2>1. Up' /\ ~Up  BY Zenon, <1>4 DEF Up
  <2>2. pc["shell"] \in {"start", "line"} /\ pc'["shell"] = pc["shell"]
    BY Zenon, <1>1, <1>2, <1>4, <2>1 DEF QuietInv, Pcs
  <2>3. ASSUME NEW u \in Users PROVE ~InCopy(u)'
    <3>1. pc'[u] \notin Held  BY Zenon, <1>2, <1>4, <2>2 DEF Held
    <3>. QED  BY Zenon, <1>9, <3>1, CopyFacts
  <2>. QED  BY Zenon, <1>3, <1>4, <1>5, <2>1, <2>3
<1>10. esDS5Ready' = esDS5Ready /\ esDS5Ready \in [init : BOOLEAN, list : Seq(Thread)]
       /\ UNCHANGED <<esNRF24Interrupt, devices>>
  BY Zenon, <1>1, <1>3 DEF TypeInv, events
<1>. QED  BY Zenon, <1>4, <1>5, <1>7, <1>8, <1>9, <1>10, UdpRest DEF Orderly, PrioSame

LEMMA UdpStep == IInv /\ UdpServerThread => IInv'
<1>. SUFFICES ASSUME IInv, UdpServerThread PROVE IInv'  BY Zenon
<1>. DEFINE t == "udp_server"
<1>1. TypeInv /\ KernelInv /\ PrioInv /\ LwipInv /\ EventInv  BY Zenon DEF IInv
<1>2. /\ t \in Thread /\ t \in Actors /\ t \in Users /\ t # "idle"
      /\ {"register", "socket", "first lock", "return", "event", "lock", "sendto"} \subseteq Label \ Held
      /\ {"first copy", "first unlock", "copy", "unlock"} \subseteq Held
  BY DEF Thread, Actors, Users, Label, Held
<1>3. CASE /\ At(t, "register", "socket")
           /\ esDS5Ready' = EvtRegister(esDS5Ready, "udp_server")
           /\ UNCHANGED <<sch, esNRF24Interrupt, epending, mtx, lwip_trp, devices, fault>>
  <2>1. /\ Turn(t) /\ fault = "none" /\ Kern(t) /\ Orderly /\ Pcs(t)
        /\ pc[t] = "register" /\ pc'[t] = "socket" /\ Class(sch', t) = "run"
        /\ \A u \in Thread : Class(sch', u) = Class(sch, u)
    BY Zenon, <1>2, <1>3, ComputeStep
  <2>2. esDS5Ready \in [init : BOOLEAN, list : Seq(Thread)]  BY Zenon, <1>1 DEF TypeInv
  <2>3. /\ esDS5Ready' \in [init : BOOLEAN, list : Seq(Thread)] /\ esDS5Ready'.init = esDS5Ready.init
        /\ t \in Range(esDS5Ready'.list) /\ Range(esDS5Ready.list) \subseteq Range(esDS5Ready'.list)
    BY Zenon, <1>2, <1>3, <2>2, RegisterFacts
  <2>4. Up /\ Up'  BY Zenon, <2>1 DEF Up
  <2>5. /\ MutexInv' /\ (KernelInv' => QuietInv')
        /\ mtx' \in [init : BOOLEAN, owner : {NoThread, "udp_server", "shell"}, queue : Seq(Thread)]
    BY Zenon, <1>2, <1>3, <2>1, <2>4, UdpQuiet DEF Orderly, PrioSame
  <2>6. LwipInv'  BY Zenon, <1>1, <1>3, <2>1, <2>4, LwipKeepsUp DEF devices
  <2>. QED  BY Zenon, <1>3, <2>1, <2>3, <2>5, <2>6, UdpRest DEF Orderly, PrioSame
<1>4. ASSUME NEW l \in {"socket", "sendto"}, NEW n \in {"first lock", "return", "event"}, At(t, l, n), Block
      PROVE  IInv'
  <2>1. l \in Label \ Held /\ n \in Label \ Held  BY Zenon, <1>2
  <2>2. /\ Turn(t) /\ fault = "none" /\ Kern(t) /\ Orderly /\ Pcs(t)
        /\ pc[t] = l /\ pc'[t] = n /\ Class(sch', t) = "blocked"
        /\ \A u \in Thread : u # t => Class(sch', u) = Class(sch, u)
        /\ UNCHANGED <<esDS5Ready, esNRF24Interrupt, mtx, lwip_trp, devices, fault>>
    BY Zenon, <1>2, <1>4, <2>1, BlockStep DEF devices
  <2>3. Up /\ Up' /\ pc[t] # "register" /\ pc'[t] # "register"  BY Zenon, <1>4, <2>2 DEF Up
  <2>. QED  BY Zenon, <2>1, <2>2, <2>3, UdpOn DEF Orderly, PrioSame
<1>5. CASE At(t, "return", "return") /\ chThdExit
  <2>1. pc[t] = "return" /\ sch.cur = t /\ fault = "none" /\ pc' = [pc EXCEPT ![t] = "return"]  BY Zenon, <1>5 DEF At
  <2>2. Pcs(t) /\ pc'[t] = "return" /\ Turn(t)  BY Zenon, <1>1, <1>2, <2>1, PcMove DEF Turn
  <2>3. /\ Books(Thread, sch') /\ Topmost(sch') /\ PrioSame /\ Class(sch', t) = "final"
        /\ \A u \in Thread : u # t => Class(sch', u) = Class(sch, u)
    BY Zenon, <1>1, <1>5, <2>1, ExitCall DEF PrioSame
  <2>4. Kern(t)  BY Zenon, <2>3 DEF Kern
  <2>5. UNCHANGED <<esDS5Ready, esNRF24Interrupt, mtx, lwip_trp, devices, fault>>
    BY Zenon, <1>5 DEF chThdExit, events
  <2>6. Up /\ Up'  BY Zenon, <2>1, <2>2 DEF Up
  <2>. QED  BY Zenon, <1>2, <2>1, <2>2, <2>3, <2>4, <2>5, <2>6, UdpOn
<1>6. CASE DestinationAccess(t, "first lock", "first copy", "first unlock", "event")
  BY Zenon, <1>2, <1>6, AccessStep
<1>7. CASE DestinationAccess(t, "lock", "copy", "unlock", "sendto")
  BY Zenon, <1>2, <1>7, AccessStep
<1>8. CASE chEvtWaitOne(t, "event", "lock")
  <2>1. /\ Turn(t) /\ fault = "none" /\ Kern(t) /\ Orderly /\ Pcs(t)
        /\ pc[t] = "event" /\ pc'[t] \in {"event", "lock"} /\ Class(sch', t) \in {"run", "wtevt"}
        /\ Class(sch', t) = "wtevt" => pc'[t] = "event"
        /\ \A u \in Thread : u # t => Class(sch', u) = Class(sch, u)
        /\ UNCHANGED <<esDS5Ready, esNRF24Interrupt, mtx, lwip_trp, devices, fault>>
    BY Zenon, <1>2, <1>8, WaitStep DEF devices
  <2>2. Up /\ Up' /\ pc[t] # "register" /\ pc'[t] # "register" /\ pc[t] \notin Held /\ pc'[t] \notin Held
    BY Zenon, <1>2, <2>1 DEF Up
  <2>. QED  BY Zenon, <2>1, <2>2, UdpOn DEF Orderly, PrioSame
<1>9. CASE MutexInit  BY Zenon, <1>9, MutexInitStep
<1>10. CASE \/ At(t, "start", "suspend") /\ chThdCreate("lwip")
            \/ /\ At(t, "suspend", "mutex")
               /\ lwip_trp' = "udp_server"
               /\ sch' = GoSleep(sch, "suspended")
               /\ UNCHANGED <<events, mtx, devices, fault>>
  BY Zenon, <1>10, UdpInit
<1>11. CASE \E n \in {"first lock", "return"} : At(t, "socket", n) /\ Block  BY Zenon, <1>4, <1>11
<1>12. CASE At(t, "sendto", "event") /\ Block  BY Zenon, <1>4, <1>12
<1>. QED  BY Zenon, <1>3, <1>5, <1>6, <1>7, <1>8, <1>9, <1>10, <1>11, <1>12 DEF UdpServerThread

-----------------------------------------------------------------------------
(* The invariant is inductive.                                             *)

LEMMA InitInv == WellOrdered /\ Init => IInv
<1>. SUFFICES ASSUME WellOrdered, Init PROVE IInv  BY Zenon
<1>1. Thread = {"main", "blinker", "HID", "usb_host", "udp_server", "nrf24_tx", "nrf24_irq", "shell", "lwip", "idle"}
  BY Zenon DEF Thread
<1>2. \A t \in Thread : CreatePrio(t) \in Nat
  BY DEF Thread, CreatePrio, NORMALPRIO, IDLEPRIO
<1>3. /\ sch.cur = "main" /\ sch.ready = <<"idle">>
      /\ sch.st = [t \in Thread |-> CASE t = "main" -> "current" [] t = "idle" -> "ready" [] OTHER -> "none"]
      /\ sch.prio = [t \in Thread |-> CreatePrio(t)] /\ sch.real = [t \in Thread |-> CreatePrio(t)]
  BY Zenon DEF Init
<1>4. /\ \A t \in Thread : sch.prio[t] = CreatePrio(t) /\ sch.real[t] = CreatePrio(t)
      /\ sch.st["main"] = "current" /\ sch.st["idle"] = "ready"
      /\ \A t \in Thread : t # "main" /\ t # "idle" => sch.st[t] = "none"
  BY Zenon, <1>1, <1>3
<1>5. \A t \in Thread : Class(sch, t) = IF t \in {"main", "idle"} THEN "run" ELSE "none"
  BY <1>4 DEF Class, Run
<1>6. /\ sch.ready \in Seq(Thread) /\ Len(sch.ready) = 1 /\ sch.ready[1] = "idle"
  BY <1>1, <1>3
<1>7. \A x : x \in Range(sch.ready) <=> x = "idle"
  <2>1. \A x : x \in Range(sch.ready) <=> \E i \in 1..Len(sch.ready) : sch.ready[i] = x
    BY Zenon, <1>6, RangeFacts
  <2>. QED  BY <1>6, <2>1
<1>8. sch \in Sched(Thread)
  <2>1. sch.st \in [Thread -> State]  BY Zenon, <1>3 DEF State
  <2>2. sch.prio \in [Thread -> Nat] /\ sch.real \in [Thread -> Nat]  BY <1>2, <1>3
  <2>. QED  BY <1>1, <1>3, <1>6, <2>1, <2>2 DEF Sched, Init
<1>9. KernelInv
  <2>1. Queue(Thread, sch.ready, sch.prio)  BY <1>6 DEF Queue
  <2>2. Books(Thread, sch)  BY <1>3, <1>4, <1>7, <1>8, <2>1 DEF Books
  <2>3. Topmost(sch)  BY <1>1, <1>3, <1>4, <1>7 DEF Topmost, CreatePrio, IDLEPRIO, NORMALPRIO
  <2>. QED  BY Zenon, <1>1, <1>5, <2>2, <2>3 DEF KernelInv, Cls
<1>10. /\ pc \in [Thread -> Label] /\ pc["main"] = "blinker"
       /\ \A t \in Thread : t # "main" => pc[t] = "start"
  BY Zenon, <1>1 DEF Init, Label, MainOrder
<1>11. TypeInv  BY <1>10 DEF TypeInv, Init, ZeroSource, ZeroMutex
<1>12. PrioInv  BY Zenon, <1>1, <1>4 DEF PrioInv, CreatePrio
<1>13. MainInv
  <2>1. MainOrder[1] = "blinker" /\ \A i \in 1..7 : MainOrder[i] \in Thread \ {"main", "idle"}
    BY <1>1 DEF MainOrder
  <2>2. \A t \in Peers : pc[t] = "start" /\ Leads(sch, "main", t)
    BY <1>1, <1>3, <1>10 DEF Peers, Leads
  <2>3. \A i \in 1..6 : \A j \in i..7 : Class(sch, MainOrder[j]) = "none"  BY <1>5, <2>1
  <2>. QED  BY <1>1, <1>5, <1>10, <2>1, <2>2, <2>3 DEF MainInv, Cls
<1>14. MutexInv  BY Zenon, <1>5 DEF MutexInv, Init, ZeroMutex, Cls
<1>15. LwipInv  BY <1>1, <1>5, <1>10 DEF LwipInv, Init, Cls, Up
<1>16. EventInv  BY <1>1, <1>5, <1>10 DEF EventInv, Init, Cls, Up
<1>17. QuietInv  BY Zenon, <1>1, <1>10 DEF QuietInv, Init, Up, Users, InCopy
<1>. QED  BY Zenon, <1>9, <1>11, <1>12, <1>13, <1>14, <1>15, <1>16, <1>17 DEF IInv

LEMMA NextInv == IInv /\ [Next]_vars => IInv'
<1>. SUFFICES ASSUME IInv, [Next]_vars PROVE IInv'  BY Zenon
<1>1. CASE ThreadStep
  BY Zenon, <1>1, MainStep, BlinkerStep, HidStep, UsbStep, UdpStep, TxStep, IrqStep, DriverStep, ShellStep, LwipStep
  DEF ThreadStep
<1>2. CASE Interrupt  BY <1>2, InterruptStep
<1>3. CASE UNCHANGED vars
  <2>1. TypeInv'  BY Zenon, <1>3 DEF IInv, TypeInv, vars, events
  <2>2. KernelInv'  BY Zenon, <1>3 DEF IInv, KernelInv, Cls, vars
  <2>3. PrioInv'  BY <1>3 DEF IInv, PrioInv, vars
  <2>4. MainInv'  BY Zenon, <1>3 DEF IInv, MainInv, Cls, vars
  <2>5. MutexInv'  BY <1>3 DEF IInv, MutexInv, Cls, vars
  <2>6. LwipInv'  BY Zenon, <1>3 DEF IInv, LwipInv, Cls, Up, vars, devices
  <2>7. EventInv'  BY Zenon, <1>3 DEF IInv, EventInv, Cls, Up, vars, events, devices
  <2>8. QuietInv'  BY Zenon, <1>3 DEF IInv, QuietInv, Up, InCopy, vars
  <2>. QED  BY <2>1, <2>2, <2>3, <2>4, <2>5, <2>6, <2>7, <2>8 DEF IInv
<1>. QED  BY <1>1, <1>2, <1>3 DEF Next

-----------------------------------------------------------------------------
(* What the invariant says about each property of the start-up.            *)

\* A waiting state is its own class.
LEMMA WaitingClass ==
    ASSUME KernelInv, NEW t \in Thread, NEW x \in State \ Run
    PROVE  Class(sch, t) = x <=> sch.st[t] = x
BY ClassFacts DEF KernelInv, Books

\* The ready list holds the ready threads by falling priority, and the running
\* thread has the highest.
InOrder(q) ==
    /\ Queue(Thread, q, sch.prio)
    /\ \A t \in Thread : sch.st[t] = "current" <=> t = sch.cur
    /\ \A t \in Thread : t \in Range(q) <=> sch.st[t] = "ready"
    /\ \A i \in 2..Len(q) : sch.prio[q[i - 1]] >= sch.prio[q[i]]
    /\ q # << >> => sch.prio[q[1]] <= sch.prio[sch.cur]

LEMMA ReadyInOrder ==
    ASSUME IInv, NEW q, q = sch.ready
    PROVE  InOrder(q)
<1>1. Books(Thread, sch) /\ Topmost(sch) /\ Queue(Thread, q, sch.prio)  BY DEF IInv, KernelInv, Books
<1>2. q \in Seq(Thread)  BY Zenon, <1>1 DEF Queue
<1>3. /\ \A t \in Thread : sch.st[t] = "current" <=> t = sch.cur
      /\ \A t \in Thread : t \in Range(q) <=> sch.st[t] = "ready"
  BY Zenon, <1>1 DEF Books
<1>4. \A i \in 2..Len(q) : sch.prio[q[i - 1]] >= sch.prio[q[i]]
  <2>1. \A i \in 2..Len(q) : i - 1 \in 1..Len(q) /\ i \in 1..Len(q) /\ i - 1 < i  BY <1>2
  <2>. QED  BY Zenon, <1>1, <2>1 DEF Queue
<1>5. q # << >> => sch.prio[q[1]] <= sch.prio[sch.cur]
  <2>. SUFFICES ASSUME q # << >> PROVE sch.prio[q[1]] <= sch.prio[sch.cur]  BY Zenon
  <2>1. 1 \in 1..Len(q)  BY <1>2
  <2>2. q[1] \in Range(q)  BY Zenon, <1>2, <2>1, RangeFacts
  <2>. QED  BY <1>1, <2>2 DEF Topmost
<1>6. Queue(Thread, q, sch.prio)  BY Zenon, <1>1
<1>. QED  BY Zenon, <1>3, <1>4, <1>5, <1>6 DEF InOrder

LEMMA MainIsFirst == IInv => MainSetsUpFirst
<1>. SUFFICES ASSUME IInv PROVE MainSetsUpFirst  BY Zenon
<1>1. "shell" \in Thread /\ "none" \in State \ Run  BY Zenon DEF Thread, State, Run
<1>2. Class(sch, "shell") = "none" <=> sch.st["shell"] = "none"  BY <1>1, WaitingClass DEF IInv
<1>. QED  BY Zenon, <1>2 DEF IInv, MainInv, MainSetsUpFirst, Peers, Cls

LEMMA WaitersAreListed == IInv => Ds5WaitersListed
<1>. SUFFICES ASSUME IInv PROVE Ds5WaitersListed  BY Zenon
<1>. SUFFICES ASSUME NEW t \in {"udp_server", "nrf24_tx"}, sch.st[t] = "wtevt"
              PROVE  t \in Range(esDS5Ready.list)
  BY Zenon DEF Ds5WaitersListed
<1>1. t \in Thread /\ "wtevt" \in State \ Run  BY Zenon DEF Thread, State, Waiting, Run
<1>2. Class(sch, t) = "wtevt"  BY <1>1, WaitingClass DEF IInv
<1>3. pc[t] = "event"  BY <1>2 DEF IInv, EventInv, Cls
<1>. QED  BY <1>3 DEF IInv, EventInv, Up

LEMMA WaiterIsSuspended == IInv => LwipResumesWaiter
<1>. SUFFICES ASSUME IInv PROVE LwipResumesWaiter  BY Zenon
<1>. SUFFICES ASSUME pc["lwip"] = "resume"
              PROVE  lwip_trp = "udp_server" /\ sch.st["udp_server"] = "suspended"
  BY Zenon DEF LwipResumesWaiter
<1>1. "udp_server" \in Thread /\ "suspended" \in State \ Run  BY Zenon DEF Thread, State, Waiting, Run
<1>2. pc["udp_server"] = "mutex"  BY DEF IInv, LwipInv, Up
<1>3. lwip_trp = "udp_server" /\ Class(sch, "udp_server") = "suspended"  BY <1>2 DEF IInv, LwipInv, Cls
<1>. QED  BY <1>1, <1>3, WaitingClass DEF IInv

LEMMA OwnerIsRaised == IInv => OwnerInherits
<1>. SUFFICES ASSUME IInv PROVE OwnerInherits  BY Zenon
<1>. SUFFICES ASSUME NEW t \in Thread, sch.st[t] = "wtmtx"
              PROVE  mtx.owner # NoThread /\ sch.prio[mtx.owner] >= sch.prio[t]
  BY Zenon DEF OwnerInherits
<1>1. "wtmtx" \in State \ Run  BY Zenon DEF State, Waiting, Run
<1>2. Class(sch, t) = "wtmtx"  BY <1>1, WaitingClass DEF IInv
<1>3. mtx.queue = <<t>>  BY <1>2 DEF IInv, MutexInv, Cls
<1>4. <<t>> # << >>  BY Zenon
<1>5. PICK u, o \in Users : mtx.queue = <<u>> /\ mtx.owner = o /\ sch.prio[o] >= sch.prio[u]
  BY <1>3, <1>4 DEF IInv, MutexInv
<1>6. u = t  BY <1>3, <1>5
<1>. QED  BY Zenon, <1>5, <1>6 DEF Users, NoThread

LEMMA QuietExclusion == ~EarlyCommands /\ IInv => MutualExclusion
BY Zenon DEF IInv, QuietInv, MutualExclusion, Users

LEMMA QuietUse == ~EarlyCommands /\ IInv => NothingUsedUninitialised
BY Zenon DEF IInv, QuietInv, NothingUsedUninitialised

-----------------------------------------------------------------------------
(* The invariant holds, and so does what it says.                          *)

INSTANCE FiniteSetTheorems
INSTANCE WellFoundedInduction

\* Every set of naturals that is not empty has a least element.
LEMMA NatWellOrdered == WellOrdered
<1>. SUFFICES ASSUME NEW N \in SUBSET Nat, N # {}
              PROVE  \E m \in N : \A n \in N : m <= n
  BY Zenon DEF WellOrdered
<1>. DEFINE R == OpToRel(<, Nat)
<1>1. IsWellFoundedOn(R, Nat)  BY Zenon, NatLessThanWellFounded
<1>2. \A x, y \in Nat : y < x => <<y, x>> \in R  BY Zenon DEF OpToRel
<1>. HIDE DEF R
<1>3. PICK m \in N : \A n \in N : ~(<<n, m>> \in R)  BY Zenon, <1>1, WFMin
<1>4. ASSUME NEW n \in N PROVE m <= n
  <2>1. m \in Nat /\ n \in Nat  BY Zenon
  <2>2. ~(n < m)  BY Zenon, <1>2, <1>3, <2>1
  <2>. QED  BY <2>1, <2>2
<1>. QED  BY Zenon, <1>4

\* The invariant of the start-up holds after every kernel call of every thread
\* of main.c and lwip_thread and after every interrupt, whether or not commands
\* arrive before the network is up.
THEOREM StartUpInvariant == Spec => []IInv
<1>1. Init => IInv  BY Zenon, NatWellOrdered, InitInv
<1>. QED  BY <1>1, NextInv, PTL DEF Spec

\* A thread is in the ready list once.
LEMMA Once ==
    ASSUME NEW T, NEW q, NEW prio, Queue(T, q, prio), NEW t \in Range(q)
    PROVE  Cardinality({i \in DOMAIN q : q[i] = t}) = 1
<1>1. q \in Seq(T) /\ DOMAIN q = 1..Len(q)  BY DEF Queue
<1>2. PICK k \in 1..Len(q) : q[k] = t  BY Zenon, <1>1, RangeFacts
<1>3. {i \in DOMAIN q : q[i] = t} = {k}  BY Zenon, <1>1, <1>2 DEF Queue
<1>. QED  BY Zenon, <1>3, FS_Singleton

LEMMA Never ==
    ASSUME NEW q, NEW t, t \notin Range(q)
    PROVE  Cardinality({i \in DOMAIN q : q[i] = t}) = 0
<1>1. {i \in DOMAIN q : q[i] = t} = {}  BY Zenon DEF Range
<1>. QED  BY Zenon, <1>1, FS_EmptySet

\* chSchReadyI, chSchWakeupS, chSchRescheduleS, chSchGoSleepS, chMtxLock and
\* chMtxUnlock keep the scheduler's books: the ready list holds each ready
\* thread once, by falling priority, and nothing in it has a higher priority
\* than the running thread.
THEOREM SchedulerKeepsBooks == Spec => []HighestRuns
<1>1. ASSUME IInv PROVE HighestRuns
  <2>1. PICK q : q = sch.ready  BY Zenon
  <2>2. InOrder(q)  BY Zenon, <1>1, <2>1, ReadyInOrder
  <2>3. ASSUME NEW t \in Thread
        PROVE  Cardinality({i \in DOMAIN q : q[i] = t}) = IF sch.st[t] = "ready" THEN 1 ELSE 0
    <3>1. CASE t \in Range(q)
      <4>1. Queue(Thread, q, sch.prio) /\ sch.st[t] = "ready"  BY Zenon, <2>2, <3>1 DEF InOrder
      <4>. QED  BY Zenon, <3>1, <4>1, Once
    <3>2. CASE t \notin Range(q)
      <4>1. sch.st[t] # "ready"  BY Zenon, <2>2, <3>2 DEF InOrder
      <4>. QED  BY Zenon, <3>2, <4>1, Never
    <3>. QED  BY Zenon, <3>1, <3>2
  <2>. QED  BY Zenon, <2>1, <2>2, <2>3 DEF HighestRuns, InOrder
<1>. QED  BY <1>1, StartUpInvariant, PTL

\* main() creates the threads of its own priority and completes its set-up,
\* the shell included, before any of them runs.
THEOREM MainGoesFirst == Spec => []MainSetsUpFirst
BY MainIsFirst, StartUpInvariant, PTL

\* UdpServerThread and NRF24TxThread wait for EVT_DS5_READY only with their
\* listener registered: UsbHostThread has initialised esDS5Ready before.
THEOREM Ds5WaitersAreListed == Spec => []Ds5WaitersListed
BY WaitersAreListed, StartUpInvariant, PTL

\* lwip_thread reaches chThdResume with the caller of lwipInit suspended.
THEOREM LwipFindsWaiter == Spec => []LwipResumesWaiter
BY WaiterIsSuspended, StartUpInvariant, PTL

\* chMtxLock lends the priority of the waiting thread to the owner of
\* udp_dest_mutex, and chMtxUnlock hands the mutex over: nobody waits for a
\* mutex without an owner, or behind an owner of lower priority.
THEOREM PriorityIsInherited == Spec => []OwnerInherits
BY OwnerIsRaised, StartUpInvariant, PTL

\* If no command arrives before the network is up, the shell and the UDP thread
\* never copy udp_dest_ip at once.
THEOREM DestinationIsExclusive == ~EarlyCommands => (Spec => []MutualExclusion)
<1>. SUFFICES ASSUME ~EarlyCommands PROVE Spec => []MutualExclusion  BY Zenon
<1>1. IInv => MutualExclusion  BY Zenon, QuietExclusion
<1>. QED  BY <1>1, StartUpInvariant, PTL

\* Nor is an event source, the mutex or the tcpip mailbox used before main, the
\* UDP thread or lwip_thread has initialised it.
THEOREM InitialisedBeforeUse == ~EarlyCommands => (Spec => []NothingUsedUninitialised)
<1>. SUFFICES ASSUME ~EarlyCommands PROVE Spec => []NothingUsedUninitialised  BY Zenon
<1>1. IInv => NothingUsedUninitialised  BY Zenon, QuietUse
<1>. QED  BY <1>1, StartUpInvariant, PTL
=============================================================================
