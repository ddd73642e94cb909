-------------------------- MODULE Ds5PipelineProofs --------------------------
(***************************************************************************)
(* Proofs about the DualSense data path, for every number of consumers, of *)
(* pieces of a copy and of publications, and every width of the counter.   *)
(***************************************************************************)
EXTENDS Ds5Pipeline, TLAPS

\* A step of the data path, one disjunct per action.
LEMMA StepCases ==
  ASSUME [Next]_vars
  PROVE  \/ Publish
         \/ \E c \in Consumers : ConsumerStep(c)
         \/ \E s \in DestStrings : udp_set_destination(s)
         \/ UNCHANGED vars
BY Zenon DEF Next, HidReport, Reject

\* Every variable keeps its type: the stamps stay within the bound, the
\* generation within its width, and an index names one of the two slots.
LEMMA TypeStep == TypeOK /\ [Next]_vars => TypeOK'
<1> SUFFICES ASSUME TypeOK, [Next]_vars PROVE TypeOK'
  BY Zenon
<1> USE PartsAssumption, GenModAssumption, MaxPublishAssumption
<1> USE DEF TypeOK, Pieces, Stamps, Slots, Snapshot
<1>1. CASE Publish
  <2>1. published + 1 \in Stamps /\ published' \in Stamps
    BY <1>1 DEF Publish
  <2>2. ds5PublishedIndex' \in Slots
    BY <1>1 DEF Publish
  <2>3. ds5Buf' \in [Slots -> Snapshot]
    BY Zenon, <1>1, <2>1 DEF Publish
  <2>4. ds5Generation' \in 0..(GenMod - 1)
    BY <1>1 DEF Publish, Wrap
  <2>5. epending' \subseteq Consumers
    BY Zenon, <1>1 DEF Publish, chEvtBroadcastI
  <2>6. UNCHANGED <<listeners, udp_dest_ip, pc, localVars, historyVars>>
    BY Zenon, <1>1 DEF Publish
  <2>7. QED
    BY Zenon, <2>1, <2>2, <2>3, <2>4, <2>5, <2>6 DEF localVars, historyVars
<1>2. ASSUME NEW c \in Consumers, Register(c) PROVE TypeOK'
  BY Zenon, <1>2 DEF Register, isrVars, localVars
<1>3. ASSUME NEW c \in Consumers, Setup(c) \/ SetupFails(c) PROVE TypeOK'
  BY Zenon, <1>3 DEF Setup, SetupFails, isrVars, localVars, historyVars
<1>4. ASSUME NEW c \in Consumers, WaitOne(c) PROVE TypeOK'
  BY Zenon, <1>4 DEF WaitOne, isrVars, localVars, historyVars
<1>5. ASSUME NEW c \in Consumers, ReadGen(c) PROVE TypeOK'
  BY Zenon, <1>5 DEF ReadGen, isrVars
<1>6. ASSUME NEW c \in Consumers, ReadIdx(c) PROVE TypeOK'
  <2>1. 1 \in Pieces
    OBVIOUS
  <2>2. /\ idx' \in [Consumers -> Slots]
        /\ part' \in [Consumers -> Pieces]
        /\ readAt' \in [Consumers -> Stamps]
        /\ seen' \in [Consumers -> Stamps]
    BY Zenon, <1>6, <2>1 DEF ReadIdx
  <2>3. pc' \in [Consumers -> {"boot", "setup", "exited", "wait", "gen", "idx", "copy", "send"}]
    BY Zenon, <1>6 DEF ReadIdx
  <2>4. QED
    BY Zenon, <1>6, <2>2, <2>3 DEF ReadIdx, isrVars
<1>7. ASSUME NEW c \in Consumers, CopyPiece(c) PROVE TypeOK'
  <2> HIDE DEF Pieces, Stamps, Slots, Snapshot
  <2>1. ds5Buf[idx[c]] \in Snapshot /\ snap[c] \in Snapshot /\ part[c] \in Pieces
    BY Zenon
  <2>2. ds5Buf[idx[c]][part[c]] \in Stamps
    BY Zenon, <2>1 DEF Snapshot
  <2>3. [snap[c] EXCEPT ![part[c]] = ds5Buf[idx[c]][part[c]]] \in Snapshot
    BY Zenon, <2>1, <2>2 DEF Snapshot
  <2>4. snap' \in [Consumers -> Snapshot]
    BY Zenon, <1>7, <2>3 DEF CopyPiece
  <2>5. part' \in [Consumers -> Pieces]
    <3>1. CASE part[c] < Parts
      <4>1. part[c] + 1 \in Pieces
        BY <2>1, <3>1 DEF Pieces
      <4>2. QED
        BY Zenon, <1>7, <3>1, <4>1 DEF CopyPiece
    <3>2. CASE ~(part[c] < Parts)
      BY Zenon, <1>7, <3>2 DEF CopyPiece
    <3>3. QED
      BY Zenon, <3>1, <3>2
  <2>6. pc' \in [Consumers -> {"boot", "setup", "exited", "wait", "gen", "idx", "copy", "send"}]
    BY <1>7 DEF CopyPiece
  <2>7. endAt' \in [Consumers -> Stamps] /\ endGen' \in [Consumers -> 0..(GenMod - 1)]
    BY <1>7 DEF CopyPiece
  <2>8. QED
    BY Zenon, <1>7, <2>4, <2>5, <2>6, <2>7 DEF CopyPiece, isrVars
<1>8. ASSUME NEW c \in Consumers, Send(c) PROVE TypeOK'
  BY Zenon, <1>8 DEF Send, isrVars, historyVars
<1>9. ASSUME NEW s \in DestStrings, udp_set_destination(s) PROVE TypeOK'
  BY Zenon, <1>9 DEF udp_set_destination, isrVars, localVars, historyVars
<1>10. CASE UNCHANGED vars
  BY Zenon, <1>10 DEF vars, isrVars, localVars, historyVars
<1>11. QED
  BY Zenon, <1>1, <1>2, <1>3, <1>4, <1>5, <1>6, <1>7, <1>8, <1>9, <1>10, StepCases DEF ConsumerStep

\* A publication moves the last report to the back slot and nothing else
\* writes a slot.
LEMMA SlotStep == TypeOK /\ SlotInv /\ [Next]_vars => SlotInv'
<1> SUFFICES ASSUME TypeOK, SlotInv, [Next]_vars, NEW p \in Pieces
             PROVE  /\ ds5Buf'[ds5PublishedIndex'][p] = published'
                    /\ ds5Buf'[1 - ds5PublishedIndex'][p] =
                          IF published' = 0 THEN 0 ELSE published' - 1
  BY Zenon DEF SlotInv
<1>1. CASE Publish
  <2>1. /\ published \in Nat
        /\ ds5PublishedIndex \in {0, 1}
        /\ ds5Buf \in [{0, 1} -> Snapshot]
    BY MaxPublishAssumption DEF TypeOK, Stamps, Slots
  <2>2. 1 - (1 - ds5PublishedIndex) = ds5PublishedIndex
    BY <2>1
  <2>3. /\ ds5Buf'[1 - ds5PublishedIndex] = [q \in Pieces |-> published + 1]
        /\ ds5Buf'[ds5PublishedIndex] = ds5Buf[ds5PublishedIndex]
    BY <1>1, <2>1 DEF Publish
  <2>4. QED
    BY <1>1, <2>1, <2>2, <2>3 DEF Publish, SlotInv
<1>2. CASE UNCHANGED isrVars
  BY Zenon, <1>2 DEF SlotInv, isrVars
<1>3. Publish \/ UNCHANGED isrVars
  BY Zenon, StepCases DEF ConsumerStep, Register, Setup, SetupFails, WaitOne, ReadGen, ReadIdx,
                   CopyPiece, Send, udp_set_destination, vars
<1>4. QED
  BY Zenon, <1>1, <1>2, <1>3

\* The stored destination always passed both checks of udp_set_destination.
LEMMA DestStep == DestInv /\ [Next]_vars => DestInv'
BY Zenon, StepCases DEF DestInv, Publish, ConsumerStep, Register, Setup, SetupFails, WaitOne, ReadGen,
                 ReadIdx, CopyPiece, Send, udp_set_destination, vars

\* The event is latched: a publication is pending for every listener until it
\* starts an iteration, and the iteration reads the index after that.
LEMMA WakeStep == TypeOK /\ NoLostWakeup /\ [Next]_vars => NoLostWakeup'
<1> SUFFICES ASSUME TypeOK, NoLostWakeup, [Next]_vars, NEW d \in listeners',
                    pc'[d] \notin {"gen", "idx"}, d \notin epending'
             PROVE  seen'[d] = published'
  BY Zenon DEF NoLostWakeup
<1> USE DEF TypeOK, NoLostWakeup
<1>1. CASE Publish
  BY Zenon, <1>1 DEF Publish, chEvtBroadcastI
<1>2. ASSUME NEW c \in Consumers, Register(c) PROVE seen'[d] = published'
  BY Zenon, <1>2 DEF Register, isrVars
<1>3. ASSUME NEW c \in Consumers, Setup(c) \/ SetupFails(c) PROVE seen'[d] = published'
  BY Zenon, <1>3 DEF Setup, SetupFails, isrVars, historyVars
<1>4. ASSUME NEW c \in Consumers, WaitOne(c) PROVE seen'[d] = published'
  BY Zenon, <1>4 DEF WaitOne, isrVars, historyVars
<1>5. ASSUME NEW c \in Consumers, ReadGen(c) PROVE seen'[d] = published'
  BY Zenon, <1>5 DEF ReadGen, isrVars
<1>6. ASSUME NEW c \in Consumers, ReadIdx(c) PROVE seen'[d] = published'
  BY Zenon, <1>6 DEF ReadIdx, isrVars
<1>7. ASSUME NEW c \in Consumers, CopyPiece(c) PROVE seen'[d] = published'
  BY Zenon, <1>7 DEF CopyPiece, isrVars
<1>8. ASSUME NEW c \in Consumers, Send(c) PROVE seen'[d] = published'
  BY Zenon, <1>8 DEF Send, isrVars, historyVars
<1>9. ASSUME NEW s \in DestStrings, udp_set_destination(s) PROVE seen'[d] = published'
  BY Zenon, <1>9 DEF udp_set_destination, isrVars, historyVars
<1>10. CASE UNCHANGED vars
  BY Zenon, <1>10 DEF vars, isrVars, historyVars
<1>11. QED
  BY Zenon, <1>1, <1>2, <1>3, <1>4, <1>5, <1>6, <1>7, <1>8, <1>9, <1>10, StepCases DEF ConsumerStep

\* What one consumer's loop can see of a step.
Untouched(d) ==
    /\ UNCHANGED isrVars
    /\ pc'[d] = pc[d] /\ g'[d] = g[d] /\ idx'[d] = idx[d] /\ part'[d] = part[d]
    /\ snap'[d] = snap[d] /\ out'[d] = out[d]
    /\ startAt'[d] = startAt[d] /\ readAt'[d] = readAt[d]
    /\ endAt'[d] = endAt[d] /\ endGen'[d] = endGen[d]

\* A publication, a step of this consumer, or a step that leaves it alone.
LEMMA Frame ==
  ASSUME TypeOK, [Next]_vars, NEW d \in Consumers
  PROVE  Publish \/ ConsumerStep(d) \/ Untouched(d)
<1> USE DEF TypeOK, Untouched
<1>1. ASSUME NEW c \in Consumers, c # d, ConsumerStep(c) PROVE Untouched(d)
  <2>1. CASE Register(c)
    BY Zenon, <1>1, <2>1 DEF Register, localVars
  <2>2. CASE Setup(c) \/ SetupFails(c)
    BY Zenon, <1>1, <2>2 DEF Setup, SetupFails, localVars, historyVars
  <2>3. CASE WaitOne(c)
    BY Zenon, <1>1, <2>3 DEF WaitOne, localVars, historyVars
  <2>4. CASE ReadGen(c)
    BY Zenon, <1>1, <2>4 DEF ReadGen
  <2>5. CASE ReadIdx(c)
    BY Zenon, <1>1, <2>5 DEF ReadIdx
  <2>6. CASE CopyPiece(c)
    BY Zenon, <1>1, <2>6 DEF CopyPiece
  <2>7. CASE Send(c)
    BY Zenon, <1>1, <2>7 DEF Send, historyVars
  <2>8. QED
    BY Zenon, <1>1, <2>1, <2>2, <2>3, <2>4, <2>5, <2>6, <2>7 DEF ConsumerStep
<1>2. ASSUME NEW s \in DestStrings, udp_set_destination(s) PROVE Untouched(d)
  BY Zenon, <1>2 DEF udp_set_destination, localVars, historyVars
<1>3. CASE UNCHANGED vars
  BY Zenon, <1>3 DEF vars, isrVars, localVars, historyVars
<1>4. QED
  BY Zenon, <1>1, <1>2, <1>3, StepCases

\* The other steps of a consumer lead neither into its copy nor to the
\* hand-over, and touch neither the published state nor any packet.
LEMMA QuietStep ==
  ASSUME TypeOK, NEW d \in Consumers, ConsumerStep(d)
  PROVE  \/ ReadIdx(d)
         \/ CopyPiece(d)
         \/ Send(d) /\ pc'[d] = "wait"
         \/ pc'[d] \notin {"copy", "send"} /\ published' = published /\ out' = out
<1>1. CASE Register(d)
  BY Zenon, <1>1 DEF Register, TypeOK, isrVars, localVars
<1>2. CASE Setup(d) \/ SetupFails(d)
  BY Zenon, <1>2 DEF Setup, SetupFails, TypeOK, isrVars, localVars
<1>3. CASE WaitOne(d)
  <2>1. pc'[d] \in {"gen", "idx"}
    BY Zenon, <1>3 DEF WaitOne, TypeOK
  <2>2. published' = published /\ out' = out
    BY Zenon, <1>3 DEF WaitOne, isrVars, localVars
  <2>3. QED
    BY Zenon, <2>1, <2>2
<1>4. CASE ReadGen(d)
  BY Zenon, <1>4 DEF ReadGen, TypeOK, isrVars
<1>5. CASE Send(d)
  BY Zenon, <1>5 DEF Send, TypeOK
<1>6. QED
  BY <1>1, <1>2, <1>3, <1>4, <1>5, Zenon DEF ConsumerStep

\* The types of one consumer's variables, as numbers.
LEMMA Numbers ==
  ASSUME TypeOK, NEW d \in Consumers
  PROVE  /\ published \in Nat /\ ds5PublishedIndex \in {0, 1}
         /\ ds5Generation \in 0..(GenMod - 1) /\ g[d] \in 0..(GenMod - 1)
         /\ endGen[d] \in 0..(GenMod - 1)
         /\ idx[d] \in {0, 1} /\ part[d] \in Pieces
         /\ startAt[d] \in Nat /\ readAt[d] \in Nat /\ endAt[d] \in Nat
         /\ snap[d] \in [Pieces -> Nat] /\ out[d] \in [Pieces -> Nat]
BY MaxPublishAssumption DEF TypeOK, Stamps, Slots, Snapshot

\* One publication turns the slot being copied into the back slot, which the
\* next publication overwrites.
LEMMA IdxStep == TypeOK /\ IdxInv /\ [Next]_vars => IdxInv'
<1> SUFFICES ASSUME TypeOK, IdxInv, [Next]_vars, NEW d \in Consumers, pc'[d] = "copy"
             PROVE  /\ readAt'[d] <= published'
                    /\ published' = readAt'[d] => idx'[d] = ds5PublishedIndex'
                    /\ published' = readAt'[d] + 1 => idx'[d] = 1 - ds5PublishedIndex'
  BY Zenon DEF IdxInv
<1>1. CASE Publish
  BY <1>1, Numbers DEF Publish, IdxInv, localVars, historyVars
<1>2. CASE Untouched(d)
  BY Zenon, <1>2 DEF Untouched, IdxInv, isrVars
<1>3. CASE ConsumerStep(d)
  <2>1. CASE ReadIdx(d)
    BY <2>1, Numbers DEF ReadIdx, isrVars, TypeOK
  <2>2. CASE CopyPiece(d)
    BY Zenon, <2>2 DEF CopyPiece, isrVars, IdxInv, TypeOK
  <2>3. QED
    BY Zenon, <1>3, <2>1, <2>2 DEF ConsumerStep, Register, Setup, SetupFails, WaitOne, ReadGen, Send, TypeOK
<1>4. QED
  BY Zenon, <1>1, <1>2, <1>3, Frame

\* What the next piece of a copy is: the report the index pointed at, until
\* a second publication, and never an older one.
LEMMA PieceValue ==
  ASSUME TypeOK, SlotInv, IdxInv, NEW d \in Consumers, pc[d] = "copy", NEW p \in Pieces
  PROVE  /\ readAt[d] <= ds5Buf[idx[d]][p] /\ ds5Buf[idx[d]][p] <= published
         /\ published <= readAt[d] + 1 => ds5Buf[idx[d]][p] = readAt[d]
<1>1. /\ published \in Nat /\ readAt[d] \in Nat
      /\ ds5PublishedIndex \in {0, 1} /\ idx[d] \in {0, 1}
  BY Zenon, Numbers
<1>2. idx[d] = ds5PublishedIndex \/ idx[d] = 1 - ds5PublishedIndex
  BY <1>1
<1>3. ds5Buf[idx[d]][p] = published \/ ds5Buf[idx[d]][p] = IF published = 0 THEN 0 ELSE published - 1
  BY Zenon, <1>2 DEF SlotInv
<1>4. CASE published = readAt[d]
  BY Zenon, <1>1, <1>4 DEF SlotInv, IdxInv
<1>5. CASE published = readAt[d] + 1
  BY <1>1, <1>5 DEF SlotInv, IdxInv
<1>6. CASE published > readAt[d] + 1
  BY <1>1, <1>3, <1>6
<1>7. readAt[d] <= published
  BY Zenon DEF IdxInv
<1>8. QED
  BY <1>1, <1>4, <1>5, <1>6, <1>7

\* A copied piece stays what PieceValue says of it.
LEMMA CopyStep == TypeOK /\ SlotInv /\ IdxInv /\ CopyInv /\ [Next]_vars => CopyInv'
<1> SUFFICES ASSUME TypeOK, SlotInv, IdxInv, CopyInv, [Next]_vars,
                    NEW d \in Consumers, pc'[d] = "copy", NEW p \in Pieces, p < part'[d]
             PROVE  /\ readAt'[d] <= snap'[d][p] /\ snap'[d][p] <= published'
                    /\ published' <= readAt'[d] + 1 => snap'[d][p] = readAt'[d]
  BY Zenon DEF CopyInv
<1>n. /\ published \in Nat /\ readAt[d] \in Nat /\ part[d] \in Pieces /\ p \in Nat
      /\ snap[d] \in [Pieces -> Nat] /\ Parts \in Nat /\ part[d] \in Nat
  BY Numbers, PartsAssumption DEF Pieces
<1>1. CASE Publish
  BY <1>1, <1>n DEF Publish, CopyInv, localVars, historyVars
<1>2. CASE Untouched(d)
  BY Zenon, <1>2 DEF Untouched, CopyInv, isrVars
<1>3. CASE ConsumerStep(d)
  <2>1. CASE ReadIdx(d)
    <3>1. part'[d] = 1
      BY Zenon, <2>1 DEF ReadIdx, TypeOK
    <3>2. QED
      BY <3>1 DEF Pieces
  <2>2. CASE CopyPiece(d)
    <3>1. pc[d] = "copy" /\ published' = published /\ readAt'[d] = readAt[d]
      BY Zenon, <2>2 DEF CopyPiece, isrVars
    <3>2. part[d] < Parts /\ part'[d] = part[d] + 1
      BY Zenon, <2>2, <1>n DEF CopyPiece, TypeOK
    <3>3. snap'[d] = [snap[d] EXCEPT ![part[d]] = ds5Buf[idx[d]][part[d]]]
      BY Zenon, <2>2 DEF CopyPiece, TypeOK
    <3>4. CASE p = part[d]
      BY Zenon, <3>1, <3>3, <3>4, <1>n, PieceValue
    <3>5. CASE p < part[d]
      <4>1. snap'[d][p] = snap[d][p]
        BY <3>3, <3>5, <1>n
      <4>2. QED
        BY Zenon, <3>1, <3>5, <4>1 DEF CopyInv
    <3>6. QED
      BY <3>2, <3>4, <3>5, <1>n
  <2>3. QED
    BY Zenon, <1>3, <2>1, <2>2, QuietStep
<1>4. QED
  BY Zenon, <1>1, <1>2, <1>3, Frame

\* The last piece turns CopyInv into SendInv; later publications do not reach
\* the stack copy.
LEMMA SendStep ==
  TypeOK /\ SlotInv /\ IdxInv /\ CopyInv /\ SendInv /\ [Next]_vars => SendInv'
<1> SUFFICES ASSUME TypeOK, SlotInv, IdxInv, CopyInv, SendInv, [Next]_vars,
                    NEW d \in Consumers, pc'[d] = "send"
             PROVE  /\ readAt'[d] <= endAt'[d] /\ endAt'[d] <= published'
                    /\ \A p \in Pieces :
                          /\ readAt'[d] <= snap'[d][p] /\ snap'[d][p] <= endAt'[d]
                          /\ endAt'[d] <= readAt'[d] + 1 => snap'[d][p] = readAt'[d]
  BY Zenon DEF SendInv
<1>n. /\ published \in Nat /\ readAt[d] \in Nat /\ endAt[d] \in Nat /\ part[d] \in Pieces
      /\ snap[d] \in [Pieces -> Nat] /\ Parts \in Nat /\ part[d] \in Nat
      /\ part[d] <= Parts
  BY Numbers, PartsAssumption DEF Pieces
<1>1. CASE Publish
  BY <1>1, <1>n DEF Publish, SendInv, localVars, historyVars
<1>2. CASE Untouched(d)
  BY Zenon, <1>2 DEF Untouched, SendInv, isrVars
<1>3. CASE ConsumerStep(d)
  <2>1. CASE CopyPiece(d)
    <3>1. pc[d] = "copy" /\ published' = published /\ readAt'[d] = readAt[d]
      BY Zenon, <2>1 DEF CopyPiece, isrVars
    <3>2. part[d] = Parts /\ endAt'[d] = published
      BY <2>1, <1>n DEF CopyPiece, TypeOK
    <3>3. snap'[d] = [snap[d] EXCEPT ![part[d]] = ds5Buf[idx[d]][part[d]]]
      BY Zenon, <2>1 DEF CopyPiece, TypeOK
    <3>4. ASSUME NEW p \in Pieces
          PROVE  /\ readAt[d] <= snap'[d][p] /\ snap'[d][p] <= published
                 /\ published <= readAt[d] + 1 => snap'[d][p] = readAt[d]
      <4>1. CASE p = part[d]
        BY Zenon, <3>1, <3>3, <4>1, <1>n, PieceValue
      <4>2. CASE p < part[d]
        <5>1. snap'[d][p] = snap[d][p]
          BY <3>3, <4>2, <1>n
        <5>2. QED
          BY Zenon, <3>1, <4>2, <5>1 DEF CopyInv
      <4>3. p = part[d] \/ p < part[d]
        BY <3>2, <1>n DEF Pieces
      <4>4. QED
        BY Zenon, <4>1, <4>2, <4>3
    <3>5. readAt[d] <= published
      BY Zenon, <3>1 DEF IdxInv
    <3>6. QED
      BY <3>1, <3>2, <3>4, <3>5, <1>n
  <2>2. CASE ReadIdx(d)
    <3>1. pc'[d] = "copy"
      BY Zenon, <2>2 DEF ReadIdx, TypeOK
    <3>2. QED
      BY Zenon, <3>1
  <2>3. QED
    BY Zenon, <1>3, <2>1, <2>2, QuietStep
<1>4. QED
  BY Zenon, <1>1, <1>2, <1>3, Frame

\* Nothing newer than the last publication has been handed over, so nothing
\* newer than the next read of the index.
LEMMA OutStep == TypeOK /\ SendInv /\ OutInv /\ [Next]_vars => OutInv'
<1> SUFFICES ASSUME TypeOK, SendInv, OutInv, [Next]_vars, NEW d \in Consumers, NEW q \in Pieces
             PROVE  /\ out'[d][q] <= published'
                    /\ pc'[d] \in {"copy", "send"} => out'[d][q] <= readAt'[d]
  BY Zenon DEF OutInv
<1>n. /\ published \in Nat /\ readAt[d] \in Nat /\ endAt[d] \in Nat
      /\ snap[d][q] \in Nat /\ out[d][q] \in Nat
  BY Zenon, Numbers
<1>1. CASE Publish
  BY <1>1, <1>n DEF Publish, OutInv, localVars, historyVars
<1>2. CASE Untouched(d)
  BY Zenon, <1>2 DEF Untouched, OutInv, isrVars
<1>3. CASE ConsumerStep(d)
  <2>1. CASE ReadIdx(d)
    BY Zenon, <2>1 DEF ReadIdx, isrVars, OutInv, TypeOK
  <2>2. CASE CopyPiece(d)
    BY Zenon, <2>2 DEF CopyPiece, isrVars, OutInv, TypeOK
  <2>3. CASE Send(d)
    BY <2>3, <1>n DEF Send, isrVars, historyVars, OutInv, SendInv, TypeOK
  <2>4. QED
    BY Zenon, <1>3, <2>1, <2>2, <2>3, QuietStep DEF OutInv
<1>4. QED
  BY Zenon, <1>1, <1>2, <1>3, Frame

\* One more publication is one more step of the counter.
LEMMA AheadNext ==
  ASSUME NEW n \in 0..(GenMod - 1), NEW d \in Nat, d + 1 < GenMod
  PROVE  Wrap(Ahead(n, d)) = Ahead(n, d + 1)
BY GenModAssumption DEF Wrap, Ahead

\* The distance of the generation from the one read is the number of
\* publications since, as long as that is less than one turn of the counter.
LEMMA GenStep == TypeOK /\ GenInv /\ [Next]_vars => GenInv'
<1> SUFFICES ASSUME TypeOK, GenInv, [Next]_vars, NEW d \in UdpThreads
             PROVE  /\ pc'[d] \in {"idx", "copy"} =>
                          /\ startAt'[d] <= published'
                          /\ published' - startAt'[d] < GenMod =>
                                ds5Generation' = Ahead(g'[d], published' - startAt'[d])
                    /\ pc'[d] \in {"copy", "send"} => startAt'[d] <= readAt'[d]
                    /\ pc'[d] = "send" /\ endAt'[d] - startAt'[d] < GenMod =>
                          endGen'[d] = Ahead(g'[d], endAt'[d] - startAt'[d])
  BY Zenon DEF GenInv, Ahead
<1>c. d \in Consumers
  BY Zenon DEF Consumers
<1>n. /\ published \in Nat /\ readAt[d] \in Nat /\ endAt[d] \in Nat /\ startAt[d] \in Nat
      /\ g[d] \in 0..(GenMod - 1) /\ ds5Generation \in 0..(GenMod - 1) /\ GenMod \in Nat
  BY Zenon, <1>c, Numbers, GenModAssumption
<1>1. CASE Publish
  <2>1. /\ published' = published + 1 /\ ds5Generation' = Wrap(ds5Generation)
        /\ UNCHANGED <<pc, g, startAt, readAt, endAt, endGen>>
    BY Zenon, <1>1 DEF Publish, localVars, historyVars
  <2>2. ASSUME pc[d] \in {"idx", "copy"}, published + 1 - startAt[d] < GenMod
        PROVE  Wrap(ds5Generation) = Ahead(g[d], published + 1 - startAt[d])
    <3>1. startAt[d] <= published
      BY Zenon, <2>2 DEF GenInv
    <3>2. published - startAt[d] \in Nat /\ (published - startAt[d]) + 1 < GenMod
      BY <2>2, <3>1, <1>n
    <3>3. ds5Generation = Ahead(g[d], published - startAt[d])
      BY <2>2, <3>2, <1>n DEF GenInv
    <3>4. Wrap(ds5Generation) = Ahead(g[d], (published - startAt[d]) + 1)
      BY Zenon, <3>2, <3>3, <1>n, AheadNext
    <3>5. (published - startAt[d]) + 1 = published + 1 - startAt[d]
      BY <1>n
    <3>6. QED
      BY Zenon, <3>4, <3>5
  <2>3. pc[d] \in {"idx", "copy"} => startAt[d] <= published + 1
    BY <1>n DEF GenInv
  <2>4. pc'[d] \in {"idx", "copy"} /\ published' - startAt'[d] < GenMod =>
          ds5Generation' = Ahead(g'[d], published' - startAt'[d])
    <3>1. published' - startAt'[d] = published + 1 - startAt[d] /\ g'[d] = g[d]
      BY <2>1, <1>n
    <3>2. QED
      BY Zenon, <2>1, <2>2, <3>1
  <2>5. pc'[d] \in {"idx", "copy"} => startAt'[d] <= published'
    BY Zenon, <2>1, <2>3
  <2>6. /\ pc'[d] \in {"copy", "send"} => startAt'[d] <= readAt'[d]
        /\ pc'[d] = "send" /\ endAt'[d] - startAt'[d] < GenMod =>
              endGen'[d] = Ahead(g'[d], endAt'[d] - startAt'[d])
    BY Zenon, <2>1 DEF GenInv
  <2>7. QED
    BY Zenon, <2>4, <2>5, <2>6
<1>2. CASE Untouched(d)
  BY Zenon, <1>2 DEF Untouched, GenInv, isrVars
<1>3. CASE ConsumerStep(d)
  <2>1. CASE WaitOne(d)
    BY Zenon, <2>1, <1>c DEF WaitOne, TypeOK
  <2>2. CASE ReadGen(d)
    <3>1. /\ pc'[d] = "idx" /\ g'[d] = ds5Generation /\ startAt'[d] = published
          /\ published' = published /\ ds5Generation' = ds5Generation
      BY Zenon, <2>2, <1>c DEF ReadGen, isrVars, TypeOK
    <3>2. Ahead(ds5Generation, published - published) = ds5Generation
      BY <1>n DEF Ahead
    <3>3. ds5Generation' = Ahead(g'[d], published' - startAt'[d])
      BY Zenon, <3>1, <3>2
    <3>4. startAt'[d] <= published'
      BY <3>1, <1>n
    <3>5. QED
      BY <3>1, <3>3, <3>4, Zenon
  <2>3. CASE ReadIdx(d)
    BY Zenon, <2>3, <1>c DEF ReadIdx, isrVars, GenInv, TypeOK
  <2>4. CASE CopyPiece(d)
    BY <2>4, <1>c DEF CopyPiece, isrVars, GenInv, TypeOK
  <2>5. QED
    BY Zenon, <1>3, <1>c, <2>1, <2>2, <2>3, <2>4 DEF ConsumerStep, Register, Setup, SetupFails, Send, TypeOK
<1>4. QED
  BY Zenon, <1>c, <1>1, <1>2, <1>3, Frame

\* The invariant holds when main has created the consumers.
LEMMA InitIInv == Init => IInv
<1> SUFFICES ASSUME Init PROVE IInv
  BY Zenon
<1> USE PartsAssumption, GenModAssumption, MaxPublishAssumption
<1>1. Blank \in Snapshot /\ 1 \in Pieces /\ 0 \in Stamps /\ 0 \in 0..(GenMod - 1) /\ 0 \in Slots
  BY DEF Blank, Snapshot, Pieces, Stamps, Slots
<1>2. TypeOK
  BY Zenon, <1>1, DestAssumption DEF Init, TypeOK
<1>3. SlotInv /\ OutInv
  BY <1>1 DEF Init, SlotInv, OutInv, Blank, Slots
<1>4. DestInv
  BY Zenon, DestAssumption DEF Init, DestInv
<1>5. IdxInv /\ CopyInv /\ SendInv
  BY Zenon DEF Init, IdxInv, CopyInv, SendInv
<1>6. GenInv /\ NoLostWakeup
  BY Zenon DEF Init, GenInv, NoLostWakeup, Consumers
<1>7. QED
  BY Zenon, <1>2, <1>3, <1>4, <1>5, <1>6 DEF IInv

\* The inductive invariant holds in every reachable state of the data path,
\* whenever reports arrive and however the consumers are preempted.
THEOREM Invariance == Spec => []IInv
<1>1. IInv /\ [Next]_vars => IInv'
  BY Zenon, TypeStep, SlotStep, DestStep, IdxStep, CopyStep, SendStep, GenStep, OutStep, WakeStep DEF IInv
<1>2. QED
  BY InitIInv, <1>1, PTL DEF Spec

\* Type correctness of the data path's state.
THEOREM TypeCorrectness == Spec => []TypeOK
BY Invariance, PTL DEF IInv

\* A packet mixes two reports only if at least two were published between the
\* consumer's read of ds5PublishedIndex and the end of its memcpy.
THEOREM TornNeedsTwo == Spec => []TornNeedsTwoPublishes
<1>1. IInv => TornNeedsTwoPublishes
  <2> SUFFICES ASSUME IInv, NEW c \in Consumers, pc[c] = "send", ~(endAt[c] >= readAt[c] + 2)
               PROVE  Whole(snap[c])
    BY Zenon DEF TornNeedsTwoPublishes
  <2>1. endAt[c] <= readAt[c] + 1
    BY Numbers DEF IInv
  <2>2. \A p \in Pieces : snap[c][p] = readAt[c]
    BY Zenon, <2>1 DEF IInv, SendInv
  <2>3. QED
    BY Zenon, <2>2 DEF Whole
<1>2. QED
  BY Invariance, <1>1, PTL

\* Comparing ds5Generation after the copy with the value the UDP thread read
\* before it would detect every torn packet, short of a full turn of the
\* counter in one iteration.
THEOREM GenerationCheck == Spec => []GenerationCheckSound
<1>1. IInv => GenerationCheckSound
  <2> SUFFICES ASSUME IInv, NEW c \in UdpThreads, pc[c] = "send",
                      endGen[c] \in {g[c], Wrap(g[c])}, endAt[c] - startAt[c] < GenMod
               PROVE  Whole(snap[c])
    BY Zenon DEF GenerationCheckSound
  <2>1. c \in Consumers
    BY Zenon DEF Consumers
  <2>2. /\ readAt[c] \in Nat /\ endAt[c] \in Nat /\ startAt[c] \in Nat
        /\ g[c] \in 0..(GenMod - 1) /\ endGen[c] \in 0..(GenMod - 1)
    BY Zenon, <2>1, Numbers DEF IInv
  <2>3. startAt[c] <= readAt[c] /\ readAt[c] <= endAt[c]
    BY Zenon, <2>1 DEF IInv, GenInv, SendInv
  <2>4. endGen[c] = Ahead(g[c], endAt[c] - startAt[c])
    BY Zenon DEF IInv, GenInv
  <2>5. endAt[c] <= readAt[c] + 1
    BY <2>2, <2>3, <2>4, GenModAssumption DEF Ahead, Wrap
  <2>6. \A p \in Pieces : snap[c][p] = readAt[c]
    BY Zenon, <2>1, <2>5 DEF IInv, SendInv
  <2>7. QED
    BY Zenon, <2>6 DEF Whole
<1>2. QED
  BY Invariance, <1>1, PTL

\* No consumer sleeps on a report that was published after it last looked.
THEOREM WakeupsKept == Spec => []NoLostWakeup
BY Invariance, PTL DEF IInv

\* A consumer's packets never go back in time, torn packets included.
THEOREM OutputMonotone == Spec => NeverBackwards
<1>1. IInv /\ [Next]_vars =>
        [\A c \in Consumers, p, q \in Pieces : out'[c][p] >= out[c][q] \/ out'[c] = out[c]]_vars
  <2> SUFFICES ASSUME IInv, [Next]_vars, NEW c \in Consumers, NEW p \in Pieces, NEW q \in Pieces
               PROVE  out'[c][p] >= out[c][q] \/ out'[c] = out[c]
    BY Zenon
  <2>1. CASE Publish
    BY Zenon, <2>1 DEF Publish, localVars
  <2>2. CASE Untouched(c)
    BY Zenon, <2>2 DEF Untouched
  <2>3. CASE ConsumerStep(c)
    <3>1. CASE Send(c)
      <4>1. out'[c] = out[c] \/ out'[c] = snap[c]
        BY Zenon, <3>1 DEF Send, IInv, TypeOK
      <4>2. out[c][q] <= readAt[c] /\ readAt[c] <= snap[c][p]
        BY Zenon, <3>1 DEF Send, IInv, OutInv, SendInv
      <4>3. out[c][q] \in Nat /\ readAt[c] \in Nat /\ snap[c][p] \in Nat
        BY Zenon, Numbers DEF IInv
      <4>4. QED
        BY <4>1, <4>2, <4>3
    <3>2. QED
      BY Zenon, <2>3, <3>1 DEF ConsumerStep, Register, Setup, SetupFails, WaitOne, ReadGen, ReadIdx,
                        CopyPiece, localVars
  <2>4. QED
    BY Zenon, <2>1, <2>2, <2>3, Frame DEF IInv
<1>2. QED
  BY Invariance, <1>1, PTL DEF Spec, NeverBackwards

-----------------------------------------------------------------------------
(* The refinement: the data path is a latest-only mailbox.                 *)

\* The mailbox stages, as a function.
Stages == [c \in Consumers |-> Stage(c)]

\* The sealed packets, as a function.
Packets == [c \in Consumers |-> Sealed(c)]

\* A step of one consumer that leaves every other pc alone moves one stage.
LEMMA StageStep ==
  ASSUME TypeOK, NEW c \in Consumers, NEW l,
         pc' = [pc EXCEPT ![c] = l]
  PROVE  Stages' = [Stages EXCEPT ![c] = Stage(c)']
<1>1. ASSUME NEW d \in Consumers, d # c PROVE Stage(d)' = Stage(d)
  BY Zenon, <1>1 DEF Stage, TypeOK
<1>2. QED
  BY Zenon, <1>1 DEF Stages

\* A step that leaves the copies alone and neither ends nor sends one leaves
\* the sealed packets alone.
LEMMA PacketsKept ==
  ASSUME TypeOK, TypeOK', snap' = snap,
         \A d \in Consumers : (pc'[d] = "send") <=> (pc[d] = "send")
  PROVE  Packets' = Packets
BY Zenon DEF Packets, Sealed

\* Every step of the data path is a mailbox step or invisible to it.
LEMMA MailboxStep ==
  ASSUME IInv, [Next]_vars
  PROVE  [Mailbox!Next]_(Mailbox!mailboxVars)
<1> DEFINE mv == <<published, listeners, epending, Stages, readAt, Packets, out>>
<1>v. UNCHANGED mv => UNCHANGED Mailbox!mailboxVars
  BY Zenon DEF Mailbox!mailboxVars, Stages, Packets
<1>t. TypeOK /\ TypeOK'
  BY Zenon, TypeStep DEF IInv
<1>1. CASE Publish
  <2>1. Stages' = Stages /\ Packets' = Packets
    BY Zenon, <1>1 DEF Publish, Stages, Stage, Packets, Sealed, localVars
  <2>2. QED
    BY Zenon, <1>1, <2>1 DEF Publish, chEvtBroadcastI, Mailbox!Next, Mailbox!Publish, Stages, Packets,
                      localVars, historyVars
<1>2. ASSUME NEW c \in Consumers, Register(c) PROVE Mailbox!Join(c)
  <2>1. Stages[c] = "boot" /\ Stage(c)' = "setup"
    BY Zenon, <1>2, <1>t DEF Register, Stages, Stage, TypeOK
  <2>2. Stages' = [Stages EXCEPT ![c] = "setup"]
    BY Zenon, <1>2, <1>t, <2>1, StageStep DEF Register
  <2>3. Packets' = Packets
    BY Zenon, <1>2, <1>t, PacketsKept DEF Register, TypeOK, localVars
  <2>4. QED
    BY Zenon, <1>2, <2>1, <2>2, <2>3 DEF Register, Mailbox!Join, Stages, Packets, isrVars, localVars
<1>3. ASSUME NEW c \in Consumers, Setup(c) PROVE Mailbox!Start(c)
  <2>1. Stages[c] = "setup" /\ Stage(c)' = "wait"
    BY Zenon, <1>3, <1>t DEF Setup, Stages, Stage, TypeOK
  <2>2. Stages' = [Stages EXCEPT ![c] = "wait"]
    BY Zenon, <1>3, <1>t, <2>1, StageStep DEF Setup
  <2>3. Packets' = Packets
    BY Zenon, <1>3, <1>t, PacketsKept DEF Setup, TypeOK, localVars
  <2>4. QED
    BY Zenon, <1>3, <2>1, <2>2, <2>3 DEF Setup, Mailbox!Start, Stages, Packets, isrVars, localVars, historyVars
<1>4. ASSUME NEW c \in Consumers, SetupFails(c) PROVE Mailbox!Leave(c)
  <2>1. Stages[c] = "setup" /\ Stage(c)' = "exited"
    BY Zenon, <1>4, <1>t DEF SetupFails, Stages, Stage, TypeOK
  <2>2. Stages' = [Stages EXCEPT ![c] = "exited"]
    BY Zenon, <1>4, <1>t, <2>1, StageStep DEF SetupFails
  <2>3. Packets' = Packets
    BY Zenon, <1>4, <1>t, PacketsKept DEF SetupFails, TypeOK, localVars
  <2>4. QED
    BY Zenon, <1>4, <2>1, <2>2, <2>3 DEF SetupFails, Mailbox!Leave, Stages, Packets, isrVars, localVars, historyVars
<1>5. ASSUME NEW c \in Consumers, WaitOne(c) PROVE Mailbox!Wake(c)
  <2>1. Stages[c] = "wait" /\ Stage(c)' = "awake"
    BY Zenon, <1>5, <1>t DEF WaitOne, Stages, Stage, TypeOK
  <2>2. Stages' = [Stages EXCEPT ![c] = "awake"]
    BY Zenon, <1>5, <1>t, <2>1, StageStep DEF WaitOne
  <2>3. Packets' = Packets
    BY Zenon, <1>5, <1>t, PacketsKept DEF WaitOne, TypeOK, localVars
  <2>4. QED
    BY Zenon, <1>5, <2>1, <2>2, <2>3 DEF WaitOne, Mailbox!Wake, Stages, Packets, isrVars, localVars, historyVars
<1>6. ASSUME NEW c \in Consumers, ReadGen(c) PROVE UNCHANGED mv
  <2>1. Stages[c] = "awake" /\ Stage(c)' = "awake"
    BY Zenon, <1>6, <1>t DEF ReadGen, Stages, Stage, TypeOK
  <2>2. Stages' = [Stages EXCEPT ![c] = "awake"]
    BY Zenon, <1>6, <1>t, <2>1, StageStep DEF ReadGen
  <2>3. Stages' = Stages
    BY Zenon, <2>1, <2>2 DEF Stages
  <2>4. Packets' = Packets
    BY Zenon, <1>6, <1>t, PacketsKept DEF ReadGen, TypeOK
  <2>5. QED
    BY Zenon, <1>6, <2>3, <2>4 DEF ReadGen, isrVars
<1>7. ASSUME NEW c \in Consumers, ReadIdx(c) PROVE Mailbox!Take(c)
  <2>1. Stages[c] = "awake" /\ Stage(c)' = "holding"
    BY Zenon, <1>7, <1>t DEF ReadIdx, Stages, Stage, TypeOK
  <2>2. Stages' = [Stages EXCEPT ![c] = "holding"]
    BY Zenon, <1>7, <1>t, <2>1, StageStep DEF ReadIdx
  <2>3. Packets' = Packets
    BY Zenon, <1>7, <1>t, PacketsKept DEF ReadIdx, TypeOK, localVars
  <2>4. QED
    BY Zenon, <1>7, <2>1, <2>2, <2>3 DEF ReadIdx, Mailbox!Take, Stages, Packets, isrVars
<1>8. ASSUME NEW c \in Consumers, CopyPiece(c), part[c] < Parts PROVE UNCHANGED mv
  <2>1. pc' = pc /\ pc[c] = "copy" /\ \A d \in Consumers : d # c => snap'[d] = snap[d]
    BY Zenon, <1>8, <1>t DEF CopyPiece, TypeOK
  <2>2. Stages' = Stages /\ Packets' = Packets
    BY Zenon, <2>1 DEF Stages, Stage, Packets, Sealed
  <2>3. QED
    BY Zenon, <1>8, <2>2 DEF CopyPiece, isrVars
<1>9. ASSUME NEW c \in Consumers, CopyPiece(c), ~(part[c] < Parts) PROVE Mailbox!Seal(c)
  <2>1. pc' = [pc EXCEPT ![c] = "send"] /\ pc[c] = "copy" /\ pc'[c] = "send"
    BY Zenon, <1>9, <1>t DEF CopyPiece, TypeOK
  <2>2. Stages[c] = "holding" /\ Stage(c)' = "sealed"
    BY Zenon, <2>1 DEF Stages, Stage
  <2>3. Stages' = [Stages EXCEPT ![c] = "sealed"]
    BY Zenon, <1>t, <2>1, <2>2, StageStep
  <2>4. Packets' = [Packets EXCEPT ![c] = snap'[c]]
    <3>1. ASSUME NEW d \in Consumers, d # c PROVE Sealed(d)' = Sealed(d)
      BY Zenon, <1>9, <1>t, <2>1, <3>1 DEF CopyPiece, Sealed, TypeOK
    <3>2. Sealed(c)' = snap'[c]
      BY Zenon, <2>1 DEF Sealed
    <3>3. QED
      BY Zenon, <3>1, <3>2 DEF Packets
  <2>5. /\ snap'[c] \in [Pieces -> readAt[c]..published]
        /\ published <= readAt[c] + 1 => snap'[c] = Mailbox!Packet(readAt[c])
    <3>1. SendInv' /\ readAt' = readAt /\ endAt'[c] = published
      BY Zenon, <1>9, <1>t, SendStep DEF CopyPiece, IInv, TypeOK
    <3>2. \A p \in Pieces :
            /\ readAt[c] <= snap'[c][p] /\ snap'[c][p] <= published
            /\ published <= readAt[c] + 1 => snap'[c][p] = readAt[c]
      BY Zenon, <2>1, <3>1 DEF SendInv
    <3>3. snap'[c] \in [Pieces -> Stamps] /\ readAt[c] \in Stamps /\ published \in Stamps
      BY Zenon, <1>t DEF TypeOK, Snapshot
    <3>4. QED
      BY <3>2, <3>3, MaxPublishAssumption DEF Stamps, Mailbox!Packet
  <2>6. QED
    BY Zenon, <1>9, <2>2, <2>3, <2>4, <2>5 DEF CopyPiece, Mailbox!Seal, Stages, Packets, isrVars
<1>10. ASSUME NEW c \in Consumers, Send(c) PROVE Mailbox!Emit(c)
  <2>1. Stages[c] = "sealed" /\ Stage(c)' = "wait"
    BY Zenon, <1>10, <1>t DEF Send, Stages, Stage, TypeOK
  <2>2. Stages' = [Stages EXCEPT ![c] = "wait"]
    BY Zenon, <1>10, <1>t, <2>1, StageStep DEF Send
  <2>3. Packets[c] = snap[c] /\ out' = [out EXCEPT ![c] = Packets[c]]
    BY Zenon, <1>10 DEF Send, Packets, Sealed, IInv, DestInv
  <2>4. Packets' = [Packets EXCEPT ![c] = Mailbox!Packet(0)]
    <3>1. ASSUME NEW d \in Consumers, d # c PROVE Sealed(d)' = Sealed(d)
      BY Zenon, <1>10, <1>t, <3>1 DEF Send, Sealed, TypeOK
    <3>2. Sealed(c)' = Mailbox!Packet(0)
      BY Zenon, <1>10, <1>t DEF Send, Sealed, TypeOK, Blank, Mailbox!Packet
    <3>3. QED
      BY Zenon, <3>1, <3>2 DEF Packets
  <2>5. QED
    BY Zenon, <1>10, <2>1, <2>2, <2>3, <2>4 DEF Send, Mailbox!Emit, Stages, Packets, isrVars, historyVars
<1>11. ASSUME NEW s \in DestStrings, udp_set_destination(s) PROVE UNCHANGED mv
  BY Zenon, <1>11 DEF udp_set_destination, Stages, Stage, Packets, Sealed, isrVars, localVars, historyVars
<1>12. ASSUME UNCHANGED vars PROVE UNCHANGED mv
  BY Zenon, <1>12 DEF vars, Stages, Stage, Packets, Sealed, isrVars, localVars, historyVars
<1>13. ASSUME NEW c \in Consumers, ConsumerStep(c) PROVE [Mailbox!Next]_(Mailbox!mailboxVars)
  <2>1. Mailbox!MemberStep(c) \/ UNCHANGED mv
    BY Zenon, <1>2, <1>3, <1>4, <1>5, <1>6, <1>7, <1>8, <1>9, <1>10, <1>13
    DEF ConsumerStep, Mailbox!MemberStep
  <2>2. QED
    BY Zenon, <1>v, <2>1 DEF Mailbox!Next
<1>14. QED
  BY Zenon, <1>1, <1>11, <1>12, <1>13, <1>v, StepCases

\* The double buffer, the index and the event implement a latest-only mailbox
\* whose reads are atomic up to a second publication during a copy.
THEOREM Refinement == Spec => ImplementsMailbox
<1>1. Init => Mailbox!Init
  BY Zenon DEF Init, Mailbox!Init, Mailbox!Packet, Stage, Sealed, Blank
<1>2. QED
  BY <1>1, Invariance, MailboxStep, PTL DEF Spec, ImplementsMailbox, Mailbox!Spec

==============================================================================
