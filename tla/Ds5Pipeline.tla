----------------------------- MODULE Ds5Pipeline -----------------------------
(***************************************************************************)
(* The DualSense data path of main.c: the USB HID report callback (an ISR) *)
(* publishes the newest report in a two-slot buffer and broadcasts an      *)
(* event; the UDP thread and the nRF24 transmit thread wait for the event, *)
(* copy the published slot to their stack and hand the copy to their       *)
(* transport.                                                              *)
(*                                                                         *)
(* A report is abstracted to its stamp: the number of reports accepted so  *)
(* far, this one included.  A memcpy is Parts steps, so that the ISR can   *)
(* run in the middle of it; the ISR itself runs to completion.             *)
(***************************************************************************)
EXTENDS Integers, FiniteSets

CONSTANTS
    UdpThreads,     \* instances of UdpServerThread (the firmware has one)
    TxThreads,      \* instances of NRF24TxThread (the firmware has one)
    Parts,          \* number of pieces a memcpy of PS5Data is split into
    GenMod,         \* number of values of ds5Generation (2^32 in the code)
    MaxPublish,     \* bound on the number of accepted reports
    ReportIds,      \* values of the first byte of a HID report
    ReportLens,     \* lengths of a HID report, in bytes
    DestStrings,    \* argument strings of the shell command udp_dest
    Parses,         \* those inet_aton accepts
    Fits,           \* those of 1 to 15 characters
    DefaultDest     \* the initial udp_dest_ip

Consumers == UdpThreads \cup TxThreads

ASSUME ThreadsAssumption == UdpThreads \cap TxThreads = {}
ASSUME PartsAssumption == Parts \in Nat \ {0}
ASSUME GenModAssumption == GenMod \in Nat /\ GenMod > 2
ASSUME MaxPublishAssumption == MaxPublish \in Nat
ASSUME ReportAssumption == ReportIds \subseteq Nat /\ ReportLens \subseteq Nat
ASSUME DestAssumption == /\ Parses \subseteq DestStrings
                         /\ Fits \subseteq DestStrings
                         /\ DefaultDest \in Parses \cap Fits

VARIABLES
    ds5Buf,             \* the two report slots, each a function of the pieces
    ds5PublishedIndex,  \* the slot readers are told to read
    ds5Generation,      \* wrapping count of publications
    listeners,          \* consumers registered on esDS5Ready
    epending,           \* consumers whose EVT_DS5_READY bit is set
    udp_dest_ip,        \* the destination string, behind udp_dest_mutex
    pc,                 \* where each consumer's loop stands
    g,                  \* the generation a UDP thread read this iteration
    idx,                \* the slot index a consumer read this iteration
    part,               \* the next piece its memcpy copies
    snap,               \* the copy on its stack
    out,                \* the last packet it handed to its transport
    published,          \* history: reports accepted so far
    startAt,            \* history: published when the iteration began reading
    readAt,             \* history: published when idx was read
    endAt,              \* history: published when the copy ended
    endGen,             \* history: ds5Generation when the copy ended
    seen                \* history: published when c registered or last read idx

isrVars == <<ds5Buf, ds5PublishedIndex, ds5Generation, published>>
localVars == <<g, idx, part, snap, out>>
historyVars == <<startAt, readAt, endAt, endGen, seen>>
vars == <<isrVars, listeners, epending, udp_dest_ip, pc, localVars, historyVars>>

Pieces == 1..Parts
Stamps == 0..MaxPublish
Slots == 0..1
Snapshot == [Pieces -> Stamps]
Blank == [p \in Pieces |-> 0]

-----------------------------------------------------------------------------
(* The HID report callback.                                                *)

\* sizeof(PS5DataFull), in bytes.
SizeofFull == 40

\* The only report ID the parser knows.
UsbReportId == 1

\* ds5_from_hid_report returns true for these; it writes nothing otherwise.
ds5_from_hid_report(id, len) ==
    /\ len >= 2
    /\ id = UsbReportId
    /\ len >= 1 + SizeofFull

\* Fault: the counter sticks at its maximum.
Wrap_Saturating(n) == IF n = GenMod - 1 THEN n ELSE n + 1

\* uint32_t increment.
Wrap(n) == IF n = GenMod - 1 THEN 0 ELSE n + 1

\* Fault: the event is a pulse that only a thread already waiting sees.
chEvtBroadcastI_Pulse ==
    epending' = epending \cup {c \in listeners : pc[c] = "wait"}

\* chEvtBroadcastI(&esDS5Ready): the bit is ORed to every listener's mask.
chEvtBroadcastI == epending' = epending \cup listeners

\* Fault: the report is written to the slot readers are told to read.
Publish_InPlace ==
    LET next == ds5PublishedIndex
    IN /\ published < MaxPublish
       /\ published' = published + 1
       /\ ds5Buf' = [ds5Buf EXCEPT ![next] = [p \in Pieces |-> published + 1]]
       /\ ds5PublishedIndex' = next
       /\ ds5Generation' = Wrap(ds5Generation)
       /\ chEvtBroadcastI
       /\ UNCHANGED <<listeners, udp_dest_ip, pc, localVars, historyVars>>

\* An accepted report fills the back slot, which becomes the published one.
Publish ==
    LET next == 1 - ds5PublishedIndex
    IN /\ published < MaxPublish
       /\ published' = published + 1
       /\ ds5Buf' = [ds5Buf EXCEPT ![next] = [p \in Pieces |-> published + 1]]
       /\ ds5PublishedIndex' = next
       /\ ds5Generation' = Wrap(ds5Generation)
       /\ chEvtBroadcastI
       /\ UNCHANGED <<listeners, udp_dest_ip, pc, localVars, historyVars>>

\* Fault: the slots are swapped before the report is known to be good.
Reject_SwapsSlots ==
    /\ ds5PublishedIndex' = 1 - ds5PublishedIndex
    /\ UNCHANGED <<ds5Buf, ds5Generation, published, listeners, epending,
                   udp_dest_ip, pc, localVars, historyVars>>

\* A rejected report changes nothing: the back slot is written on success only.
Reject == UNCHANGED vars

HidReport(id, len) ==
    IF ds5_from_hid_report(id, len) THEN Publish ELSE Reject

-----------------------------------------------------------------------------
(* The consumers.                                                          *)

\* chEvtRegisterMask(&esDS5Ready, &el, EVT_DS5_READY).  usb_host has
\* initialised the event source by then (module Boot).
Register(c) ==
    /\ pc[c] = "boot"
    /\ listeners' = listeners \cup {c}
    /\ pc' = [pc EXCEPT ![c] = "setup"]
    /\ seen' = [seen EXCEPT ![c] = published]
    /\ UNCHANGED <<isrVars, epending, udp_dest_ip, localVars, startAt, readAt, endAt, endGen>>

\* Socket creation and bind, or the first nrf24l01_basic_set_tx_address.
Setup(c) ==
    /\ pc[c] = "setup"
    /\ pc' = [pc EXCEPT ![c] = "wait"]
    /\ UNCHANGED <<isrVars, listeners, epending, udp_dest_ip, localVars, historyVars>>

\* socket or bind failed: the thread returns, its listener stays registered.
SetupFails(c) ==
    /\ c \in UdpThreads
    /\ pc[c] = "setup"
    /\ pc' = [pc EXCEPT ![c] = "exited"]
    /\ UNCHANGED <<isrVars, listeners, epending, udp_dest_ip, localVars, historyVars>>

\* chEvtWaitOne(EVT_DS5_READY) returns: the bit is cleared before any read.
WaitOne(c) ==
    /\ pc[c] = "wait"
    /\ c \in epending
    /\ epending' = epending \ {c}
    /\ pc' = [pc EXCEPT ![c] = IF c \in UdpThreads THEN "gen" ELSE "idx"]
    /\ UNCHANGED <<isrVars, listeners, udp_dest_ip, localVars, historyVars>>

\* uint32_t g = ds5Generation; only the UDP thread reads it.
ReadGen(c) ==
    /\ pc[c] = "gen"
    /\ g' = [g EXCEPT ![c] = ds5Generation]
    /\ startAt' = [startAt EXCEPT ![c] = published]
    /\ pc' = [pc EXCEPT ![c] = "idx"]
    /\ UNCHANGED <<isrVars, listeners, epending, udp_dest_ip,
                   idx, part, snap, out, readAt, endAt, endGen, seen>>

\* uint8_t idx = ds5PublishedIndex, and the call of convert_to_trimmed.
ReadIdx(c) ==
    /\ pc[c] = "idx"
    /\ idx' = [idx EXCEPT ![c] = ds5PublishedIndex]
    /\ part' = [part EXCEPT ![c] = 1]
    /\ readAt' = [readAt EXCEPT ![c] = published]
    /\ seen' = [seen EXCEPT ![c] = published]
    /\ pc' = [pc EXCEPT ![c] = "copy"]
    /\ UNCHANGED <<isrVars, listeners, epending, udp_dest_ip,
                   g, snap, out, startAt, endAt, endGen>>

\* One piece of convert_to_trimmed's memcpy from the slot to the stack.
CopyPiece(c) ==
    LET p == part[c]
    IN /\ pc[c] = "copy"
       /\ snap' = [snap EXCEPT ![c][p] = ds5Buf[idx[c]][p]]
       /\ IF p < Parts
             THEN /\ part' = [part EXCEPT ![c] = p + 1]
                  /\ UNCHANGED <<pc, endAt, endGen>>
             ELSE /\ pc' = [pc EXCEPT ![c] = "send"]
                  /\ endAt' = [endAt EXCEPT ![c] = published]
                  /\ endGen' = [endGen EXCEPT ![c] = ds5Generation]
                  /\ UNCHANGED part
       /\ UNCHANGED <<isrVars, listeners, epending, udp_dest_ip,
                      g, idx, out, startAt, readAt, seen>>

\* Fault: the event bit is cleared when the packet is done.
Send_ClearsEvent(c) ==
    /\ pc[c] = "send"
    /\ out' = [out EXCEPT ![c] = snap[c]]
    /\ epending' = epending \ {c}
    /\ pc' = [pc EXCEPT ![c] = "wait"]
    /\ UNCHANGED <<isrVars, listeners, udp_dest_ip, g, idx, part, snap, historyVars>>

\* sendto or nrf24l01_basic_send: the result is ignored, so a packet the
\* transport drops is neither reported nor sent again.  The UDP thread first
\* copies and parses the destination and skips the packet if that fails.
Send(c) ==
    /\ pc[c] = "send"
    /\ out' = IF c \in UdpThreads /\ udp_dest_ip \notin Parses
                 THEN out
                 ELSE [out EXCEPT ![c] = snap[c]]
    /\ pc' = [pc EXCEPT ![c] = "wait"]
    /\ UNCHANGED <<isrVars, listeners, epending, udp_dest_ip,
                   g, idx, part, snap, historyVars>>

-----------------------------------------------------------------------------
(* The shell command udp_dest; the mutex makes it one step.                *)

\* Fault: the string is stored without being parsed first.
udp_set_destination_Unparsed(s) ==
    /\ s \in Fits
    /\ udp_dest_ip' = s
    /\ UNCHANGED <<isrVars, listeners, epending, pc, localVars, historyVars>>

udp_set_destination(s) ==
    /\ s \in Fits
    /\ s \in Parses
    /\ udp_dest_ip' = s
    /\ UNCHANGED <<isrVars, listeners, epending, pc, localVars, historyVars>>

-----------------------------------------------------------------------------

Init ==
    /\ ds5Buf = [i \in Slots |-> Blank]
    /\ ds5PublishedIndex = 0
    /\ ds5Generation = 0
    /\ listeners = {}
    /\ epending = {}
    /\ udp_dest_ip = DefaultDest
    /\ pc = [c \in Consumers |-> "boot"]
    /\ g = [c \in Consumers |-> 0]
    /\ idx = [c \in Consumers |-> 0]
    /\ part = [c \in Consumers |-> 1]
    /\ snap = [c \in Consumers |-> Blank]
    /\ out = [c \in Consumers |-> Blank]
    /\ published = 0
    /\ startAt = [c \in Consumers |-> 0]
    /\ readAt = [c \in Consumers |-> 0]
    /\ endAt = [c \in Consumers |-> 0]
    /\ endGen = [c \in Consumers |-> 0]
    /\ seen = [c \in Consumers |-> 0]

ConsumerStep(c) ==
    \/ Register(c)
    \/ Setup(c)
    \/ SetupFails(c)
    \/ WaitOne(c)
    \/ ReadGen(c)
    \/ ReadIdx(c)
    \/ CopyPiece(c)
    \/ Send(c)

Next ==
    \/ \E id \in ReportIds, len \in ReportLens : HidReport(id, len)
    \/ \E c \in Consumers : ConsumerStep(c)
    \/ \E s \in DestStrings : udp_set_destination(s)

Spec == Init /\ [][Next]_vars

\* A ready consumer is eventually scheduled: every thread of higher priority
\* sleeps or waits in each of its iterations.  Reports need never arrive.
Fairness == \A c \in Consumers : WF_vars(ConsumerStep(c))

FairSpec == Spec /\ Fairness

-----------------------------------------------------------------------------
(* Properties.                                                             *)

TypeOK ==
    /\ ds5Buf \in [Slots -> Snapshot]
    /\ ds5PublishedIndex \in Slots
    /\ ds5Generation \in 0..(GenMod - 1)
    /\ listeners \subseteq Consumers
    /\ epending \subseteq Consumers
    /\ udp_dest_ip \in DestStrings
    /\ pc \in [Consumers -> {"boot", "setup", "exited", "wait", "gen", "idx", "copy", "send"}]
    /\ g \in [Consumers -> 0..(GenMod - 1)]
    /\ idx \in [Consumers -> Slots]
    /\ part \in [Consumers -> Pieces]
    /\ snap \in [Consumers -> Snapshot]
    /\ out \in [Consumers -> Snapshot]
    /\ published \in Stamps
    /\ startAt \in [Consumers -> Stamps]
    /\ readAt \in [Consumers -> Stamps]
    /\ endAt \in [Consumers -> Stamps]
    /\ endGen \in [Consumers -> 0..(GenMod - 1)]
    /\ seen \in [Consumers -> Stamps]

\* All the pieces of a packet come from one report.
Whole(s) == \A p, q \in Pieces : s[p] = s[q]

\* The double buffer survives one publication during a copy: the copy a
\* consumer is about to send mixes two reports only if at least two were
\* published between its read of ds5PublishedIndex and the end of its memcpy.
TornNeedsTwoPublishes ==
    \A c \in Consumers :
        pc[c] = "send" /\ ~Whole(snap[c]) => endAt[c] >= readAt[c] + 2

\* The generation the UDP thread reads before the index, and keeps "for
\* future per-consumer versioning", is enough to detect a torn copy: if after
\* the copy ds5Generation is that value or its successor, the copy is whole,
\* unless the counter went all the way round during the iteration.
GenerationCheckSound ==
    \A c \in UdpThreads :
        /\ pc[c] = "send"
        /\ endGen[c] \in {g[c], Wrap(g[c])}
        /\ endAt[c] - startAt[c] < GenMod
        => Whole(snap[c])

\* No publication is missed: a registered consumer that is not about to read
\* the index, and has no event pending, has read the index since the last
\* publication (or nothing was published since it registered).
NoLostWakeup ==
    \A c \in listeners :
        pc[c] \notin {"gen", "idx"} /\ c \notin epending => seen[c] = published

\* A consumer's output never goes back in time: no piece of a packet is older
\* than any piece of the packet it handed over before, torn or not.
NeverBackwards ==
    [][\A c \in Consumers, p, q \in Pieces : out'[c][p] >= out[c][q]
          \/ out'[c] = out[c]]_vars

\* What is published while a consumer is registered reaches its transport, as
\* that report or a newer one, unless its thread ended before its loop.
FreshReportSent ==
    \A c \in Consumers, n \in Stamps :
        (c \in listeners /\ seen[c] < n /\ published = n)
            ~> (pc[c] = "exited" \/ \A p \in Pieces : out[c][p] >= n)

-----------------------------------------------------------------------------
(* The inductive invariant behind the safety properties.                   *)

\* The published slot holds the last report, the back slot the one before.
SlotInv ==
    \A p \in Pieces :
        /\ ds5Buf[ds5PublishedIndex][p] = published
        /\ ds5Buf[1 - ds5PublishedIndex][p] = IF published = 0 THEN 0 ELSE published - 1

\* udp_set_destination stores only strings that parse.
DestInv == udp_dest_ip \in Parses \cap Fits

\* Where the slot a consumer is copying stands after the publications since
\* it read the index.
IdxInv ==
    \A c \in Consumers : pc[c] = "copy" =>
        /\ readAt[c] <= published
        /\ published = readAt[c] => idx[c] = ds5PublishedIndex
        /\ published = readAt[c] + 1 => idx[c] = 1 - ds5PublishedIndex

\* The pieces copied so far: none is older than the read of the index, and
\* all are of that moment until a second publication.
CopyInv ==
    \A c \in Consumers : pc[c] = "copy" =>
        \A p \in Pieces : p < part[c] =>
            /\ readAt[c] <= snap[c][p] /\ snap[c][p] <= published
            /\ published <= readAt[c] + 1 => snap[c][p] = readAt[c]

\* The same for the finished copy.
SendInv ==
    \A c \in Consumers : pc[c] = "send" =>
        /\ readAt[c] <= endAt[c] /\ endAt[c] <= published
        /\ \A p \in Pieces :
              /\ readAt[c] <= snap[c][p] /\ snap[c][p] <= endAt[c]
              /\ endAt[c] <= readAt[c] + 1 => snap[c][p] = readAt[c]

\* The counter d publications after it read n, for d < GenMod.
Ahead(n, d) == IF n + d < GenMod THEN n + d ELSE n + d - GenMod

\* How far the generation is from the one a UDP thread read.
GenInv ==
    \A c \in UdpThreads :
        /\ pc[c] \in {"idx", "copy"} =>
              /\ startAt[c] <= published
              /\ published - startAt[c] < GenMod =>
                    ds5Generation = Ahead(g[c], published - startAt[c])
        /\ pc[c] \in {"copy", "send"} => startAt[c] <= readAt[c]
        /\ pc[c] = "send" /\ endAt[c] - startAt[c] < GenMod =>
              endGen[c] = Ahead(g[c], endAt[c] - startAt[c])

\* Nothing handed over is newer than the index read of the next packet.
OutInv ==
    \A c \in Consumers, q \in Pieces :
        /\ out[c][q] <= published
        /\ pc[c] \in {"copy", "send"} => out[c][q] <= readAt[c]

\* The inductive strengthening of TornNeedsTwoPublishes, GenerationCheckSound,
\* NoLostWakeup and NeverBackwards for the whole data path.
IInv == /\ TypeOK
        /\ SlotInv
        /\ DestInv
        /\ IdxInv
        /\ CopyInv
        /\ SendInv
        /\ GenInv
        /\ OutInv
        /\ NoLostWakeup

-----------------------------------------------------------------------------
(* The abstract specification the data path implements.                    *)

\* The mailbox each consumer sees: the reads of the generation and the index
\* are one taking step, the last piece of the memcpy seals the packet.
Stage(c) == CASE pc[c] \in {"gen", "idx"} -> "awake"
              [] pc[c] = "copy" -> "holding"
              [] pc[c] = "send" -> "sealed"
              [] OTHER -> pc[c]

Sealed(c) == IF pc[c] = "send" THEN snap[c] ELSE Blank

Mailbox == INSTANCE LatestMailbox WITH
    Members <- Consumers,
    MayLeave <- UdpThreads,
    latest <- published,
    joined <- listeners,
    mail <- epending,
    stage <- [c \in Consumers |-> Stage(c)],
    taken <- readAt,
    packet <- [c \in Consumers |-> Sealed(c)]

\* The double buffer, the index and the event are a latest-only mailbox: with
\* no more than one report during its memcpy, a consumer emits the report that
\* was the latest when it read the index, whole, and every packet it makes is
\* emitted before it reads again.
ImplementsMailbox == Mailbox!Spec

\* What the comment at the UDP thread's copy says: snapshots are never partial.
SnapshotWhole == \A c \in Consumers : pc[c] = "send" => Whole(snap[c])

=============================================================================
