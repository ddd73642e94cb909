----------------------------- MODULE NetIfProofs -----------------------------
(***************************************************************************)
(* Proofs about NetIf, for any configurations and any sizes of the pools   *)
(* and the mailbox that satisfy SizesAssumption.                           *)
(***************************************************************************)
EXTENDS NetIf, TLAPS

Types == {"link", "announce", "inpkt", "reconfigure", "send"}
Messages == [type : Types, up : BOOLEAN]
Addresses == [ip_addr : Conf \cup {None}, netmask : Conf \cup {None}, gw : Conf \cup {None}]

\* How the messages of a kind in a list are counted. The last section proves it from
\* the library's theorems on finite sets; until then TypeOK carries it along.
Counting ==
    \A t : /\ \A q \in Seq(Messages) : (\A i \in DOMAIN q : q[i].type # t) => Count(t, q) = 0
           /\ \A q \in Seq(Messages) : Count(t, q) \in Nat
           /\ \A q \in Seq(Messages), m \in Messages :
                Count(t, Append(q, m)) = Count(t, q) + (IF m.type = t THEN 1 ELSE 0)
           /\ \A q \in Seq(Messages) : q # << >> =>
                Count(t, q) = Count(t, Tail(q)) + (IF Head(q).type = t THEN 1 ELSE 0)

TypeOK ==
    /\ Counting
    /\ cable \in BOOLEAN /\ rx \in Nat /\ polled \in BOOLEAN
    /\ lpc \in {"wait", "poll", "announce", "drain", "input"}
    /\ mbox \in Seq(Messages)
    /\ api \in Nat /\ inp \in Nat /\ pool \in Nat /\ recv \in Nat
    /\ tpc \in Types \cup {"fetch"} /\ step \in 1..7
    /\ netif \in Addresses /\ info \in Addresses
    /\ spc \in {"idle", "wait", "gw", "mask", "shown"} /\ upc \in {"idle", "wait"}
    /\ want \in Conf /\ asked \in Conf /\ completion \in {0, 1}

\* One request of the shell at a time, and who has it: while it is under way the
\* shell waits, and when it is answered the interface is as it asked.
RequestInv ==
    /\ Pending("reconfigure") + completion <= 1
    /\ spc # "wait" => Pending("reconfigure") = 0 /\ completion = 0
    /\ spc # "wait" => netif = Whole(asked)
    /\ completion = 1 => netif = Whole(want)
    /\ tpc = "reconfigure" => /\ step > 4 => netif.ip_addr = want
                              /\ step > 5 => netif.netmask = want
                              /\ step > 6 => netif.gw = want
    /\ spc \in {"gw", "mask", "shown"} => info.ip_addr = asked
    /\ spc \in {"mask", "shown"} => info.gw = asked
    /\ spc = "shown" => info.netmask = asked

Total ==
    Pending("link") + Pending("announce") + Pending("inpkt") + Pending("reconfigure")
    + Pending("send")

Used == Pending("link") + Pending("announce") + Pending("reconfigure")

\* Every message that is not free is pending, and there is room for all of them.
MessageInv ==
    /\ Len(mbox) <= Total /\ (tpc # "fetch" => Len(mbox) < Total)
    /\ api + Used = ApiMsgs
    /\ inp + Pending("inpkt") = InPkts
    /\ Pending("send") <= 1 /\ (upc = "idle" => Pending("send") = 0)

\* A poll finds the messages of the one before it handled.
PollInv ==
    /\ Pending("link") <= 1 /\ Pending("announce") <= 1
    /\ ("timer" \in events \/ lpc = "poll") => Pending("link") = 0 /\ Pending("announce") = 0
    /\ lpc \in {"poll", "announce"} => "timer" \notin events /\ Pending("announce") = 0
    /\ tpc \in {"link", "announce"} => msg.type = tpc

\* Every post finds a free message and a free slot: those whose result
\* lwipReconfigure and the link poll do not look at, and the one that would block.
PostsFindRoom ==
    /\ (spc = "idle" \/ lpc \in {"poll", "announce"}) => api > 0 /\ Len(mbox) < MboxSize
    /\ (upc = "idle" \/ inp > 0) => Len(mbox) < MboxSize

IInv == TypeOK /\ RequestInv /\ MessageInv /\ PollInv /\ PbufsAccounted

-----------------------------------------------------------------------------
(* The invariant is preserved by every action.                             *)

\* What the steps need to know of the numbers.
Numbers ==
    /\ Pending("link") \in Nat /\ Pending("announce") \in Nat /\ Pending("inpkt") \in Nat
    /\ Pending("reconfigure") \in Nat /\ Pending("send") \in Nat
    /\ MboxSize \in Nat /\ ApiMsgs \in Nat /\ InPkts \in Nat /\ Pbufs \in Nat
    /\ Len(mbox) \in Nat /\ Total \in Nat /\ Used \in Nat

\* All that is pending is in the mailbox, but for the message being handled.
LEMMA NumbersType ==
    ASSUME TypeOK PROVE Numbers
<1>1. \A t \in Types : Count(t, mbox) \in Nat  BY Zenon DEF TypeOK, Counting
<1>2. \A t \in Types : Pending(t) \in Nat
  <2>. SUFFICES ASSUME NEW t \in Types PROVE Pending(t) \in Nat  BY Zenon
  <2>. QED  BY <1>1 DEF Pending
<1>3. Len(mbox) \in Nat  BY DEF TypeOK
<1>4. Total \in Nat /\ Used \in Nat  BY <1>2 DEF Total, Used, Types
<1>. QED  BY Zenon, <1>2, <1>3, <1>4, SizesAssumption DEF Numbers, Types

\* The messages pending before and after a step that neither posts, takes nor ends one.
SamePending ==
    /\ Pending("link")' = Pending("link") /\ Pending("announce")' = Pending("announce")
    /\ Pending("inpkt")' = Pending("inpkt") /\ Pending("reconfigure")' = Pending("reconfigure")
    /\ Pending("send")' = Pending("send") /\ Total' = Total /\ Used' = Used

LEMMA Untouched ==
    ASSUME mbox' = mbox, tpc' = tpc PROVE SamePending
BY Zenon DEF SamePending, Pending, Total, Used

\* One message more of a kind, or one less.
Step(k, n) ==
    /\ Pending("link")' = IF k = "link" THEN Pending("link") + n ELSE Pending("link")
    /\ Pending("announce")' =
         IF k = "announce" THEN Pending("announce") + n ELSE Pending("announce")
    /\ Pending("inpkt")' = IF k = "inpkt" THEN Pending("inpkt") + n ELSE Pending("inpkt")
    /\ Pending("reconfigure")' =
         IF k = "reconfigure" THEN Pending("reconfigure") + n ELSE Pending("reconfigure")
    /\ Pending("send")' = IF k = "send" THEN Pending("send") + n ELSE Pending("send")
    /\ Total' = Total + n
    /\ Used' = IF k \in {"link", "announce", "reconfigure"} THEN Used + n ELSE Used

\* It is one more, or one less, in all.
LEMMA TotalStep ==
    ASSUME Numbers, NEW k \in Types, NEW n \in Int,
           \A t \in Types : Pending(t)' = IF k = t THEN Pending(t) + n ELSE Pending(t)
    PROVE  Step(k, n)
<1>. DEFINE l == Pending("link")
            a == Pending("announce")
            i == Pending("inpkt")
            r == Pending("reconfigure")
            s == Pending("send")
<1>1. l \in Nat /\ a \in Nat /\ i \in Nat /\ r \in Nat /\ s \in Nat  BY Zenon DEF Numbers
<1>2. /\ l' = (IF k = "link" THEN l + n ELSE l) /\ a' = (IF k = "announce" THEN a + n ELSE a)
      /\ i' = (IF k = "inpkt" THEN i + n ELSE i)
      /\ r' = (IF k = "reconfigure" THEN r + n ELSE r) /\ s' = (IF k = "send" THEN s + n ELSE s)
  BY Zenon DEF Types
<1>3. /\ Total = l + a + i + r + s /\ Total' = l' + a' + i' + r' + s'
      /\ Used = l + a + r /\ Used' = l' + a' + r'
  BY Zenon DEF Total, Used
<1>4. k \in {"link", "announce", "inpkt", "reconfigure", "send"}  BY Zenon DEF Types
<1>5. /\ Total' = Total + n
      /\ Used' = IF k \in {"link", "announce", "reconfigure"} THEN Used + n ELSE Used
  <2>. HIDE DEF l, a, i, r, s
  <2>. QED  BY <1>1, <1>2, <1>3, <1>4
<1>. QED  BY Zenon, <1>2, <1>5 DEF Step

LEMMA Posted ==
    ASSUME TypeOK, NEW k \in Types, NEW up \in BOOLEAN, mbox' = Append(mbox, Message(k, up)),
           tpc' = tpc
    PROVE  mbox' \in Seq(Messages) /\ Len(mbox') = Len(mbox) + 1 /\ Step(k, 1)
<1>1. Message(k, up) \in Messages /\ Message(k, up).type = k  BY Zenon DEF Message, Messages
<1>2. Counting /\ mbox \in Seq(Messages)  BY Zenon DEF TypeOK
<1>3. \A t \in Types : /\ Count(t, mbox) \in Nat
                       /\ Count(t, mbox') = Count(t, mbox) + (IF k = t THEN 1 ELSE 0)
  <2>. SUFFICES ASSUME NEW t \in Types
                PROVE  /\ Count(t, mbox) \in Nat
                       /\ Count(t, mbox') = Count(t, mbox) + (IF k = t THEN 1 ELSE 0)
    BY Zenon
  <2>. DEFINE m == Message(k, up)
  <2>1. /\ Count(t, mbox) \in Nat
        /\ Count(t, Append(mbox, m)) = Count(t, mbox) + (IF m.type = t THEN 1 ELSE 0)
    <3>. HIDE DEF m
    <3>1. m \in Messages  BY Zenon, <1>1 DEF m
    <3>. QED  BY Zenon, <3>1, <1>2 DEF Counting
  <2>2. mbox' = Append(mbox, m) /\ m.type = k  BY Zenon, <1>1
  <2>. HIDE DEF m
  <2>. QED  BY Zenon, <2>1, <2>2
<1>4. mbox' \in Seq(Messages) /\ Len(mbox') = Len(mbox) + 1  BY <1>1, <1>2
<1>5. Step(k, 1)
  <2>1. \A t \in Types : Pending(t)' = IF k = t THEN Pending(t) + 1 ELSE Pending(t)
    BY <1>3 DEF Pending
  <2>. QED  BY <2>1, NumbersType, TotalStep
<1>. QED  BY Zenon, <1>4, <1>5

\* Taking a message makes the tcpip thread's what was the mailbox's.
LEMMA Fetched ==
    ASSUME TypeOK, Fetch
    PROVE  /\ mbox' \in Seq(Messages) /\ Len(mbox') = Len(mbox) - 1
           /\ tpc' \in Types /\ msg'.type = tpc' /\ SamePending
<1>1. Counting /\ mbox \in Seq(Messages) /\ mbox # << >> /\ tpc = "fetch"  BY Zenon DEF TypeOK, Fetch
<1>2. mbox' = Tail(mbox) /\ msg' = Head(mbox) /\ tpc' = msg'.type  BY Zenon DEF Fetch
<1>3. Head(mbox) \in Messages /\ Tail(mbox) \in Seq(Messages) /\ Len(Tail(mbox)) = Len(mbox) - 1
  BY <1>1
<1>4. tpc' \in Types /\ msg'.type = tpc'  BY Zenon, <1>2, <1>3 DEF Messages
<1>5. \A t \in Types : /\ Count(t, mbox') \in Nat
                       /\ Count(t, mbox) = Count(t, mbox') + (IF tpc' = t THEN 1 ELSE 0)
  BY Zenon, <1>1, <1>2, <1>3 DEF Counting
<1>6. \A t \in Types : Pending(t)' = Pending(t)  BY <1>1, <1>5 DEF Pending, Types
<1>7. SamePending  BY Zenon, <1>6 DEF SamePending, Types, Total, Used
<1>. QED  BY Zenon, <1>2, <1>3, <1>4, <1>7

\* The message handled is pending no longer.
LEMMA Ended ==
    ASSUME TypeOK, NEW k \in Types, tpc = k, tpc' = "fetch", mbox' = mbox
    PROVE  Step(k, -1) /\ Pending(k) >= 1
<1>1. \A t \in Types : Count(t, mbox) \in Nat  BY Zenon DEF TypeOK, Counting
<1>2. \A t \in Types : Pending(t)' = IF k = t THEN Pending(t) + (-1) ELSE Pending(t)
  BY <1>1 DEF Pending, Types
<1>3. Step(k, -1)  BY <1>2, NumbersType, TotalStep
<1>. QED  BY <1>1, <1>3 DEF Pending

\* The cable concerns nobody's messages.
LEMMA CableChangesStep ==
    ASSUME IInv, CableChanges PROVE IInv'
<1>1. Numbers  BY Zenon, NumbersType DEF IInv
<1>2. SamePending  BY Zenon, Untouched DEF CableChanges, tcpip, lwip
<1>. USE <1>1, <1>2 DEF IInv, TypeOK, SamePending, Numbers,
              CableChanges, device, lwip, memory, tcpip, iface, shell
<1>3. TypeOK'  OBVIOUS
<1>4. RequestInv'  BY Zenon DEF RequestInv
<1>5. MessageInv'  BY Zenon DEF MessageInv
<1>6. PollInv'  BY Zenon DEF PollInv
<1>7. PbufsAccounted'  BY Zenon DEF PbufsAccounted
<1>. QED  BY Zenon, <1>3, <1>4, <1>5, <1>6, <1>7

\* Nor does a frame in the ring.
LEMMA FrameReceivedStep ==
    ASSUME IInv, FrameReceived PROVE IInv'
<1>1. Numbers  BY Zenon, NumbersType DEF IInv
<1>2. SamePending  BY Zenon, Untouched DEF FrameReceived, tcpip, lwip
<1>. USE <1>1, <1>2 DEF IInv, TypeOK, SamePending, Numbers,
              FrameReceived, device, lwip, memory, tcpip, iface, shell
<1>3. TypeOK'  OBVIOUS
<1>4. RequestInv'  BY Zenon DEF RequestInv
<1>5. MessageInv'  BY Zenon DEF MessageInv
<1>6. PollInv'  BY Zenon DEF PollInv
<1>7. PbufsAccounted'  BY Zenon DEF PbufsAccounted
<1>. QED  BY Zenon, <1>3, <1>4, <1>5, <1>6, <1>7

\* The timer finds no link message anywhere.
LEMMA TimerFiresStep ==
    ASSUME IInv, TimerFires PROVE IInv'
<1>1. Numbers  BY Zenon, NumbersType DEF IInv
<1>2. Pending("link") = 0 /\ Pending("announce") = 0 /\ lpc \notin {"poll", "announce"}
  <2>1. \A t \in {"link", "announce"} : Count(t, mbox) = 0
    <3>. SUFFICES ASSUME NEW t \in {"link", "announce"} PROVE Count(t, mbox) = 0  BY Zenon
    <3>1. \A i \in DOMAIN mbox : mbox[i].type # t
      BY Zenon DEF TimerFires, PollHandled, LinkMessage
    <3>. QED  BY Zenon, <3>1 DEF IInv, TypeOK, Counting
  <2>2. tpc \notin {"link", "announce"} /\ lpc \notin {"poll", "announce"}
    BY Zenon DEF IInv, PollInv, TimerFires, PollHandled, LinkMessage
  <2>. QED  BY <2>1, <2>2 DEF Pending
<1>3. SamePending  BY Zenon, Untouched DEF TimerFires, tcpip, lwip
<1>. USE <1>1, <1>2, <1>3 DEF IInv, TypeOK, SamePending, Numbers, TimerFires,
              device, lwip, memory, tcpip, iface, shell
<1>4. TypeOK'  OBVIOUS
<1>5. RequestInv'  BY Zenon DEF RequestInv
<1>6. MessageInv'  BY Zenon DEF MessageInv
<1>7. PollInv'  BY Zenon DEF PollInv
<1>8. PbufsAccounted'  BY Zenon DEF PbufsAccounted
<1>. QED  BY Zenon, <1>4, <1>5, <1>6, <1>7, <1>8

\* The poll starts with the timer's event taken.
LEMMA chEvtWaitAnyStep ==
    ASSUME IInv, chEvtWaitAny PROVE IInv'
<1>1. Numbers  BY Zenon, NumbersType DEF IInv
<1>2. SamePending  BY Zenon, Untouched DEF chEvtWaitAny, tcpip, lwip
<1>. USE <1>1, <1>2 DEF IInv, TypeOK, SamePending, Numbers,
              chEvtWaitAny, device, lwip, memory, tcpip, iface, shell
<1>3. TypeOK'  BY Zenon
<1>4. RequestInv'  BY Zenon DEF RequestInv
<1>5. MessageInv'  BY Zenon DEF MessageInv
<1>6. PollInv'  BY Zenon DEF PollInv
<1>7. PbufsAccounted'  BY Zenon DEF PbufsAccounted
<1>. QED  BY Zenon, <1>3, <1>4, <1>5, <1>6, <1>7

\* A frame gets a pbuf, or is dropped.
LEMMA low_level_inputStep ==
    ASSUME IInv, low_level_input PROVE IInv'
<1>1. Numbers  BY Zenon, NumbersType DEF IInv
<1>2. SamePending  BY Zenon, Untouched DEF low_level_input, tcpip, lwip
<1>. USE <1>1, <1>2 DEF IInv, TypeOK, SamePending, Numbers,
              low_level_input, device, lwip, memory, tcpip, iface, shell
<1>3. TypeOK'  OBVIOUS
<1>4. RequestInv'  BY Zenon DEF RequestInv
<1>5. MessageInv'  BY Zenon DEF MessageInv
<1>6. PollInv'  BY Zenon DEF PollInv
<1>7. PbufsAccounted'  BY DEF PbufsAccounted
<1>. QED  BY Zenon, <1>3, <1>4, <1>5, <1>6, <1>7

\* There is room for what a thread may post: at most two link messages, a request and
\* a send are pending besides the packets.
LEMMA Room ==
    ASSUME IInv PROVE PostsFindRoom
<1>1. Numbers  BY Zenon, NumbersType DEF IInv
<1>2. completion \in {0, 1} /\ api \in Nat /\ inp \in Nat /\ RequestInv /\ MessageInv /\ PollInv
  BY Zenon DEF IInv, TypeOK
<1>. DEFINE l == Pending("link")
            a == Pending("announce")
            i == Pending("inpkt")
            r == Pending("reconfigure")
            s == Pending("send")
            n == Len(mbox)
<1>3. /\ l \in Nat /\ a \in Nat /\ i \in Nat /\ r \in Nat /\ s \in Nat /\ n \in Nat
      /\ MboxSize \in Nat /\ ApiMsgs \in Nat /\ InPkts \in Nat
  BY Zenon, <1>1 DEF Numbers
<1>4. l <= 1 /\ a <= 1 /\ r + completion <= 1 /\ s <= 1
  BY Zenon, <1>2 DEF RequestInv, MessageInv, PollInv
<1>5. /\ inp + i = InPkts /\ n <= l + a + i + r + s /\ api + (l + a + r) = ApiMsgs
      /\ InPkts + 4 <= MboxSize /\ 3 <= ApiMsgs
  BY Zenon, <1>2, SizesAssumption DEF MessageInv, Total, Used
<1>6. /\ spc = "idle" => r = 0
      /\ lpc \in {"poll", "announce"} => a = 0
      /\ upc = "idle" => s = 0
  BY Zenon, <1>2 DEF RequestInv, MessageInv, PollInv
<1>. HIDE DEF l, a, i, r, s, n
<1>7. r <= 1  BY <1>2, <1>3, <1>4
<1>8. l <= 1 /\ a <= 1 /\ s <= 1 /\ api \in Nat /\ inp \in Nat  BY Zenon, <1>2, <1>4
<1>9. ASSUME spc = "idle" PROVE api > 0 /\ n < MboxSize
  <2>1. r = 0  BY Zenon, <1>6, <1>9
  <2>. QED  BY <1>3, <1>5, <1>8, <2>1
<1>10. ASSUME lpc \in {"poll", "announce"} PROVE api > 0 /\ n < MboxSize
  <2>1. a = 0  BY Zenon, <1>6, <1>10
  <2>. QED  BY <1>3, <1>5, <1>7, <1>8, <2>1
<1>11. ASSUME upc = "idle" PROVE n < MboxSize
  <2>1. s = 0  BY Zenon, <1>6, <1>11
  <2>. QED  BY <1>3, <1>5, <1>7, <1>8, <2>1
<1>12. ASSUME inp > 0 PROVE n < MboxSize
  BY <1>3, <1>5, <1>7, <1>8, <1>12
<1>. QED  BY Zenon, <1>9, <1>10, <1>11, <1>12 DEF n, PostsFindRoom

\* A post that finds room.
LEMMA TryCallback ==
    ASSUME TypeOK, NEW k \in Types, NEW up \in BOOLEAN, tcpip_try_callback(Message(k, up)),
           tpc' = tpc, api > 0, Len(mbox) < MboxSize
    PROVE  /\ mbox' \in Seq(Messages) /\ Len(mbox') = Len(mbox) + 1 /\ Step(k, 1)
           /\ api' = api - 1 /\ api' \in Nat
<1>1. api' = api - 1 /\ mbox' = Append(mbox, Message(k, up))  BY Zenon DEF tcpip_try_callback
<1>2. api' \in Nat  BY <1>1 DEF TypeOK
<1>. QED  BY Zenon, <1>1, <1>2, Posted

\* The poll posts the link's state when it changed.
LEMMA PollLinkStep ==
    ASSUME IInv, PollLink PROVE IInv'
<1>1. Numbers /\ TypeOK  BY Zenon, NumbersType DEF IInv
<1>2. lpc = "poll" /\ api > 0 /\ Len(mbox) < MboxSize  BY Zenon, Room DEF PollLink, PostsFindRoom
<1>3. CASE cable # link
  <2>1. /\ mbox' \in Seq(Messages) /\ Len(mbox') = Len(mbox) + 1 /\ Step("link", 1)
        /\ api' = api - 1 /\ api' \in Nat
    <3>1. tcpip_try_callback(Message("link", cable)) /\ tpc' = tpc  BY Zenon, <1>3 DEF PollLink, tcpip
    <3>2. "link" \in Types /\ cable \in BOOLEAN  BY Zenon, <1>1 DEF TypeOK, Types
    <3>. QED  BY Zenon, <1>1, <1>2, <3>1, <3>2, TryCallback
  <2>2. polled' = cable /\ lpc' = "announce"  BY Zenon, <1>3 DEF PollLink
  <2>3. UNCHANGED <<device, events, mask, inp, pool, tcpip, iface, shell, completion, upc>>
    BY Zenon DEF PollLink
  <2>. USE <1>1, <1>2, <2>1, <2>2, <2>3 DEF IInv, TypeOK, Step, Numbers,
                device, lwip, memory, tcpip, iface, shell
  <2>4. TypeOK'  BY Zenon
  <2>5. RequestInv'  BY Zenon DEF RequestInv
  <2>6. MessageInv'  BY DEF MessageInv
  <2>7. PollInv'  BY DEF PollInv
  <2>8. PbufsAccounted'  BY Zenon DEF PbufsAccounted
  <2>. QED  BY Zenon, <2>4, <2>5, <2>6, <2>7, <2>8
<1>4. CASE cable = link
  <2>1. SamePending  BY Zenon, <1>4, Untouched DEF PollLink, tcpip
  <2>2. /\ lpc' \in {"drain", "wait"}
        /\ UNCHANGED <<device, events, mask, polled, mbox, api, inp, pool, tcpip, iface, shell,
                       completion, upc>>
    BY Zenon, <1>4 DEF PollLink, AfterPoll
  <2>. USE <1>1, <1>2, <2>1, <2>2 DEF IInv, TypeOK, SamePending, Numbers,
                device, lwip, memory, tcpip, iface, shell
  <2>3. TypeOK'  OBVIOUS
  <2>4. RequestInv'  BY Zenon DEF RequestInv
  <2>5. MessageInv'  BY Zenon DEF MessageInv
  <2>6. PollInv'  BY Zenon DEF PollInv
  <2>7. PbufsAccounted'  BY Zenon DEF PbufsAccounted
  <2>. QED  BY Zenon, <2>3, <2>4, <2>5, <2>6, <2>7
<1>. QED  BY Zenon, <1>3, <1>4

\* Then the callback of main.
LEMMA PostLinkCallbackStep ==
    ASSUME IInv, PostLinkCallback PROVE IInv'
<1>1. Numbers /\ TypeOK  BY Zenon, NumbersType DEF IInv
<1>2. lpc = "announce" /\ api > 0 /\ Len(mbox) < MboxSize
  BY Zenon, Room DEF PostLinkCallback, PostsFindRoom
<1>3. /\ mbox' \in Seq(Messages) /\ Len(mbox') = Len(mbox) + 1 /\ Step("announce", 1)
      /\ api' = api - 1 /\ api' \in Nat
  <2>1. tcpip_try_callback(Message("announce", polled)) /\ tpc' = tpc
    BY Zenon DEF PostLinkCallback, tcpip
  <2>2. "announce" \in Types /\ polled \in BOOLEAN  BY Zenon, <1>1 DEF TypeOK, Types
  <2>. QED  BY Zenon, <1>1, <1>2, <2>1, <2>2, TryCallback
<1>4. /\ polled' = FALSE /\ lpc' \in {"drain", "wait"}
      /\ UNCHANGED <<device, events, mask, inp, pool, tcpip, iface, shell, completion, upc>>
  BY Zenon DEF PostLinkCallback, AfterPoll
<1>. USE <1>1, <1>2, <1>3, <1>4 DEF IInv, TypeOK, Step, Numbers,
              device, lwip, memory, tcpip, iface, shell
<1>5. TypeOK'  BY Zenon
<1>6. RequestInv'  BY Zenon DEF RequestInv
<1>7. MessageInv'  BY DEF MessageInv
<1>8. PollInv'  BY DEF PollInv
<1>9. PbufsAccounted'  BY Zenon DEF PbufsAccounted
<1>. QED  BY Zenon, <1>5, <1>6, <1>7, <1>8, <1>9

\* A request of the shell.
LEMMA lwipReconfigureStep ==
    ASSUME IInv, NEW c \in Conf, lwipReconfigure(c) PROVE IInv'
<1>1. Numbers /\ TypeOK  BY Zenon, NumbersType DEF IInv
<1>2. spc = "idle" /\ api > 0 /\ Len(mbox) < MboxSize
  BY Zenon, Room DEF lwipReconfigure, PostsFindRoom
<1>3. /\ mbox' \in Seq(Messages) /\ Len(mbox') = Len(mbox) + 1 /\ Step("reconfigure", 1)
      /\ api' = api - 1 /\ api' \in Nat
  <2>1. tcpip_try_callback(Message("reconfigure", TRUE)) /\ tpc' = tpc
    BY Zenon DEF lwipReconfigure, tcpip
  <2>2. "reconfigure" \in Types /\ TRUE \in BOOLEAN  BY Zenon DEF Types
  <2>. QED  BY Zenon, <1>1, <1>2, <2>1, <2>2, TryCallback
<1>4. /\ want' = c /\ spc' = "wait"
      /\ UNCHANGED <<device, lwip, inp, pool, tcpip, iface, completion, asked, info, upc>>
  BY Zenon DEF lwipReconfigure
<1>5. Pending("reconfigure") = 0 /\ completion = 0 /\ tpc # "reconfigure"
  <2>1. Pending("reconfigure") = 0 /\ completion = 0
    BY Zenon, <1>1, <1>2 DEF IInv, RequestInv, Numbers, TypeOK
  <2>2. Count("reconfigure", mbox) \in Nat  BY Zenon, <1>1 DEF TypeOK, Counting
  <2>. QED  BY <2>1, <2>2 DEF Pending
<1>. USE <1>1, <1>2, <1>3, <1>4, <1>5 DEF IInv, TypeOK, Step, Numbers,
              device, lwip, memory, tcpip, iface, shell
<1>6. TypeOK'  BY Zenon
<1>7. RequestInv'  BY DEF RequestInv
<1>8. MessageInv'  BY DEF MessageInv
<1>9. PollInv'  BY Zenon DEF PollInv
<1>10. PbufsAccounted'  BY Zenon DEF PbufsAccounted
<1>. QED  BY Zenon, <1>6, <1>7, <1>8, <1>9, <1>10

\* A pbuf goes to the tcpip thread or back to the pool.
LEMMA DispatchFrameStep ==
    ASSUME IInv, DispatchFrame PROVE IInv'
<1>1. Numbers /\ TypeOK  BY Zenon, NumbersType DEF IInv
<1>2. /\ lpc = "input" /\ lpc' = "drain"
      /\ UNCHANGED <<device, events, mask, polled, api, tcpip, iface, shell, completion, upc>>
  BY Zenon DEF DispatchFrame
<1>3. \/ mbox' = Append(mbox, Message("inpkt", TRUE)) /\ inp > 0 /\ inp' = inp - 1 /\ pool' = pool
      \/ mbox' = mbox /\ inp' = inp /\ pool' = pool + 1
  BY Zenon DEF DispatchFrame, tcpip_inpkt
<1>4. CASE mbox' = Append(mbox, Message("inpkt", TRUE)) /\ inp > 0 /\ inp' = inp - 1 /\ pool' = pool
  <2>1. mbox' \in Seq(Messages) /\ Len(mbox') = Len(mbox) + 1 /\ Step("inpkt", 1)
    <3>1. "inpkt" \in Types /\ TRUE \in BOOLEAN /\ tpc' = tpc  BY Zenon, <1>2 DEF Types, tcpip
    <3>. QED  BY Zenon, <1>1, <1>4, <3>1, Posted
  <2>2. inp' \in Nat  BY <1>1, <1>4 DEF TypeOK
  <2>3. inp' + Pending("inpkt")' = InPkts
    <3>1. inp + Pending("inpkt") = InPkts /\ inp \in Nat  BY Zenon DEF IInv, TypeOK, MessageInv
    <3>2. Pending("inpkt")' = Pending("inpkt") + 1 /\ Pending("inpkt") \in Nat
      BY Zenon, <1>1, <2>1 DEF Step, Numbers
    <3>. QED  BY <1>4, <3>1, <3>2
  <2>. USE <1>1, <1>2, <1>4, <2>1, <2>2, <2>3 DEF IInv, TypeOK, Step, Numbers,
                device, lwip, memory, tcpip, iface, shell
  <2>4. TypeOK'  BY Zenon
  <2>5. RequestInv'  BY Zenon DEF RequestInv
  <2>6. MessageInv'  BY DEF MessageInv
  <2>7. PollInv'  BY Zenon DEF PollInv
  <2>8. PbufsAccounted'  BY DEF PbufsAccounted
  <2>. QED  BY Zenon, <2>4, <2>5, <2>6, <2>7, <2>8
<1>5. CASE mbox' = mbox /\ inp' = inp /\ pool' = pool + 1
  <2>1. SamePending  BY Zenon, <1>2, <1>5, Untouched DEF tcpip
  <2>. USE <1>1, <1>2, <1>5, <2>1 DEF IInv, TypeOK, SamePending, Numbers,
                device, lwip, memory, tcpip, iface, shell
  <2>2. TypeOK'  OBVIOUS
  <2>3. RequestInv'  BY Zenon DEF RequestInv
  <2>4. MessageInv'  BY Zenon DEF MessageInv
  <2>5. PollInv'  BY Zenon DEF PollInv
  <2>6. PbufsAccounted'  BY DEF PbufsAccounted
  <2>. QED  BY Zenon, <2>2, <2>3, <2>4, <2>5, <2>6
<1>. QED  BY Zenon, <1>3, <1>4, <1>5

\* A send of the UDP thread.
LEMMA sendtoStep ==
    ASSUME IInv, sendto PROVE IInv'
<1>1. Numbers /\ TypeOK  BY Zenon, NumbersType DEF IInv
<1>2. /\ upc = "idle" /\ upc' = "wait"
      /\ UNCHANGED <<device, lwip, memory, tcpip, iface, shell, completion>>
  BY Zenon DEF sendto
<1>3. mbox' \in Seq(Messages) /\ Len(mbox') = Len(mbox) + 1 /\ Step("send", 1)
  <2>1. "send" \in Types /\ TRUE \in BOOLEAN /\ tpc' = tpc  BY Zenon, <1>2 DEF Types, tcpip
  <2>2. mbox' = Append(mbox, Message("send", TRUE))  BY Zenon DEF sendto
  <2>. QED  BY Zenon, <1>1, <2>1, <2>2, Posted
<1>. USE <1>1, <1>2, <1>3 DEF IInv, TypeOK, Step, Numbers,
              device, lwip, memory, tcpip, iface, shell
<1>4. TypeOK'  OBVIOUS
<1>5. RequestInv'  BY Zenon DEF RequestInv
<1>6. MessageInv'  BY DEF MessageInv
<1>7. PollInv'  BY Zenon DEF PollInv
<1>8. PbufsAccounted'  BY Zenon DEF PbufsAccounted
<1>. QED  BY Zenon, <1>4, <1>5, <1>6, <1>7, <1>8

-----------------------------------------------------------------------------
(* The tcpip thread's actions.                                             *)

\* A message changes hands.
LEMMA FetchStep ==
    ASSUME IInv, Fetch PROVE IInv'
<1>1. Numbers /\ TypeOK  BY Zenon, NumbersType DEF IInv
<1>2. /\ tpc = "fetch" /\ step' = 1
      /\ UNCHANGED <<device, lwip, memory, iface, shell, completion, upc>>
  BY Zenon DEF Fetch
<1>3. /\ mbox' \in Seq(Messages) /\ Len(mbox') = Len(mbox) - 1
      /\ tpc' \in Types /\ msg'.type = tpc' /\ SamePending
  BY Zenon, <1>1, Fetched
<1>. USE <1>1, <1>2, <1>3 DEF IInv, TypeOK, SamePending, Numbers,
              device, lwip, memory, iface, shell
<1>4. TypeOK'  OBVIOUS
<1>5. RequestInv'  BY DEF RequestInv
<1>6. MessageInv'  BY DEF MessageInv
<1>7. PollInv'  BY Zenon DEF PollInv
<1>8. PbufsAccounted'  BY Zenon DEF PbufsAccounted
<1>. QED  BY Zenon, <1>4, <1>5, <1>6, <1>7, <1>8

\* The link flag is set, the message freed.
LEMMA SetLinkStep ==
    ASSUME IInv, SetLink PROVE IInv'
<1>1. Numbers /\ TypeOK  BY Zenon, NumbersType DEF IInv
<1>2. /\ tpc = "link" /\ tpc' = "fetch"
      /\ api' = api + 1
      /\ UNCHANGED <<device, lwip, mbox, inp, pool, step, netif, announced, recv, shell,
                     completion, upc>>
  BY Zenon DEF SetLink, Done
<1>3. Step("link", -1) /\ Pending("link") >= 1
  <2>1. "link" \in Types /\ mbox' = mbox  BY Zenon, <1>2 DEF Types, memory
  <2>. QED  BY Zenon, <1>1, <1>2, <2>1, Ended
<1>. USE <1>1, <1>2, <1>3 DEF IInv, TypeOK, Step, Numbers,
              device, lwip, shell
<1>4. TypeOK'  OBVIOUS
<1>5. RequestInv'  BY Zenon DEF RequestInv
<1>6. MessageInv'  BY DEF MessageInv
<1>7. PollInv'  BY DEF PollInv
<1>8. PbufsAccounted'  BY Zenon DEF PbufsAccounted
<1>. QED  BY Zenon, <1>4, <1>5, <1>6, <1>7, <1>8

\* The callback of main has run.
LEMMA AnnounceStep ==
    ASSUME IInv, Announce PROVE IInv'
<1>1. Numbers /\ TypeOK  BY Zenon, NumbersType DEF IInv
<1>2. /\ tpc = "announce" /\ tpc' = "fetch"
      /\ api' = api + 1
      /\ UNCHANGED <<device, lwip, mbox, inp, pool, step, link, netif, recv, shell,
                     completion, upc>>
  BY Zenon DEF Announce, Done
<1>3. Step("announce", -1) /\ Pending("announce") >= 1
  <2>1. "announce" \in Types /\ mbox' = mbox  BY Zenon, <1>2 DEF Types, memory
  <2>. QED  BY Zenon, <1>1, <1>2, <2>1, Ended
<1>. USE <1>1, <1>2, <1>3 DEF IInv, TypeOK, Step, Numbers,
              device, lwip, shell
<1>4. TypeOK'  OBVIOUS
<1>5. RequestInv'  BY Zenon DEF RequestInv
<1>6. MessageInv'  BY DEF MessageInv
<1>7. PollInv'  BY DEF PollInv
<1>8. PbufsAccounted'  BY Zenon DEF PbufsAccounted
<1>. QED  BY Zenon, <1>4, <1>5, <1>6, <1>7, <1>8

\* A packet goes to the socket or back to the pool.
LEMMA InputStep ==
    ASSUME IInv, Input PROVE IInv'
<1>1. Numbers /\ TypeOK  BY Zenon, NumbersType DEF IInv
<1>2. /\ tpc = "inpkt" /\ tpc' = "fetch"
      /\ inp' = inp + 1
      /\ \/ recv' = recv + 1 /\ pool' = pool
         \/ pool' = pool + 1 /\ recv' = recv
      /\ UNCHANGED <<device, lwip, mbox, api, step, link, netif, announced, shell,
                     completion, upc>>
  BY Zenon DEF Input, Done, recv_udp
<1>3. Step("inpkt", -1) /\ Pending("inpkt") >= 1
  <2>1. "inpkt" \in Types /\ mbox' = mbox  BY Zenon, <1>2 DEF Types, memory
  <2>. QED  BY Zenon, <1>1, <1>2, <2>1, Ended
<1>4. PbufsAccounted'
  <2>. DEFINE i == Pending("inpkt")
              j == IF lpc = "input" THEN 1 ELSE 0
  <2>1. pool + i + j + recv = Pbufs /\ i' = i - 1 /\ j' = j /\ j \in Nat
    BY Zenon, <1>1, <1>2, <1>3 DEF IInv, PbufsAccounted, Step, Numbers, lwip
  <2>2. pool \in Nat /\ recv \in Nat /\ i \in Nat  BY Zenon, <1>1 DEF TypeOK, Numbers
  <2>3. pool' + i' + j' + recv' = Pbufs
    <3>. HIDE DEF i, j
    <3>. QED  BY <1>2, <2>1, <2>2
  <2>. QED  BY Zenon, <2>3 DEF PbufsAccounted
<1>. USE <1>1, <1>2, <1>3, <1>4 DEF IInv, TypeOK, Step, Numbers,
              device, lwip, shell
<1>5. TypeOK'  OBVIOUS
<1>6. RequestInv'  BY Zenon DEF RequestInv
<1>7. MessageInv'  BY DEF MessageInv
<1>8. PollInv'  BY Zenon DEF PollInv
<1>9. PbufsAccounted'  BY Zenon DEF PbufsAccounted
<1>. QED  BY Zenon, <1>5, <1>6, <1>7, <1>8, <1>9

\* The UDP thread is answered.
LEMMA DoSendStep ==
    ASSUME IInv, DoSend PROVE IInv'
<1>1. Numbers /\ TypeOK  BY Zenon, NumbersType DEF IInv
<1>2. /\ tpc = "send" /\ tpc' = "fetch"
      /\ upc' = "idle"
      /\ UNCHANGED <<device, lwip, mbox, memory, step, iface, shell, completion>>
  BY Zenon DEF DoSend, Done
<1>3. Step("send", -1) /\ Pending("send") >= 1
  <2>1. "send" \in Types /\ mbox' = mbox  BY Zenon, <1>2 DEF Types, memory
  <2>. QED  BY Zenon, <1>1, <1>2, <2>1, Ended
<1>. USE <1>1, <1>2, <1>3 DEF IInv, TypeOK, Step, Numbers,
              device, lwip, memory, iface, shell
<1>4. TypeOK'  BY Zenon
<1>5. RequestInv'  BY Zenon DEF RequestInv
<1>6. MessageInv'  BY DEF MessageInv
<1>7. PollInv'  BY Zenon DEF PollInv
<1>8. PbufsAccounted'  BY Zenon DEF PbufsAccounted
<1>. QED  BY Zenon, <1>4, <1>5, <1>6, <1>7, <1>8

\* The addresses are set one at a time while the shell waits; the last step answers it.
LEMMA do_reconfigureStep ==
    ASSUME IInv, do_reconfigure PROVE IInv'
<1>1. Numbers /\ TypeOK  BY Zenon, NumbersType DEF IInv
<1>2. /\ tpc = "reconfigure"
      /\ UNCHANGED <<device, lwip, mbox, inp, pool, link, announced, recv, shell, upc>>
  BY Zenon DEF do_reconfigure
<1>3. (Step("reconfigure", -1) /\ Pending("reconfigure") >= 1) \/ tpc' # "fetch"
  BY Zenon, <1>1, <1>2, Ended DEF Types
<1>4. Pending("reconfigure") >= 1
  <2>1. Count("reconfigure", mbox) \in Nat  BY Zenon, <1>1 DEF TypeOK, Counting
  <2>. QED  BY <1>2, <2>1 DEF Pending
<1>5. completion = 0 /\ spc = "wait"
  BY <1>1, <1>4 DEF IInv, RequestInv, TypeOK, Numbers
<1>6. CASE step <= 6
  <2>1. /\ netif' = [netif EXCEPT ![Setters[IF step <= 3 THEN step ELSE step - 3]] =
                       IF step <= 3 THEN None ELSE want]
        /\ step' = step + 1
        /\ UNCHANGED <<tpc, msg, completion, api>>
    BY <1>1, <1>6 DEF do_reconfigure, TypeOK
  <2>2. SamePending  BY Zenon, <1>2, <2>1, Untouched
  <2>3. /\ netif' \in Addresses
        /\ step' > 4 => netif'.ip_addr = want
        /\ step' > 5 => netif'.netmask = want
        /\ step' > 6 => netif'.gw = want
    <3>1. /\ netif \in Addresses /\ step \in 1..6 /\ want \in Conf
          /\ step > 4 => netif.ip_addr = want
          /\ step > 5 => netif.netmask = want
      <4>1. netif \in Addresses /\ step \in 1..7 /\ want \in Conf  BY Zenon, <1>1 DEF TypeOK
      <4>2. (step > 4 => netif.ip_addr = want) /\ (step > 5 => netif.netmask = want)
        BY <1>2, Zenon DEF IInv, RequestInv
      <4>. QED  BY <4>1, <4>2, <1>6
    <3>2. CASE step = 1
      <4>1. netif' = [netif EXCEPT !["ip_addr"] = None]  BY <2>1, <3>2 DEF Setters
      <4>. QED  BY <2>1, <3>1, <3>2, <4>1 DEF Addresses
    <3>3. CASE step = 2
      <4>1. netif' = [netif EXCEPT !["netmask"] = None]  BY <2>1, <3>3 DEF Setters
      <4>. QED  BY <2>1, <3>1, <3>3, <4>1 DEF Addresses
    <3>4. CASE step = 3
      <4>1. netif' = [netif EXCEPT !["gw"] = None]  BY <2>1, <3>4 DEF Setters
      <4>. QED  BY <2>1, <3>1, <3>4, <4>1 DEF Addresses
    <3>5. CASE step = 4
      <4>1. netif' = [netif EXCEPT !["ip_addr"] = want]  BY <2>1, <3>5 DEF Setters
      <4>. QED  BY <2>1, <3>1, <3>5, <4>1 DEF Addresses
    <3>6. CASE step = 5
      <4>1. netif' = [netif EXCEPT !["netmask"] = want]  BY <2>1, <3>6 DEF Setters
      <4>. QED  BY <2>1, <3>1, <3>6, <4>1 DEF Addresses
    <3>7. CASE step = 6
      <4>1. netif' = [netif EXCEPT !["gw"] = want]  BY <2>1, <3>7 DEF Setters
      <4>. QED  BY <2>1, <3>1, <3>7, <4>1 DEF Addresses
    <3>. QED  BY <3>1, <3>2, <3>3, <3>4, <3>5, <3>6, <3>7
  <2>4. step' \in 1..7 /\ UNCHANGED <<tpc, msg, completion, api>>  BY <1>1, <1>6, <2>1 DEF TypeOK
  <2>. USE <1>1, <1>2, <1>5, <2>2, <2>3, <2>4 DEF IInv, TypeOK, SamePending, Numbers,
                device, lwip, shell
  <2>5. TypeOK'  BY Zenon
  <2>6. RequestInv'  BY DEF RequestInv
  <2>7. MessageInv'  BY Zenon DEF MessageInv
  <2>8. PollInv'  BY Zenon DEF PollInv
  <2>9. PbufsAccounted'  BY Zenon DEF PbufsAccounted
  <2>. QED  BY Zenon, <2>5, <2>6, <2>7, <2>8, <2>9
<1>7. CASE step = 7
  <2>1. /\ completion' = completion + 1 /\ api' = api + 1
        /\ tpc' = "fetch" /\ step' = 1 /\ UNCHANGED netif
    BY <1>7 DEF do_reconfigure, Done
  <2>2. Step("reconfigure", -1)  BY Zenon, <1>3, <2>1
  <2>3. netif = Whole(want)
    <3>1. netif \in Addresses  BY Zenon, <1>1 DEF TypeOK
    <3>2. /\ step > 4 => netif.ip_addr = want
          /\ step > 5 => netif.netmask = want
          /\ step > 6 => netif.gw = want
      BY <1>2, Zenon DEF IInv, RequestInv
    <3>3. netif.ip_addr = want /\ netif.netmask = want /\ netif.gw = want  BY <3>2, <1>7
    <3>. QED  BY Zenon, <3>1, <3>3 DEF Addresses, Whole
  <2>4. RequestInv'
    <3>1. Pending("reconfigure")' = 0
      <4>1. Pending("reconfigure")' = Pending("reconfigure") + (-1)  BY Zenon, <2>2 DEF Step
      <4>2. Pending("reconfigure") \in Nat /\ Pending("reconfigure") + completion <= 1
        BY Zenon, <1>1 DEF IInv, RequestInv, Numbers
      <4>. QED  BY <4>1, <4>2, <1>4, <1>5
    <3>2. completion' = 1 /\ spc' = "wait" /\ netif' = Whole(want') /\ tpc' = "fetch"
      BY <1>2, <1>5, <2>1, <2>3 DEF shell, Whole
    <3>. QED  BY <3>1, <3>2 DEF RequestInv
  <2>. USE <1>1, <1>2, <1>4, <1>5, <2>1, <2>2, <2>3 DEF IInv, TypeOK, Step, Numbers,
                device, lwip, shell
  <2>5. TypeOK'  OBVIOUS
  <2>6. MessageInv'  BY DEF MessageInv
  <2>7. PollInv'  BY Zenon DEF PollInv
  <2>8. PbufsAccounted'  BY Zenon DEF PbufsAccounted
  <2>. QED  BY Zenon, <2>4, <2>5, <2>6, <2>7, <2>8
<1>. QED  BY <1>1, <1>6, <1>7 DEF TypeOK

-----------------------------------------------------------------------------
(* The shell.                                                              *)

\* The answer ends the request.
LEMMA chSemWaitStep ==
    ASSUME IInv, chSemWait PROVE IInv'
<1>1. Numbers /\ TypeOK  BY Zenon, NumbersType DEF IInv
<1>2. completion = 1 /\ completion' = 0 /\ spc = "wait" /\ spc' = "idle" /\ asked' = want
  BY <1>1 DEF chSemWait, TypeOK
<1>3. UNCHANGED <<device, lwip, mbox, memory, tcpip, iface, want, info, upc>>  BY Zenon DEF chSemWait
<1>4. SamePending  BY Zenon, <1>3, Untouched DEF tcpip
<1>5. Pending("reconfigure") = 0  BY <1>1, <1>2 DEF IInv, RequestInv, Numbers
<1>. USE <1>1, <1>2, <1>3, <1>4, <1>5 DEF IInv, TypeOK, SamePending, Numbers,
              device, lwip, memory, tcpip, iface
<1>6. TypeOK'  BY Zenon
<1>7. RequestInv'  BY DEF RequestInv
<1>8. MessageInv'  BY Zenon DEF MessageInv
<1>9. PollInv'  BY Zenon DEF PollInv
<1>10. PbufsAccounted'  BY Zenon DEF PbufsAccounted
<1>. QED  BY Zenon, <1>6, <1>7, <1>8, <1>9, <1>10

\* The shell reads the interface only between its requests.
LEMMA cmd_net_infoStep ==
    ASSUME IInv, cmd_net_info PROVE IInv'
<1>1. Numbers /\ TypeOK  BY Zenon, NumbersType DEF IInv
<1>2. UNCHANGED <<device, lwip, mbox, memory, tcpip, iface, completion, want, asked, upc>>
  BY Zenon DEF cmd_net_info
<1>3. SamePending  BY Zenon, <1>2, Untouched DEF tcpip
<1>4. spc # "wait" /\ netif = Whole(asked) /\ spc' \in {"idle", "gw", "mask", "shown"}
  BY Zenon DEF IInv, RequestInv, cmd_net_info
<1>5. /\ info' \in Addresses
      /\ spc' \in {"gw", "mask", "shown"} => info'.ip_addr = asked
      /\ spc' \in {"mask", "shown"} => info'.gw = asked
      /\ spc' = "shown" => info'.netmask = asked
  <2>1. /\ netif.ip_addr = asked /\ netif.gw = asked /\ netif.netmask = asked
        /\ asked \in Conf /\ info \in Addresses
    BY Zenon, <1>1, <1>4 DEF Whole, TypeOK
  <2>2. /\ spc \in {"gw", "mask", "shown"} => info.ip_addr = asked
        /\ spc \in {"mask", "shown"} => info.gw = asked
    BY Zenon DEF IInv, RequestInv
  <2>3. CASE spc = "idle" /\ info' = [info EXCEPT !.ip_addr = netif.ip_addr] /\ spc' = "gw"
    BY Zenon, <2>1, <2>3 DEF Addresses
  <2>4. CASE spc = "gw" /\ info' = [info EXCEPT !.gw = netif.gw] /\ spc' = "mask"
    BY Zenon, <2>1, <2>2, <2>4 DEF Addresses
  <2>5. CASE spc = "mask" /\ info' = [info EXCEPT !.netmask = netif.netmask] /\ spc' = "shown"
    BY Zenon, <2>1, <2>2, <2>5 DEF Addresses
  <2>6. CASE spc = "shown" /\ info' = Whole(First) /\ spc' = "idle"
    BY Zenon, <2>6, SizesAssumption DEF Addresses, Whole
  <2>. QED  BY Zenon, <2>3, <2>4, <2>5, <2>6 DEF cmd_net_info
<1>. USE <1>1, <1>2, <1>3, <1>4, <1>5 DEF IInv, TypeOK, SamePending, Numbers,
              device, lwip, memory, tcpip, iface
<1>6. TypeOK'  OBVIOUS
<1>7. RequestInv'  BY Zenon DEF RequestInv
<1>8. MessageInv'  BY Zenon DEF MessageInv
<1>9. PollInv'  BY Zenon DEF PollInv
<1>10. PbufsAccounted'  BY Zenon DEF PbufsAccounted
<1>. QED  BY Zenon, <1>6, <1>7, <1>8, <1>9, <1>10

LEMMA NextStep ==
    ASSUME IInv, [Next]_vars PROVE IInv'
<1>1. CASE UNCHANGED vars
  <2>1. SamePending  BY Zenon, <1>1, Untouched DEF vars, tcpip
  <2>. USE <1>1, <2>1 DEF IInv, SamePending, vars, device, lwip, memory, tcpip, iface, shell
  <2>2. TypeOK'  BY DEF TypeOK
  <2>3. RequestInv'  BY Zenon DEF RequestInv
  <2>4. MessageInv'  BY Zenon DEF MessageInv
  <2>5. PollInv'  BY Zenon DEF PollInv
  <2>6. PbufsAccounted'  BY Zenon DEF PbufsAccounted
  <2>. QED  BY Zenon, <2>2, <2>3, <2>4, <2>5, <2>6
<1>2. CASE LwipThread
  BY Zenon, <1>2, chEvtWaitAnyStep, PollLinkStep, PostLinkCallbackStep, low_level_inputStep,
     DispatchFrameStep
     DEF LwipThread
<1>3. CASE TcpipThread
  BY Zenon, <1>3, FetchStep, SetLinkStep, AnnounceStep, InputStep, DoSendStep, do_reconfigureStep
     DEF TcpipThread
<1>. QED
  BY Zenon, <1>1, <1>2, <1>3, CableChangesStep, FrameReceivedStep, TimerFiresStep, lwipReconfigureStep,
     chSemWaitStep, cmd_net_infoStep, sendtoStep
     DEF Next

-----------------------------------------------------------------------------
(* Counting the messages of a kind, and the theorems.                      *)

INSTANCE FiniteSetTheorems

LEMMA CountType ==
    ASSUME NEW t, NEW q \in Seq(Messages)
    PROVE  IsFiniteSet({i \in DOMAIN q : q[i].type = t}) /\ Count(t, q) \in Nat
<1>1. 1 .. Len(q) = DOMAIN q /\ Len(q) \in Nat  OBVIOUS
<1>2. IsFiniteSet(1 .. Len(q))  BY <1>1, FS_Interval
<1>3. {i \in DOMAIN q : q[i].type = t} \subseteq 1 .. Len(q)  BY Zenon, <1>1
<1>4. IsFiniteSet({i \in DOMAIN q : q[i].type = t})  BY Zenon, <1>2, <1>3, FS_Subset
<1>. QED  BY Zenon, <1>4, FS_CardinalityType DEF Count

LEMMA CountEmpty ==
    ASSUME NEW t, NEW q \in Seq(Messages), \A i \in DOMAIN q : q[i].type # t
    PROVE  Count(t, q) = 0
<1>1. {i \in DOMAIN q : q[i].type = t} = {}  BY Zenon
<1>. QED  BY Zenon, <1>1, FS_EmptySet DEF Count

\* A message put at the end counts for its own kind.
LEMMA CountAppend ==
    ASSUME NEW t, NEW q \in Seq(Messages), NEW m \in Messages
    PROVE  Count(t, Append(q, m)) = Count(t, q) + (IF m.type = t THEN 1 ELSE 0)
<1>. DEFINE S == {i \in DOMAIN q : q[i].type = t}
            p == Append(q, m)
            R == {i \in DOMAIN p : p[i].type = t}
<1>1. /\ DOMAIN p = DOMAIN q \cup {Len(q) + 1} /\ Len(q) + 1 \notin DOMAIN q
      /\ p[Len(q) + 1] = m /\ \A i \in DOMAIN q : p[i] = q[i]
  OBVIOUS
<1>2. IsFiniteSet(S) /\ Count(t, q) = Cardinality(S) /\ Count(t, p) = Cardinality(R)
      /\ Cardinality(S) \in Nat
  BY Zenon, CountType DEF Count
<1>. HIDE DEF p
<1>3. CASE m.type = t
  <2>1. R = S \cup {Len(q) + 1} /\ Len(q) + 1 \notin S  BY Zenon, <1>1, <1>3
  <2>. HIDE DEF R, S
  <2>2. Cardinality(R) = Cardinality(S) + 1  BY Zenon, <2>1, <1>2, FS_AddElement
  <2>. QED  BY Zenon, <2>2, <1>2, <1>3 DEF p
<1>4. CASE m.type # t
  <2>1. R = S  BY Zenon, <1>1, <1>4
  <2>. HIDE DEF R, S
  <2>. QED  BY <2>1, <1>2, <1>4 DEF p
<1>. QED  BY Zenon, <1>3, <1>4

\* The message taken from the front counts no longer.
LEMMA CountTail ==
    ASSUME NEW t, NEW q \in Seq(Messages), q # << >>
    PROVE  Count(t, q) = Count(t, Tail(q)) + (IF Head(q).type = t THEN 1 ELSE 0)
<1>. DEFINE p == Tail(q)
            S == {i \in DOMAIN q : q[i].type = t}
            R == {i \in DOMAIN p : p[i].type = t}
            U == {i \in S : i # 1}
            f == [i \in R |-> i + 1]
<1>1. /\ p \in Seq(Messages) /\ Len(q) \in Nat /\ Len(q) > 0
      /\ DOMAIN q = 1 .. Len(q) /\ DOMAIN p = 1 .. (Len(q) - 1)
      /\ Head(q) = q[1] /\ \A i \in 1 .. (Len(q) - 1) : p[i] = q[i + 1]
  OBVIOUS
<1>2. /\ IsFiniteSet(S) /\ Count(t, q) = Cardinality(S) /\ Cardinality(S) \in Nat
      /\ IsFiniteSet(R) /\ Count(t, p) = Cardinality(R) /\ Cardinality(R) \in Nat
  BY Zenon, <1>1, CountType DEF Count
<1>. HIDE DEF p
<1>3. IsFiniteSet(U)
  <2>1. U \subseteq S  BY Zenon
  <2>. QED  BY Zenon, <2>1, <1>2, FS_Subset
<1>4. f \in Bijection(R, U)
  <2>1. \A i \in R : i + 1 \in U  BY <1>1
  <2>2. \A i, j \in R : i + 1 = j + 1 => i = j  BY <1>1
  <2>3. \A u \in U : u - 1 \in R /\ (u - 1) + 1 = u  BY <1>1
  <2>4. f \in [R -> U]  BY Zenon, <2>1
  <2>5. f \in Injection(R, U)  BY Zenon, <2>4, <2>2 DEF Injection, IsInjective
  <2>6. f \in Surjection(R, U)  BY Zenon, <2>4, <2>3 DEF Surjection
  <2>. QED  BY Zenon, <2>5, <2>6 DEF Bijection
<1>5. Cardinality(R) = Cardinality(U)
  <2>1. ExistsBijection(R, U)  BY Zenon, <1>4 DEF ExistsBijection
  <2>. HIDE DEF R, U
  <2>. QED  BY Zenon, <2>1, <1>2, <1>3, FS_Bijection
<1>6. CASE Head(q).type = t
  <2>1. S = U \cup {1} /\ 1 \notin U  BY <1>1, <1>6
  <2>. HIDE DEF S, U
  <2>2. Cardinality(S) = Cardinality(U) + 1  BY Zenon, <2>1, <1>3, FS_AddElement
  <2>. QED  BY Zenon, <2>2, <1>5, <1>2, <1>6 DEF p
<1>7. CASE Head(q).type # t
  <2>1. S = U  BY Zenon, <1>1, <1>7
  <2>. HIDE DEF S, U, R
  <2>. QED  BY <2>1, <1>5, <1>2, <1>7 DEF p
<1>. QED  BY Zenon, <1>6, <1>7

LEMMA CountLaws == Counting
BY Zenon, CountType, CountEmpty, CountAppend, CountTail DEF Counting

LEMMA InitStep ==
    ASSUME Init PROVE IInv
<1>1. \A t \in Types : Pending(t) = 0
  <2>1. mbox = << >> /\ tpc = "fetch"  BY Zenon DEF Init
  <2>2. \A t \in Types : Count(t, mbox) = 0
    <3>. SUFFICES ASSUME NEW t \in Types PROVE Count(t, mbox) = 0  BY Zenon
    <3>1. mbox \in Seq(Messages) /\ DOMAIN mbox = {}  BY <2>1
    <3>. QED  BY Zenon, <3>1, CountEmpty
  <2>. QED  BY <2>1, <2>2 DEF Pending, Types
<1>2. Total = 0 /\ Used = 0  BY <1>1 DEF Total, Used, Types
<1>3. TypeOK
  <2>0. Counting  BY Zenon, CountLaws
  <2>1. First \in Conf /\ ApiMsgs \in Nat /\ InPkts \in Nat /\ Pbufs \in Nat
    BY Zenon, SizesAssumption
  <2>2. Whole(First) \in Addresses  BY Zenon, <2>1 DEF Whole, Addresses
  <2>3. mbox \in Seq(Messages)  BY DEF Init
  <2>4. cable \in BOOLEAN /\ polled \in BOOLEAN  BY Zenon DEF Init
  <2>5. /\ rx \in Nat
        /\ lpc \in {"wait", "poll", "announce", "drain", "input"}
        /\ api \in Nat /\ inp \in Nat /\ pool \in Nat /\ recv \in Nat
        /\ tpc \in Types \cup {"fetch"} /\ step \in 1..7
    BY <2>1 DEF Init
  <2>6. /\ netif \in Addresses /\ info \in Addresses
        /\ spc \in {"idle", "wait", "gw", "mask", "shown"} /\ upc \in {"idle", "wait"}
        /\ want \in Conf /\ asked \in Conf /\ completion \in {0, 1}
    BY Zenon, <2>1, <2>2 DEF Init
  <2>. QED  BY Zenon, <2>0, <2>3, <2>5, <2>6, <2>4 DEF TypeOK
<1>4. RequestInv  BY <1>1 DEF Init, RequestInv, Types, Whole
<1>5. MessageInv  BY <1>1, <1>2, SizesAssumption DEF Init, MessageInv, Types
<1>6. PollInv  BY <1>1 DEF Init, PollInv, Types
<1>7. PbufsAccounted  BY <1>1, SizesAssumption DEF Init, PbufsAccounted, Types
<1>. QED  BY Zenon, <1>3, <1>4, <1>5, <1>6, <1>7 DEF IInv

\* The messages, their memory and the one request of the shell stay consistent, for any
\* sizes that SizesAssumption allows.
THEOREM InterfaceInvariant == Spec => []IInv
<1>1. Init => IInv  BY Zenon, InitStep
<1>2. IInv /\ [Next]_vars => IInv'  BY Zenon, NextStep
<1>. QED  BY <1>1, <1>2, PTL DEF Spec

\* cmd_net_info reads three fields outside the tcpip thread and still shows one
\* configuration, the one the shell was told of.
THEOREM ShownWhole == Spec => []InfoWhole
<1>1. IInv => InfoWhole
  <2>. SUFFICES ASSUME IInv, spc = "shown" PROVE info = Whole(asked)  BY Zenon DEF InfoWhole
  <2>1. info \in Addresses /\ info.ip_addr = asked /\ info.gw = asked /\ info.netmask = asked
    BY Zenon DEF IInv, TypeOK, RequestInv
  <2>. QED  BY Zenon, <2>1 DEF Addresses, Whole
<1>. QED  BY <1>1, InterfaceInvariant, PTL

\* No path of the input, errors included, loses a pbuf.
THEOREM NoPbufLost == Spec => []PbufsAccounted
<1>1. IInv => PbufsAccounted  BY Zenon DEF IInv
<1>. QED  BY <1>1, InterfaceInvariant, PTL

\* lwipReconfigure and the link poll may leave the result of their posts unread: the
\* posts cannot fail.  A lost request would leave the shell waiting for ever.
THEOREM PostsSucceed == Spec => []PostsFindRoom
<1>1. IInv => PostsFindRoom  BY Zenon, Room
<1>. QED  BY <1>1, InterfaceInvariant, PTL

=============================================================================
