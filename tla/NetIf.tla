-------------------------------- MODULE NetIf --------------------------------
(***************************************************************************)
(* The network interface after its start-up: the lwIP thread of            *)
(* lwipthread.c polls the link and moves received frames, the tcpip thread *)
(* handles the messages of its mailbox, the shell reconfigures the         *)
(* interface or reads it, the UDP thread sends.  The addresses are static, *)
(* as network_reconfigure always asks for.                                 *)
(***************************************************************************)
EXTENDS Integers, Sequences, FiniteSets

CONSTANTS
    Conf,           \* network configurations the shell asks for
    First,          \* the one of lwipInit
    MboxSize,       \* TCPIP_MBOX_SIZE
    ApiMsgs,        \* MEMP_NUM_TCPIP_MSG_API
    InPkts,         \* MEMP_NUM_TCPIP_MSG_INPKT
    Pbufs,          \* PBUF_POOL_SIZE
    RecvBox,        \* packets a socket nobody reads from keeps
    RxBuffers,      \* STM32_MAC_RECEIVE_BUFFERS
    None

ASSUME SizesAssumption ==
    /\ First \in Conf /\ None \notin Conf
    /\ {MboxSize, ApiMsgs, InPkts, Pbufs, RecvBox, RxBuffers} \subseteq Nat
    /\ InPkts + 4 <= MboxSize       \* two link messages, a request, a send
    /\ 3 <= ApiMsgs
    /\ RecvBox < Pbufs

VARIABLES
    cable, rx,              \* the PHY's link, frames in the receive ring
    events, mask,           \* pending events of the lwIP thread, those it took
    lpc, polled,            \* the lwIP thread
    mbox,                   \* tcpip_mbox
    api, inp, pool,         \* free tcpip messages of both kinds, free pbufs
    tpc, msg, step,         \* the tcpip thread
    link, netif,            \* link flag and addresses of thisif
    announced,              \* what the link callback of main.c said last
    recv,                   \* packets waiting at the UDP socket
    spc, want, completion,  \* the shell: its request and the semaphore
    asked, info,            \* the last request answered; what net_info shows
    upc                     \* the UDP thread

device == <<cable, rx>>
lwip == <<events, mask, lpc, polled>>
memory == <<api, inp, pool>>
tcpip == <<tpc, msg, step>>
iface == <<link, netif, announced, recv>>
shell == <<spc, want, asked, info>>
vars == <<device, lwip, mbox, memory, tcpip, iface, shell, completion, upc>>

Message(type, up) == [type |-> type, up |-> up]
Whole(c) == [ip_addr |-> c, netmask |-> c, gw |-> c]

-----------------------------------------------------------------------------
(* The device and the timer.                                               *)

CableChanges ==
    /\ cable' = ~cable
    /\ UNCHANGED <<rx, lwip, mbox, memory, tcpip, iface, shell, completion, upc>>

\* The Ethernet interrupt; a frame that finds the ring full is lost.
FrameReceived ==
    /\ rx < RxBuffers
    /\ rx' = rx + 1
    /\ events' = events \cup {"frame"}
    /\ UNCHANGED <<cable, mask, lpc, polled, mbox, memory, tcpip, iface, shell, completion, upc>>

LinkMessage(m) == m.type \in {"link", "announce"}
PollHandled ==
    /\ lpc \notin {"poll", "announce"}
    /\ ~LinkMessage(msg)
    /\ \A i \in DOMAIN mbox : ~LinkMessage(mbox[i])

\* tmrcb.  Five seconds outlast the handling of what the last poll posted.
TimerFires ==
    /\ PollHandled
    /\ events' = events \cup {"timer"}
    /\ UNCHANGED <<device, mask, lpc, polled, mbox, memory, tcpip, iface, shell, completion, upc>>

-----------------------------------------------------------------------------
(* The lwIP thread.                                                        *)

\* tcpip_callback_with_block(..., 0): tcpip_try_callback.
tcpip_try_callback(m) ==
    IF api > 0 /\ Len(mbox) < MboxSize
       THEN api' = api - 1 /\ mbox' = Append(mbox, m)
       ELSE UNCHANGED <<api, mbox>>

\* Fault: a frame that came with the timer waits for the next event.
AfterPoll_Wait == "wait"

AfterPoll == IF "frame" \in mask THEN "drain" ELSE "wait"

chEvtWaitAny ==
    /\ lpc = "wait" /\ events # {}
    /\ mask' = events /\ events' = {}
    /\ lpc' = IF "timer" \in events THEN "poll" ELSE "drain"
    /\ UNCHANGED <<device, polled, mbox, memory, tcpip, iface, shell, completion, upc>>

\* Fault: a lost link is not noticed.
PollLink_UpOnly ==
    /\ lpc = "poll"
    /\ IF cable /\ ~link
          THEN /\ tcpip_try_callback(Message("link", cable))
               /\ polled' = cable /\ lpc' = "announce"
          ELSE lpc' = AfterPoll /\ UNCHANGED <<polled, api, mbox>>
    /\ UNCHANGED <<device, events, mask, inp, pool, tcpip, iface, shell, completion, upc>>

PollLink ==
    /\ lpc = "poll"
    /\ IF cable # link
          THEN /\ tcpip_try_callback(Message("link", cable))
               /\ polled' = cable /\ lpc' = "announce"
          ELSE lpc' = AfterPoll /\ UNCHANGED <<polled, api, mbox>>
    /\ UNCHANGED <<device, events, mask, inp, pool, tcpip, iface, shell, completion, upc>>

PostLinkCallback ==
    /\ lpc = "announce"
    /\ tcpip_try_callback(Message("announce", polled))
    /\ lpc' = AfterPoll /\ polled' = FALSE
    /\ UNCHANGED <<device, events, mask, inp, pool, tcpip, iface, shell, completion, upc>>

\* low_level_input: the descriptor is released with or without a pbuf.
low_level_input ==
    /\ lpc = "drain"
    /\ rx' = IF rx > 0 THEN rx - 1 ELSE rx
    /\ IF rx > 0 /\ pool > 0
          THEN pool' = pool - 1 /\ lpc' = "input"
          ELSE UNCHANGED pool /\ lpc' = IF rx > 0 THEN "drain" ELSE "wait"
    /\ UNCHANGED <<cable, events, mask, polled, mbox, api, inp, tcpip, iface, shell, completion, upc>>

\* Fault: the pbuf of a packet the tcpip thread cannot take is not freed.
tcpip_inpkt_Leak ==
    IF inp > 0 /\ Len(mbox) < MboxSize
       THEN /\ mbox' = Append(mbox, Message("inpkt", TRUE))
            /\ inp' = inp - 1
            /\ UNCHANGED pool
       ELSE UNCHANGED <<mbox, inp, pool>>

\* thisif.input: an error makes the caller free the pbuf.
tcpip_inpkt ==
    IF inp > 0 /\ Len(mbox) < MboxSize
       THEN /\ mbox' = Append(mbox, Message("inpkt", TRUE))
            /\ inp' = inp - 1
            /\ UNCHANGED pool
       ELSE pool' = pool + 1 /\ UNCHANGED <<mbox, inp>>

\* IP and ARP frames go to the tcpip thread, the others are freed.
DispatchFrame ==
    /\ lpc = "input"
    /\ \/ tcpip_inpkt
       \/ pool' = pool + 1 /\ UNCHANGED <<mbox, inp>>
    /\ lpc' = "drain"
    /\ UNCHANGED <<device, events, mask, polled, api, tcpip, iface, shell, completion, upc>>

-----------------------------------------------------------------------------
(* The tcpip thread.                                                       *)

Fetch ==
    /\ tpc = "fetch" /\ mbox # <<>>
    /\ msg' = Head(mbox) /\ mbox' = Tail(mbox)
    /\ tpc' = msg'.type
    /\ step' = 1
    /\ UNCHANGED <<device, lwip, memory, iface, shell, completion, upc>>

Done == tpc' = "fetch" /\ msg' = Message("none", FALSE)

\* netif_set_link_up and netif_set_link_down.
SetLink ==
    /\ tpc = "link"
    /\ link' = msg.up
    /\ api' = api + 1
    /\ Done
    /\ UNCHANGED <<device, lwip, mbox, inp, pool, step, netif, announced, recv, shell,
                   completion, upc>>

\* myLinkUpCallback and myLinkDownCallback.
Announce ==
    /\ tpc = "announce"
    /\ announced' = msg.up
    /\ api' = api + 1
    /\ Done
    /\ UNCHANGED <<device, lwip, mbox, inp, pool, step, link, netif, recv, shell,
                   completion, upc>>

\* Fault: the socket keeps every packet.
recv_udp_Unbounded == recv' = recv + 1 /\ UNCHANGED pool

\* recv_udp: the UDP thread never reads its socket.
recv_udp ==
    IF recv < RecvBox
       THEN recv' = recv + 1 /\ UNCHANGED pool
       ELSE pool' = pool + 1 /\ UNCHANGED recv

\* ethernet_input consumes the packet, for the socket or not.
Input ==
    /\ tpc = "inpkt"
    /\ recv_udp \/ (pool' = pool + 1 /\ UNCHANGED recv)
    /\ inp' = inp + 1
    /\ Done
    /\ UNCHANGED <<device, lwip, mbox, api, step, link, netif, announced, shell,
                   completion, upc>>

\* lwip_netconn_do_send: the UDP thread gets its answer.
DoSend ==
    /\ tpc = "send"
    /\ upc' = "idle"
    /\ Done
    /\ UNCHANGED <<device, lwip, mbox, memory, step, iface, shell, completion>>

Setters == <<"ip_addr", "netmask", "gw">>

\* Fault: the caller is not signalled.
do_reconfigure_NoSignal ==
    /\ tpc = "reconfigure"
    /\ \/ /\ step <= 6
          /\ netif' = [netif EXCEPT ![Setters[IF step <= 3 THEN step ELSE step - 3]] =
                         IF step <= 3 THEN None ELSE want]
          /\ step' = step + 1
          /\ UNCHANGED <<tpc, msg, api>>
       \/ /\ step = 7
          /\ api' = api + 1
          /\ Done /\ step' = 1
          /\ UNCHANGED netif
    /\ UNCHANGED <<device, lwip, mbox, inp, pool, link, announced, recv, shell, completion, upc>>

\* do_reconfigure: the addresses are cleared one by one, then set one by one.
do_reconfigure ==
    /\ tpc = "reconfigure"
    /\ \/ /\ step <= 6
          /\ netif' = [netif EXCEPT ![Setters[IF step <= 3 THEN step ELSE step - 3]] =
                         IF step <= 3 THEN None ELSE want]
          /\ step' = step + 1
          /\ UNCHANGED <<tpc, msg, completion, api>>
       \/ /\ step = 7
          /\ completion' = completion + 1
          /\ api' = api + 1
          /\ Done /\ step' = 1
          /\ UNCHANGED netif
    /\ UNCHANGED <<device, lwip, mbox, inp, pool, link, announced, recv, shell, upc>>

-----------------------------------------------------------------------------
(* The shell and the UDP thread.                                           *)

\* lwipReconfigure: the result of the post is not looked at.
lwipReconfigure(c) ==
    /\ spc = "idle"
    /\ want' = c
    /\ tcpip_try_callback(Message("reconfigure", TRUE))
    /\ spc' = "wait"
    /\ UNCHANGED <<device, lwip, inp, pool, tcpip, iface, completion, asked, info, upc>>

\* Fault: the shell does not wait for the tcpip thread.
chSemWait_No ==
    /\ spc = "wait"
    /\ spc' = "idle" /\ asked' = want
    /\ UNCHANGED <<device, lwip, mbox, memory, tcpip, iface, completion, want, info, upc>>

chSemWait ==
    /\ spc = "wait" /\ completion > 0
    /\ completion' = completion - 1
    /\ spc' = "idle" /\ asked' = want
    /\ UNCHANGED <<device, lwip, mbox, memory, tcpip, iface, want, info, upc>>

\* cmd_net_info reads the interface outside the tcpip thread, field by field.
cmd_net_info ==
    /\ \/ spc = "idle" /\ info' = [info EXCEPT !.ip_addr = netif.ip_addr] /\ spc' = "gw"
       \/ spc = "gw" /\ info' = [info EXCEPT !.gw = netif.gw] /\ spc' = "mask"
       \/ spc = "mask" /\ info' = [info EXCEPT !.netmask = netif.netmask] /\ spc' = "shown"
       \/ spc = "shown" /\ info' = Whole(First) /\ spc' = "idle"
    /\ UNCHANGED <<device, lwip, mbox, memory, tcpip, iface, completion, want, asked, upc>>

\* sendto: sys_mbox_post waits for a free slot, then for the answer.
sendto ==
    /\ upc = "idle"
    /\ Len(mbox) < MboxSize
    /\ mbox' = Append(mbox, Message("send", TRUE))
    /\ upc' = "wait"
    /\ UNCHANGED <<device, lwip, memory, tcpip, iface, shell, completion>>

-----------------------------------------------------------------------------
Init ==
    /\ cable = FALSE /\ rx = 0
    /\ events = {"timer", "frame"} /\ mask = {} /\ lpc = "wait" /\ polled = FALSE
    /\ mbox = <<>> /\ api = ApiMsgs /\ inp = InPkts /\ pool = Pbufs
    /\ tpc = "fetch" /\ msg = Message("none", FALSE) /\ step = 1
    /\ link = FALSE /\ netif = Whole(First) /\ announced = FALSE /\ recv = 0
    /\ spc = "idle" /\ want = First /\ completion = 0 /\ asked = First /\ info = Whole(First)
    /\ upc = "idle"

LwipThread == chEvtWaitAny \/ PollLink \/ PostLinkCallback \/ low_level_input \/ DispatchFrame
TcpipThread == Fetch \/ SetLink \/ Announce \/ Input \/ DoSend \/ do_reconfigure

Next ==
    \/ CableChanges \/ FrameReceived \/ TimerFires
    \/ LwipThread \/ TcpipThread
    \/ (\E c \in Conf : lwipReconfigure(c)) \/ chSemWait \/ cmd_net_info
    \/ sendto

Spec == Init /\ [][Next]_vars

\* The threads run whenever they can, the timer is periodic.
LiveSpec ==
    /\ Spec
    /\ WF_vars(LwipThread) /\ WF_vars(TcpipThread) /\ WF_vars(TimerFires)
    /\ WF_vars(chSemWait)

-----------------------------------------------------------------------------
\* Messages of a kind in a mailbox, and with the one being handled.
Count(type, q) == Cardinality({i \in DOMAIN q : q[i].type = type})
Pending(type) == Count(type, mbox) + (IF tpc = type THEN 1 ELSE 0)

\* What net_info shows is the configuration the shell was told is in force, whole,
\* although the tcpip thread clears and sets the fields one at a time.
InfoWhole == spc = "shown" => info = Whole(asked)

\* Every pbuf is free, on its way or kept for the socket: none is lost on the
\* error paths of the input.
PbufsAccounted ==
    pool + Pending("inpkt") + (IF lpc = "input" THEN 1 ELSE 0) + recv = Pbufs

\* The shell gets its answer.
ReconfigureEnds == spc = "wait" ~> spc = "idle"

\* A cable that stays in or out is reported, unless frames arrive as fast as the
\* lwIP thread takes them and keep it from its next poll.
LinkFollows ==
    \A up \in BOOLEAN :
        <>[](cable = up) /\ []<>(lpc = "wait") => <>[](announced = up /\ link = up)

\* No frame stays in the receive ring without the lwIP thread coming for it.
FramesTaken == rx > 0 ~> rx = 0 \/ lpc = "drain"

\* The packets nobody reads never use up the pool.
PoolRecovers == []<>(pool > 0)

=============================================================================
