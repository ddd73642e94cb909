-------------------------------- MODULE Boot --------------------------------
(***************************************************************************)
(* The start-up of the firmware and the life of its threads: main creates  *)
(* the threads in the order and with the priorities of main.c, and each    *)
(* runs its own code on the kernel of module ChKernel.  A step is one      *)
(* kernel call of the running thread; what a thread computes between two   *)
(* calls is modelled in the other modules.  Interrupts may arrive between  *)
(* any two steps: a timer or DMA ends a sleep, the controller sends a      *)
(* report, the radio pulls its interrupt line.                             *)
(***************************************************************************)
EXTENDS ChKernel

CONSTANT
    EarlyCommands   \* whether shell commands may arrive before the UDP thread
                    \* has brought the network up

ASSUME EarlyCommandsAssumption == EarlyCommands \in BOOLEAN

Thread == {"main", "blinker", "HID", "usb_host", "udp_server", "nrf24_tx",
           "nrf24_irq", "shell", "lwip", "idle"}

VARIABLES
    sch,            \* the scheduler record of ChKernel
    pc,             \* the next kernel call of each thread
    esDS5Ready, esNRF24Interrupt,   \* the event sources
    epending,       \* the threads whose event bit is set (each waits for one)
    mtx,            \* udp_dest_mutex
    lwip_trp,       \* the thread lwipInit suspended
    hid,            \* the controller: "off", "active" (enumerated), "ready"
    irqOn,          \* the radio's interrupt line has its callback
    mboxOn,         \* lwIP's tcpip mailbox exists
    fault           \* use of memory that was never initialised: "none" or where

events == <<esDS5Ready, esNRF24Interrupt, epending>>
devices == <<hid, irqOn, mboxOn>>
vars == <<sch, pc, events, mtx, lwip_trp, devices, fault>>

-----------------------------------------------------------------------------
(* Priorities, as main() and lwipInit give them.                           *)

IDLEPRIO == 1

LOWPRIO == 2
NORMALPRIO == 128

\* Fault: the USB host thread is created below the threads it serves.
CreatePrio_UsbLow(t) ==
    CASE t = "idle" -> IDLEPRIO
      [] t \in {"lwip", "usb_host"} -> NORMALPRIO - 1
      [] t \in {"main", "HID", "udp_server", "nrf24_tx"} -> NORMALPRIO
      [] t \in {"blinker", "shell"} -> NORMALPRIO + 1
      [] t = "nrf24_irq" -> NORMALPRIO + 3

\* Fault: lwipInit creates its thread above the caller.
CreatePrio_LwipHigh(t) ==
    CASE t = "idle" -> IDLEPRIO
      [] t \in {"main", "HID", "udp_server", "nrf24_tx"} -> NORMALPRIO
      [] t \in {"blinker", "shell", "lwip"} -> NORMALPRIO + 1
      [] t = "usb_host" -> NORMALPRIO + 2
      [] t = "nrf24_irq" -> NORMALPRIO + 3

CreatePrio(t) ==
    CASE t = "idle" -> IDLEPRIO
      [] t = "lwip" -> NORMALPRIO - 1
      [] t \in {"main", "HID", "udp_server", "nrf24_tx"} -> NORMALPRIO
      [] t \in {"blinker", "shell"} -> NORMALPRIO + 1
      [] t = "usb_host" -> NORMALPRIO + 2
      [] t = "nrf24_irq" -> NORMALPRIO + 3

-----------------------------------------------------------------------------
(* The kernel calls, as steps of the running thread.                       *)

\* The running thread t makes the call labelled l; the next one is n.
At(t, l, n) ==
    /\ fault = "none"
    /\ sch.cur = t
    /\ pc[t] = l
    /\ pc' = [pc EXCEPT ![t] = n]

\* chThdCreateStatic and chThdCreateFromHeap.
chThdCreate(t) ==
    /\ sch' = Wakeup([sch EXCEPT !.prio[t] = CreatePrio(t), !.real[t] = CreatePrio(t)], t)
    /\ UNCHANGED <<events, mtx, lwip_trp, devices, fault>>

\* Anything that waits for a timer, a transfer or the tcpip thread.
Block ==
    /\ sch' = GoSleep(sch, "blocked")
    /\ UNCHANGED <<events, mtx, lwip_trp, devices, fault>>

\* chThdWait(shelltp) of main.
chThdWait(t) ==
    /\ sch' = IF sch.st[t] = "final" THEN sch ELSE GoSleep(sch, "wtexit")
    /\ UNCHANGED <<events, mtx, lwip_trp, devices, fault>>

\* chThdExitS: main is the only thread that waits for another to end.
chThdExit ==
    /\ sch' = LET s == IF sch.cur = "shell" /\ sch.st["main"] = "wtexit"
                          THEN ReadyBehind(sch, "main")
                          ELSE sch
              IN GoSleep(s, "final")
    /\ UNCHANGED <<events, mtx, lwip_trp, devices, fault>>

\* chEvtWaitOne: takes the pending bit, or sleeps and makes the call again.
chEvtWaitOne(t, l, n) ==
    /\ fault = "none" /\ sch.cur = t /\ pc[t] = l
    /\ IF t \in epending
          THEN /\ epending' = epending \ {t}
               /\ pc' = [pc EXCEPT ![t] = n]
               /\ UNCHANGED sch
          ELSE /\ sch' = GoSleep(sch, "wtevt")
               /\ UNCHANGED <<epending, pc>>
    /\ UNCHANGED <<esDS5Ready, esNRF24Interrupt, mtx, lwip_trp, devices, fault>>

\* chMtxLock(&udp_dest_mutex): a zeroed mutex is not owned, so this succeeds.
chMtxLock ==
    /\ sch' = MtxLockSched(sch, mtx)
    /\ mtx' = MtxLock(sch, mtx)
    /\ UNCHANGED <<events, lwip_trp, devices, fault>>

\* chMtxUnlock: the queue of a zeroed mutex looks non-empty, and the null
\* thread at its head is removed and made ready.
chMtxUnlock ==
    /\ IF mtx.init
          THEN /\ sch' = MtxUnlockSched(sch, mtx)
               /\ mtx' = MtxUnlock(sch, mtx)
               /\ UNCHANGED fault
          ELSE /\ fault' = "mutex"
               /\ UNCHANGED <<sch, mtx>>
    /\ UNCHANGED <<events, lwip_trp, devices>>

\* chEvtBroadcastI at the end of an interrupt; a zeroed source's list ends in
\* a null pointer instead of the source.
chEvtBroadcastI(es) ==
    /\ IF es.init
          THEN /\ sch' = Reschedule(EvtBroadcast(sch, es))
               /\ epending' = epending \cup Range(es.list)
               /\ UNCHANGED fault
          ELSE /\ fault' = "source"
               /\ UNCHANGED <<sch, epending>>
    /\ UNCHANGED <<pc, esDS5Ready, esNRF24Interrupt, mtx, lwip_trp, devices>>

-----------------------------------------------------------------------------
(* The threads of main.c.                                                  *)

\* main's labels: the thread it creates next, then the shell manager's loop.
MainOrder == <<"blinker", "HID", "usb_host", "udp_server", "nrf24_tx",
               "nrf24_irq", "shell", "wait", "sleep">>

Main ==
    \/ \E i \in 1..7 :
          At("main", MainOrder[i], MainOrder[i + 1]) /\ chThdCreate(MainOrder[i])
    \/ At("main", "wait", "sleep") /\ chThdWait("shell")
    \/ At("main", "sleep", "shell") /\ Block

\* The blinker.
Thread1 == At("blinker", "start", "start") /\ Block

\* usbhhidStart when a device is active, then a sleep.
ThreadTestHID ==
    \/ /\ At("HID", "start", "sleep")
       /\ hid' = IF hid = "active" THEN "ready" ELSE hid
       /\ UNCHANGED <<sch, events, mtx, lwip_trp, irqOn, mboxOn, fault>>
    \/ At("HID", "sleep", "start") /\ Block

\* usbhMainLoop enumerates a device that was plugged in and forgets one that
\* was pulled out.
UsbHostThread ==
    \/ /\ At("usb_host", "start", "usbh")
       /\ esDS5Ready' = EvtObjectInit(esDS5Ready)
       /\ UNCHANGED <<sch, esNRF24Interrupt, epending, mtx, lwip_trp, devices, fault>>
    \/ /\ At("usb_host", "usbh", "poll")
       /\ hid' = "empty"
       /\ UNCHANGED <<sch, events, mtx, lwip_trp, irqOn, mboxOn, fault>>
    \/ /\ At("usb_host", "poll", "sleep")
       /\ hid' \in {hid, IF hid = "empty" THEN "active" ELSE "empty"}
       /\ UNCHANGED <<sch, events, mtx, lwip_trp, irqOn, mboxOn, fault>>
    \/ At("usb_host", "sleep", "poll") /\ Block

\* udp_get_destination and udp_set_destination: a string copy under the mutex.
DestinationAccess(t, lock, copy, unlock, n) ==
    \/ At(t, lock, copy) /\ chMtxLock
    \/ At(t, copy, unlock) /\ UNCHANGED <<sch, events, mtx, lwip_trp, devices, fault>>
    \/ At(t, unlock, n) /\ chMtxUnlock

\* Fault: the mutex is never initialised.
MutexInit_Missing ==
    /\ At("udp_server", "mutex", "register")
    /\ UNCHANGED <<sch, events, mtx, lwip_trp, devices, fault>>

MutexInit ==
    /\ At("udp_server", "mutex", "register")
    /\ mtx' = MtxObjectInit(mtx)
    /\ UNCHANGED <<sch, events, lwip_trp, devices, fault>>

\* lwipInit, the mutex, the listener, the socket (which may fail: the thread
\* returns with its listener registered), then the loop.
UdpServerThread ==
    \/ At("udp_server", "start", "suspend") /\ chThdCreate("lwip")
    \/ /\ At("udp_server", "suspend", "mutex")
       /\ lwip_trp' = "udp_server"
       /\ sch' = GoSleep(sch, "suspended")
       /\ UNCHANGED <<events, mtx, devices, fault>>
    \/ MutexInit
    \/ /\ At("udp_server", "register", "socket")
       /\ esDS5Ready' = EvtRegister(esDS5Ready, "udp_server")
       /\ UNCHANGED <<sch, esNRF24Interrupt, epending, mtx, lwip_trp, devices, fault>>
    \/ \E n \in {"first lock", "return"} : At("udp_server", "socket", n) /\ Block
    \/ At("udp_server", "return", "return") /\ chThdExit
    \/ DestinationAccess("udp_server", "first lock", "first copy", "first unlock", "event")
    \/ chEvtWaitOne("udp_server", "event", "lock")
    \/ DestinationAccess("udp_server", "lock", "copy", "unlock", "sendto")
    \/ At("udp_server", "sendto", "event") /\ Block

\* A call of the nRF24 driver waits for its SPI transfers: t makes the call
\* labelled l and goes on at n.  The interrupt thread's call is never reached:
\* the wait before it does not end (IrqWaiterListed).
DriverCall ==
    \E call \in {[t |-> "nrf24_tx", l |-> "init", n |-> "line"],
                 [t |-> "nrf24_tx", l |-> "address", n |-> "event"],
                 [t |-> "nrf24_tx", l |-> "send", n |-> "event"],
                 [t |-> "nrf24_irq", l |-> "handle", n |-> "event"],
                 [t |-> "shell", l |-> "transfer", n |-> "start"]} :
        At(call.t, call.l, call.n) /\ Block

NRF24TxThread ==
    \/ /\ At("nrf24_tx", "start", "init")
       /\ esNRF24Interrupt' = EvtObjectInit(esNRF24Interrupt)
       /\ UNCHANGED <<sch, esDS5Ready, epending, mtx, lwip_trp, devices, fault>>
    \/ /\ At("nrf24_tx", "line", "register")
       /\ irqOn' = TRUE
       /\ UNCHANGED <<sch, events, mtx, lwip_trp, hid, mboxOn, fault>>
    \/ /\ At("nrf24_tx", "register", "address")
       /\ esDS5Ready' = EvtRegister(esDS5Ready, "nrf24_tx")
       /\ UNCHANGED <<sch, esNRF24Interrupt, epending, mtx, lwip_trp, devices, fault>>
    \/ chEvtWaitOne("nrf24_tx", "event", "send")

NRF24InterruptThread ==
    \/ /\ At("nrf24_irq", "start", "event")
       /\ esNRF24Interrupt' = EvtRegister(esNRF24Interrupt, "nrf24_irq")
       /\ UNCHANGED <<sch, esDS5Ready, epending, mtx, lwip_trp, devices, fault>>
    \/ chEvtWaitOne("nrf24_irq", "event", "handle")

\* A command line arrives, then its handler runs: udp_dest and udp_dest_get
\* use the mutex, net_config posts to the tcpip mailbox, the nrf_ commands
\* wait for transfers, exit ends the shell and any other line does nothing.
ShellThread ==
    \/ At("shell", "start", "line") /\ Block
    \/ \E n \in {"start", "lock", "post", "transfer", "exit"} :
          /\ EarlyCommands \/ pc["udp_server"] \notin {"start", "suspend", "mutex"}
          /\ At("shell", "line", n)
          /\ UNCHANGED <<sch, events, mtx, lwip_trp, devices, fault>>
    \/ At("shell", "line", "start") /\ UNCHANGED <<sch, events, mtx, lwip_trp, devices, fault>>
    \/ DestinationAccess("shell", "lock", "copy", "unlock", "start")
    \/ /\ At("shell", "post", "start")
       /\ IF mboxOn THEN Block
          ELSE /\ fault' = "mailbox"
               /\ UNCHANGED <<sch, events, mtx, lwip_trp, devices>>
    \/ At("shell", "exit", "start") /\ chThdExit

\* lwip_thread: tcpip_init, the network interface, then it resumes the caller
\* of lwipInit and lowers its own priority.
LwipThread ==
    \/ /\ At("lwip", "start", "netif")
       /\ mboxOn' = TRUE
       /\ UNCHANGED <<sch, events, mtx, lwip_trp, hid, irqOn, fault>>
    \/ At("lwip", "netif", "resume") /\ Block
    \/ /\ At("lwip", "resume", "prio")
       /\ sch' = IF lwip_trp = NoThread THEN sch ELSE Wakeup(sch, lwip_trp)
       /\ lwip_trp' = NoThread
       /\ UNCHANGED <<events, mtx, devices, fault>>
    \/ /\ At("lwip", "prio", "loop")
       /\ sch' = Reschedule([sch EXCEPT !.prio["lwip"] = LOWPRIO, !.real["lwip"] = LOWPRIO])
       /\ UNCHANGED <<events, mtx, lwip_trp, devices, fault>>
    \/ At("lwip", "loop", "loop") /\ Block

-----------------------------------------------------------------------------
(* Interrupts.                                                             *)

\* A sleep or a transfer ends.
Complete(t) ==
    /\ fault = "none"
    /\ sch.st[t] = "blocked"
    /\ sch' = Reschedule(ReadyBehind(sch, t))
    /\ UNCHANGED <<pc, events, mtx, lwip_trp, devices, fault>>

\* _hid_report_callback with a good report.
HidReport == fault = "none" /\ hid = "ready" /\ chEvtBroadcastI(esDS5Ready)

\* nrf24l01_interface_gpio_interrupt_callback.
GpioInterrupt == fault = "none" /\ irqOn /\ chEvtBroadcastI(esNRF24Interrupt)

-----------------------------------------------------------------------------

Init ==
    /\ sch = [cur |-> "main", ready |-> <<"idle">>,
              st |-> [t \in Thread |-> CASE t = "main" -> "current"
                                         [] t = "idle" -> "ready"
                                         [] OTHER -> "none"],
              prio |-> [t \in Thread |-> CreatePrio(t)],
              real |-> [t \in Thread |-> CreatePrio(t)]]
    /\ pc = [t \in Thread |-> IF t = "main" THEN MainOrder[1] ELSE "start"]
    /\ esDS5Ready = ZeroSource
    /\ esNRF24Interrupt = ZeroSource
    /\ epending = {}
    /\ mtx = ZeroMutex
    /\ lwip_trp = NoThread
    /\ hid = "off"
    /\ irqOn = FALSE
    /\ mboxOn = FALSE
    /\ fault = "none"

ThreadStep == Main \/ Thread1 \/ ThreadTestHID \/ UsbHostThread \/ UdpServerThread
              \/ NRF24TxThread \/ NRF24InterruptThread \/ DriverCall \/ ShellThread
              \/ LwipThread

Interrupt == HidReport \/ GpioInterrupt \/ \E t \in Thread : Complete(t)

Next == ThreadStep \/ Interrupt

Spec == Init /\ [][Next]_vars

-----------------------------------------------------------------------------
(* Properties.                                                             *)

\* The scheduler's books are right after every kernel call and interrupt: the
\* ready list holds each ready thread once, by falling priority, and nothing
\* in it has a higher priority than the thread that runs.
HighestRuns ==
    LET q == sch.ready
    IN /\ \A t \in Thread : sch.st[t] = "current" <=> t = sch.cur
       /\ \A t \in Thread :
             Cardinality({i \in DOMAIN q : q[i] = t}) = IF sch.st[t] = "ready" THEN 1 ELSE 0
       /\ \A i \in 2..Len(q) : sch.prio[q[i - 1]] >= sch.prio[q[i]]
       /\ q # <<>> => sch.prio[q[1]] <= sch.prio[sch.cur]

\* main completes its set-up, the table of thread monitors included, before
\* any thread of its own priority runs, whatever preempts it in between.
MainSetsUpFirst ==
    sch.st["shell"] = "none" =>
        \A t \in {"HID", "udp_server", "nrf24_tx"} : pc[t] = "start"

\* A thread that waits for EVT_DS5_READY can be woken: its listener is in the
\* list of esDS5Ready, that is, no chEvtObjectInit dropped it.
Ds5WaitersListed ==
    \A t \in {"udp_server", "nrf24_tx"} :
        sch.st[t] = "wtevt" => t \in Range(esDS5Ready.list)

\* lwip_thread resumes the caller of lwipInit only after that thread has
\* suspended itself, so the wake-up is not lost.
LwipResumesWaiter ==
    pc["lwip"] = "resume" => lwip_trp = "udp_server" /\ sch.st["udp_server"] = "suspended"

\* No priority inversion on udp_dest_mutex: its owner runs with at least the
\* priority of every thread that waits for it, and a waiting thread always
\* has an owner that will wake it.
OwnerInherits ==
    \A t \in Thread : sch.st[t] = "wtmtx" =>
        mtx.owner # NoThread /\ sch.prio[mtx.owner] >= sch.prio[t]

\* udp_dest_ip is never copied by two threads at once.
InCopy(t) == pc[t] \in {"first copy", "first unlock", "copy", "unlock"} /\ sch.st[t] # "wtmtx"

MutualExclusion == ~(InCopy("udp_server") /\ InCopy("shell"))

\* If no command is typed before the network is up, nothing is used before it
\* is initialised: neither event source, nor the mutex, nor the mailbox.
NothingUsedUninitialised == fault = "none"

\* What main.c says of udp_dest_mutex, that access to the destination is
\* thread-safe, for commands at any time: the mutex is ready when it is used.
MutexReadyWhenUsed == fault # "mutex"

\* What the comments of NRF24InterruptThread say: it is registered for the
\* interrupt event it waits for.
IrqWaiterListed ==
    sch.st["nrf24_irq"] = "wtevt" /\ esNRF24Interrupt.init =>
        "nrf24_irq" \in Range(esNRF24Interrupt.list)

=============================================================================
