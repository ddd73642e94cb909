-------------------------------- MODULE Nrf24 --------------------------------
(***************************************************************************)
(* The radio driver (nrf24l01.c, nrf24l01_basic.c) as the firmware uses    *)
(* it: nrf24_tx initialises the chip and sends, nrf24_irq handles the      *)
(* interrupt, the shell sets the address and the channel.  A register      *)
(* access is one step (RegFile); between two accesses any thread may run,  *)
(* for the caller sleeps during the transfer.  An access may fail, with or *)
(* without having reached the chip.                                        *)
(*                                                                         *)
(* The chip (external) sends the payloads of its queue while CE is high    *)
(* and reports in STATUS; the IRQ line falls when a flag is set whose      *)
(* interrupt is not masked.  After a reset of the processor alone the chip *)
(* still holds what it held.                                               *)
(*                                                                         *)
(* The firmware masks the chip's interrupts and sends without asking for   *)
(* an acknowledgment; the driver is also checked as its interface allows   *)
(* it to be used, with both, and with payloads in the acknowledgments.     *)
(***************************************************************************)
EXTENDS Integers, Sequences, FiniteSets

CONSTANTS
    Addr, TxAddr, RxAddr0,  \* addresses; nrf_tx_addr and the default of pipe 0
    Freq, DefaultFreq,
    FifoDepth,              \* payloads the chip's queue holds (three)
    MaxSends, MaxCmds, MaxFaults

ASSUME NrfAssumption ==
    /\ TxAddr \in Addr /\ RxAddr0 \in Addr /\ DefaultFreq \in Freq
    /\ FifoDepth \in Nat \ {0} /\ MaxSends \in Nat /\ MaxCmds \in Nat /\ MaxFaults \in Nat

None == "none"
Modes == {"firmware", "acked", "ack_payload"}
Thread == {"tx", "irq", "shell"}

VARIABLES
    mode,
    inited, finished,   \* gs_handle
    gs_tx_addr,         \* and gs_tx_addr_set: None while it is 0
    ce,                 \* the CE line
    chip,               \* external: registers, queue, and the payload on air
    evt, armed,         \* the interrupt event, and whether the line raises it
    pc, addr,           \* where each thread is, and the address nrf_addr sets
    step,               \* how far basic_init has come
    prev,               \* STATUS as irq_handler read it
    sends, cmds, faults,
    res,                \* what the last basic_send returned
    acked,              \* history: the receiver acknowledged the payload of this send
    meddled,            \* history: nrf_addr wrote an address during this send
    botched             \* history: deinit failed

handle == <<inited, finished>>
irqs == <<evt, armed, prev>>
bounds == <<sends, cmds>>
history == <<acked, meddled, botched>>
vars == <<mode, handle, gs_tx_addr, ce, chip, irqs, pc, addr, step, bounds, faults, res, history>>

UseAck == mode # "firmware"     \* the parameter use_ack of basic_send

Goto(t, l) == pc' = [pc EXCEPT ![t] = l]

\* One access through the SPI interface: c is the chip after it, good and bad
\* are where the thread goes on.
Access(t, c, good, bad) ==
    \/ chip' = c /\ Goto(t, good) /\ UNCHANGED faults
    \/ /\ faults < MaxFaults
       /\ faults' = faults + 1
       /\ chip' \in {chip, c}
       /\ Goto(t, bad)

-----------------------------------------------------------------------------
(* nrf24l01_basic_init and nrf24l01_deinit.                                *)

\* Fault: the queue is not flushed.
InitSteps_NoFlush ==
    <<"active_false", "pwr_up", "masks", "link", "rf_ch", "clear_interrupt", "payload",
      "rx_address", "active_true">>

\* The steps, with those that only choose the radio's link or payload formats
\* taken together.
InitSteps ==
    <<"active_false", "pwr_up", "masks", "link", "rf_ch", "clear_interrupt", "payload",
      "rx_address", "flush", "active_true">>

Configured == step > Len(InitSteps)

\* Fault: the interrupts are left enabled.
MaskBit_Clear == FALSE

\* set_config writes the bit it is given: TRUE masks the interrupt.
MaskBit == mode = "firmware"

\* The chip after a step.
AfterStep(s) ==
    CASE s = "pwr_up" -> [chip EXCEPT !.pwr = TRUE]
      [] s = "masks" -> [chip EXCEPT !.masked = MaskBit]
      [] s = "rf_ch" -> [chip EXCEPT !.RF_CH = DefaultFreq]
      [] s = "clear_interrupt" -> [chip EXCEPT !.status = {}]
      [] s = "rx_address" -> [chip EXCEPT !.RX_ADDR_P0 = RxAddr0]
      [] s = "flush" -> [chip EXCEPT !.fifo = <<>>]
      [] OTHER -> chip

\* nrf24l01_init: spiStart may fail.
nrf24l01_init ==
    /\ pc["tx"] = "init"
    /\ \/ /\ inited' = TRUE
          /\ Goto("tx", "config")
          /\ UNCHANGED faults
       \/ /\ faults < MaxFaults
          /\ faults' = faults + 1
          /\ Goto("tx", "arm")
          /\ UNCHANGED inited
    /\ UNCHANGED <<mode, finished, gs_tx_addr, ce, chip, irqs, addr, step, bounds, res, history>>

\* set_active only writes the CE line; every other step accesses the chip.
nrf24l01_basic_init ==
    /\ pc["tx"] = "config"
    /\ ~Configured
    /\ \/ /\ InitSteps[step] \in {"active_false", "active_true"}
          /\ ce' = (InitSteps[step] = "active_true")
          /\ step' = step + 1
          /\ Goto("tx", IF step = Len(InitSteps) THEN "arm" ELSE "config")
          /\ UNCHANGED <<chip, faults>>
       \/ /\ InitSteps[step] \notin {"active_false", "active_true"}
          /\ Access("tx", AfterStep(InitSteps[step]), "config", "deinit")
          /\ step' = IF faults' = faults THEN step + 1 ELSE step
          /\ UNCHANGED ce
    /\ UNCHANGED <<mode, handle, gs_tx_addr, irqs, addr, bounds, res, history>>

\* NOP, then PWR_UP is cleared; the handle stays open when an access fails.
nrf24l01_deinit ==
    /\ pc["tx"] = "deinit"
    /\ Access("tx", [chip EXCEPT !.pwr = FALSE], "arm", "arm")
    /\ inited' = (faults' # faults)
    /\ botched' = (faults' # faults)
    /\ UNCHANGED <<mode, finished, gs_tx_addr, ce, irqs, addr, step, bounds, res, acked,
                   meddled>>

\* The rest of NRF24TxThread's start: the line's event, and the address.
NRF24TxThread ==
    /\ pc["tx"] = "arm"
    /\ armed' = TRUE
    /\ Goto("tx", "set_width")
    /\ UNCHANGED <<mode, handle, gs_tx_addr, ce, chip, evt, prev, addr, step, bounds, faults, res, history>>

-----------------------------------------------------------------------------
(* Setting the address.  Labels of basic_set_tx_address start with set_,   *)
(* those of basic_send with send_.                                         *)

Idle(t) == IF t = "tx" THEN "loop" ELSE "idle"

\* basic_send returns an error when setting the address fails.
ResultOf(t, l) ==
    res' = IF l \in {"send_width", "send_tx", "send_width0", "send_p0"} /\ pc'[t] = Idle(t)
           THEN "fail" ELSE res

\* The address a thread sets; that of nrf_addr goes with the command.
AddressOf(t) == IF t = "tx" THEN TxAddr ELSE addr
AddrOnReturn == addr' = IF pc'["shell"] = "idle" THEN None ELSE addr

\* nrf24l01_set_tx_address and _set_rx_pipe_0_address read SETUP_AW first.
ReadWidth(t, l, next) ==
    /\ pc[t] = l
    /\ IF inited THEN Access(t, chip, next, Idle(t))
       ELSE Goto(t, Idle(t)) /\ UNCHANGED <<chip, faults>>
    /\ ResultOf(t, l)
    /\ AddrOnReturn
    /\ UNCHANGED <<mode, handle, gs_tx_addr, ce, irqs, step, bounds, history>>

WriteAddress(t, l, c, next) ==
    /\ pc[t] = l
    /\ Access(t, c, next, Idle(t))
    /\ ResultOf(t, l)
    /\ AddrOnReturn
    /\ meddled' = (meddled \/ t = "shell")
    /\ UNCHANGED <<mode, handle, gs_tx_addr, ce, irqs, step, bounds, acked, botched>>

SetAddress(t, at) ==
    \/ ReadWidth(t, at.width, at.tx)
    \/ WriteAddress(t, at.tx, [chip EXCEPT !.TX_ADDR = AddressOf(t)], at.width0)
    \/ ReadWidth(t, at.width0, at.p0)
    \/ WriteAddress(t, at.p0, [chip EXCEPT !.RX_ADDR_P0 = AddressOf(t)], at.done)

SetLabels == [width |-> "set_width", tx |-> "set_tx", width0 |-> "set_width0",
              p0 |-> "set_p0", done |-> "save"]
SendLabels == [width |-> "send_width", tx |-> "send_tx", width0 |-> "send_width0",
               p0 |-> "send_p0", done |-> "send"]

\* basic_set_tx_address saves the address after both registers are written.
SaveAddress(t) ==
    /\ pc[t] = "save"
    /\ gs_tx_addr' = AddressOf(t)
    /\ Goto(t, Idle(t))
    /\ AddrOnReturn
    /\ UNCHANGED <<mode, handle, ce, chip, irqs, step, bounds, faults, res, history>>

-----------------------------------------------------------------------------
(* nrf24l01_basic_send and nrf24l01_send.                                  *)

\* Fault: the radio stays active while the next packet is prepared.
nrf24l01_basic_send_StayActive ==
    /\ pc["tx"] = "loop"
    /\ sends < MaxSends
    /\ sends' = sends + 1
    /\ acked' = FALSE /\ meddled' = FALSE
    /\ IF inited THEN Goto("tx", "send_width") /\ res' = None
       ELSE res' = "fail" /\ UNCHANGED pc
    /\ UNCHANGED <<mode, handle, gs_tx_addr, ce, chip, irqs, addr, step, cmds, faults,
                   botched>>

\* A published report: set_active(FALSE), which needs the handle open.
nrf24l01_basic_send ==
    /\ pc["tx"] = "loop"
    /\ sends < MaxSends
    /\ sends' = sends + 1
    /\ acked' = FALSE /\ meddled' = FALSE
    /\ IF inited THEN ce' = FALSE /\ Goto("tx", "send_width") /\ res' = None
       ELSE res' = "fail" /\ UNCHANGED <<ce, pc>>
    /\ UNCHANGED <<mode, handle, gs_tx_addr, chip, irqs, addr, step, cmds, faults, botched>>

\* finished is cleared and CE lowered.
nrf24l01_send ==
    /\ pc["tx"] = "send"
    /\ IF inited THEN finished' = 0 /\ ce' = FALSE /\ Goto("tx", "load") /\ UNCHANGED res
       ELSE Goto("tx", "loop") /\ res' = "fail" /\ UNCHANGED <<finished, ce>>
    /\ UNCHANGED <<mode, inited, gs_tx_addr, chip, irqs, addr, step, bounds, faults, history>>

\* W_TX_PAYLOAD or W_TX_PAYLOAD_NO_ACK; a full queue takes nothing.
LoadPayload ==
    /\ pc["tx"] = "load"
    /\ LET q == IF Len(chip.fifo) < FifoDepth THEN Append(chip.fifo, sends) ELSE chip.fifo
       IN Access("tx", [chip EXCEPT !.fifo = q], "go", "loop")
    /\ res' = IF pc'["tx"] = "loop" THEN "fail" ELSE res
    /\ UNCHANGED <<mode, handle, gs_tx_addr, ce, irqs, addr, step, bounds, history>>

\* CE is raised; FEATURE is read and its result not looked at.
StartSending ==
    /\ pc["tx"] = "go"
    /\ ce' = TRUE
    /\ Access("tx", chip, "wait", "wait")
    /\ UNCHANGED <<mode, handle, gs_tx_addr, irqs, addr, step, bounds, res, history>>

\* Fault: the wait has no time limit.
Expired_Never == FALSE

\* The 5 s of the wait outlast a transmission and its interrupt's handling.
Expired ==
    /\ chip.flight = 0
    /\ ~(ce /\ chip.pwr /\ chip.fifo # <<>> /\ "MAX_RT" \notin chip.status)
    /\ pc["irq"] = "event" /\ ~evt

\* Fault: any end of the wait is a success.
Outcome_AnyEnd == "ok"

Outcome == IF finished = 1 THEN "ok" ELSE "fail"

\* Without acknowledgment the call succeeds at once.
EndOfSend ==
    /\ pc["tx"] = "wait"
    /\ \/ ~UseAck /\ res' = "ok"
       \/ UseAck /\ finished # 0 /\ res' = Outcome
       \/ UseAck /\ finished = 0 /\ Expired /\ res' = "timeout"
    /\ Goto("tx", "loop")
    /\ UNCHANGED <<mode, handle, gs_tx_addr, ce, chip, irqs, addr, step, bounds, faults, history>>

-----------------------------------------------------------------------------
(* NRF24InterruptThread and nrf24l01_irq_handler.                          *)

\* The event is taken; a handle that is not open ends the handler.
TakeEvent ==
    /\ pc["irq"] = "event"
    /\ evt
    /\ evt' = FALSE
    /\ IF inited THEN ce' = FALSE /\ Goto("irq", "status") ELSE UNCHANGED <<ce, pc>>
    /\ UNCHANGED <<mode, handle, gs_tx_addr, chip, armed, prev, addr, step, bounds, faults, res, history>>

\* Every way out of the handler raises CE; what was read as STATUS is local.
OnReturn(read) ==
    /\ ce' = IF pc'["irq"] = "event" THEN TRUE ELSE ce
    /\ prev' = IF pc'["irq"] = "event" THEN {} ELSE read

ReadStatus ==
    /\ pc["irq"] = "status"
    /\ Access("irq", chip, "clear", "event")
    /\ OnReturn(chip.status)
    /\ UNCHANGED <<mode, handle, gs_tx_addr, evt, armed, addr, step, bounds, res, history>>

\* Where the handler goes after the flags of the transmitter.
AfterFlags == IF "RX_DR" \in prev THEN "width" ELSE "event"

\* finished after MAX_RT and TX_DS are looked at, in this order.
Finish == IF "TX_DS" \in prev THEN 1 ELSE IF "MAX_RT" \in prev THEN 2 ELSE finished

\* Writing STATUS back clears the flags that were read.
ClearStatus ==
    /\ pc["irq"] = "clear"
    /\ LET next == IF "MAX_RT" \in prev THEN "flush" ELSE AfterFlags
           bad == faults' # faults
       IN /\ Access("irq", [chip EXCEPT !.status = @ \ prev], next, "event")
          /\ finished' = IF bad \/ next = "flush" THEN finished ELSE Finish
    /\ OnReturn(prev)
    /\ UNCHANGED <<mode, inited, gs_tx_addr, evt, armed, addr, step, bounds, res, history>>

\* Reaching the limit of retries leaves the payload in the queue.
FlushTx ==
    /\ pc["irq"] = "flush"
    /\ Access("irq", [chip EXCEPT !.fifo = <<>>], AfterFlags, "event")
    /\ finished' = IF faults' = faults THEN Finish ELSE finished
    /\ OnReturn(prev)
    /\ UNCHANGED <<mode, inited, gs_tx_addr, evt, armed, addr, step, bounds, res, history>>

\* The payload that came with an acknowledgment: its width, FLUSH_RX when the
\* width is over 32, and the payload, which the callback prints.
Receive ==
    /\ \E l \in {[at |-> "width", next |-> "payload"], [at |-> "width", next |-> "flush_rx"],
                 [at |-> "flush_rx", next |-> "payload"], [at |-> "payload", next |-> "event"]} :
          /\ pc["irq"] = l.at
          /\ Access("irq", chip, l.next, "event")
    /\ OnReturn(prev)
    /\ UNCHANGED <<mode, handle, gs_tx_addr, evt, armed, addr, step, bounds, res, history>>

-----------------------------------------------------------------------------
(* Shell commands.                                                         *)

cmd_nrf_addr(a) ==
    /\ pc["shell"] = "idle"
    /\ cmds < MaxCmds
    /\ cmds' = cmds + 1
    /\ addr' = a
    /\ Goto("shell", "set_width")
    /\ UNCHANGED <<mode, handle, gs_tx_addr, ce, chip, irqs, step, sends, faults, res, history>>

\* nrf24l01_set_channel_frequency: nothing else uses the bits of RF_CH, so its
\* read and its write are one access.  basic_init may still set its own.
cmd_nrf_channel(f) ==
    /\ pc["shell"] = "idle"
    /\ cmds < MaxCmds
    /\ cmds' = cmds + 1
    /\ IF inited THEN Access("shell", [chip EXCEPT !.RF_CH = f], "idle", "idle")
       ELSE UNCHANGED <<chip, pc, faults>>
    /\ UNCHANGED <<mode, handle, gs_tx_addr, ce, irqs, addr, step, sends, res, acked, meddled, botched>>

-----------------------------------------------------------------------------
(* The chip.                                                               *)

Driver == <<mode, handle, gs_tx_addr, ce, armed, prev, pc, addr, step, bounds, faults, res>>

\* A payload goes on air, to the address the register holds at this moment.
StartOnAir ==
    /\ ce /\ chip.pwr /\ chip.fifo # <<>> /\ chip.flight = 0
    /\ "MAX_RT" \notin chip.status
    /\ chip' = [chip EXCEPT !.flight = Head(chip.fifo)]
    /\ UNCHANGED <<Driver, evt, history>>

\* The transmission ends, also when CE has been lowered in the meantime.
EndOnAir ==
    /\ chip.flight # 0
    /\ \E f \in {{"TX_DS"}} \cup (IF UseAck THEN {{"MAX_RT"}} ELSE {})
                 \cup (IF mode = "ack_payload" THEN {{"TX_DS", "RX_DR"}} ELSE {}) :
          /\ chip' = [chip EXCEPT !.flight = 0, !.status = @ \cup f,
                                  !.fifo = IF "TX_DS" \in f /\ @ # <<>> THEN Tail(@) ELSE @]
          /\ acked' = (acked \/ (UseAck /\ "TX_DS" \in f /\ chip.flight = sends))
          /\ evt' = (evt \/ (armed /\ ~chip.masked /\ chip.status = {}))
    /\ UNCHANGED <<Driver, meddled, botched>>

-----------------------------------------------------------------------------
\* The chip after power on, and as a reset of the processor alone may leave it:
\* a payload of the earlier run, numbered -1, is in its queue.
PowerOn == [TX_ADDR |-> None, RX_ADDR_P0 |-> None, RF_CH |-> None, pwr |-> FALSE,
            masked |-> FALSE, status |-> {}, fifo |-> <<>>, flight |-> 0]
WarmStart == [TX_ADDR |-> TxAddr, RX_ADDR_P0 |-> TxAddr, RF_CH |-> DefaultFreq, pwr |-> TRUE,
              masked |-> TRUE, status |-> {"TX_DS"}, fifo |-> <<-1>>, flight |-> 0]

Init ==
    /\ inited = FALSE /\ finished = 0 /\ gs_tx_addr = None
    /\ ce = TRUE        \* the board file drives CE high
    /\ mode \in Modes
    /\ chip \in {PowerOn} \cup (IF mode = "firmware" THEN {WarmStart} ELSE {})
    /\ evt = FALSE /\ armed = FALSE /\ prev = {}
    /\ pc = [t \in Thread |-> CASE t = "tx" -> "init" [] t = "irq" -> "event" [] OTHER -> "idle"]
    /\ addr = None
    /\ step = 1 /\ sends = 0 /\ cmds = 0 /\ faults = 0
    /\ res = None /\ acked = FALSE /\ meddled = FALSE /\ botched = FALSE

TxThread ==
    \/ nrf24l01_init \/ nrf24l01_basic_init \/ nrf24l01_deinit \/ NRF24TxThread
    \/ SetAddress("tx", SetLabels) \/ SaveAddress("tx")
    \/ nrf24l01_basic_send \/ SetAddress("tx", SendLabels)
    \/ nrf24l01_send \/ LoadPayload \/ StartSending \/ EndOfSend

IrqThread == TakeEvent \/ ReadStatus \/ ClearStatus \/ FlushTx \/ Receive

Shell ==
    \/ \E a \in Addr : cmd_nrf_addr(a)
    \/ \E f \in Freq : cmd_nrf_channel(f)
    \/ SetAddress("shell", SetLabels) \/ SaveAddress("shell")

OnAir == StartOnAir \/ EndOnAir

Next == TxThread \/ IrqThread \/ Shell \/ OnAir

Spec == Init /\ [][Next]_vars

\* Threads that can run are scheduled, and the chip works on.
LiveSpec == Spec /\ WF_vars(TxThread) /\ WF_vars(IrqThread) /\ WF_vars(Shell) /\ WF_vars(OnAir)

-----------------------------------------------------------------------------
\* While the firmware's nrf24l01_basic_send changes the addresses and loads the
\* payload the chip is inactive: no packet starts half prepared.  Only the masked
\* interrupts keep nrf24l01_irq_handler from raising CE in between, so the
\* exception is an initialisation whose deinit failed as well.
QuietWhileLoading ==
    mode = "firmware" /\ ~botched
    /\ pc["tx"] \in {"send_width", "send_tx", "send_width0", "send_p0", "send", "load", "go"}
        => ~ce

\* Every payload of the firmware goes out to the address nrf24_tx passes, with
\* the same address on the pipe of its acknowledgment, whatever nrf_addr set
\* before the send and whatever accesses failed: nrf24l01_basic_send writes both
\* registers while the chip is inactive.  A command that writes during the send
\* is the exception.
AddressedRight ==
    [][mode = "firmware" /\ StartOnAir /\ Head(chip.fifo) # -1 =>
          botched \/ meddled \/ (chip.TX_ADDR = TxAddr /\ chip.RX_ADDR_P0 = TxAddr)]_vars

\* From the start of basic_init only a completely configured chip transmits,
\* and never a payload of before the reset: a failed step closes the handle.
\* The exception is a failure of deinit itself.
OnlyConfiguredSends ==
    [][StartOnAir => botched \/ step = 1 \/ (Configured /\ Head(chip.fifo) # -1)]_vars

\* A send with acknowledgment returns 0 exactly when its payload, not an earlier
\* one, was acknowledged: finished and the queue follow the interrupts.
ResultTrue ==
    mode = "acked" /\ faults = 0 /\ pc["tx"] = "loop" =>
        /\ res = "ok" => acked
        /\ res = "fail" => ~acked

\* Every basic_send returns, whether or not an acknowledgment or an interrupt
\* comes.
SendEnds == pc["tx"] = "send" ~> pc["tx"] = "loop"

=============================================================================
