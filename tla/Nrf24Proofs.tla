----------------------------- MODULE Nrf24Proofs -----------------------------
(***************************************************************************)
(* Proofs about Nrf24, for any addresses, channels, depth of the queue and *)
(* number of sends, commands and failing accesses.                         *)
(***************************************************************************)
EXTENDS Nrf24, TLAPS

StartLabels == {"init", "config", "deinit", "arm"}
SetTxLabels == {"set_width", "set_tx", "set_width0", "set_p0", "save"}
SendingLabels == {"send_width", "send_tx", "send_width0", "send_p0", "send", "load", "go"}
TxLabels == StartLabels \cup SetTxLabels \cup SendingLabels \cup {"loop", "wait"}
IrqLabels == {"event", "status", "clear", "flush", "width", "flush_rx", "payload"}
ShellLabels == {"idle"} \cup SetTxLabels
Labels == TxLabels \cup IrqLabels \cup ShellLabels
Flags == {"TX_DS", "MAX_RT", "RX_DR"}

Chips == [TX_ADDR : Addr \cup {None}, RX_ADDR_P0 : Addr \cup {None}, RF_CH : Freq \cup {None},
          pwr : BOOLEAN, masked : BOOLEAN, status : SUBSET Flags, fifo : Seq(Int), flight : Int]

\* The types the proofs rest on; nrf_addr has an address until it returns.
TypeOK ==
    /\ chip \in Chips
    /\ pc \in [Thread -> Labels]
    /\ pc["tx"] \in TxLabels /\ pc["irq"] \in IrqLabels /\ pc["shell"] \in ShellLabels
    /\ addr \in Addr \cup {None} /\ (pc["shell"] # "idle" => addr \in Addr)
    /\ step \in 1..11 /\ sends \in Nat /\ faults \in Nat

\* How far the initialisation has come, and what holds from there on.  Until the
\* line's event is set up the interrupt thread waits; afterwards an open handle
\* is that of a configured chip, unless deinit failed.
StartInv ==
    /\ pc["tx"] = "init" => step = 1 /\ ~inited
    /\ pc["tx"] \in {"config", "deinit"} => step < 11 /\ inited
    /\ pc["tx"] \in {"init", "config", "deinit"} => ~botched
    /\ pc["tx"] \notin {"init", "config", "deinit"} /\ inited /\ ~botched => step = 11
    /\ pc["tx"] \in StartLabels => ~armed /\ ~evt /\ pc["irq"] = "event"
    /\ pc["irq"] # "event" \/ pc["tx"] \in SendingLabels \cup {"wait"} => inited
    /\ step > 3 => (chip.masked <=> MaskBit)
    /\ step > 9 => \A i \in 1..Len(chip.fifo) : chip.fifo[i] # -1
    /\ ~botched /\ step > 1 /\ step < 11 => ~ce

\* With its interrupts masked the chip never starts the handler.
QuietInv ==
    mode = "firmware" /\ ~botched =>
        /\ pc["irq"] = "event"
        /\ inited => ~evt
        /\ pc["tx"] \in SendingLabels => ~ce

\* A payload of this run is in the queue of an active chip only after both
\* addresses have been written for it.
AddrInv ==
    mode = "firmware" /\ ~botched =>
        /\ pc["tx"] \in StartLabels \cup SetTxLabels \/ ~inited =>
              \A i \in 1..Len(chip.fifo) : chip.fifo[i] = -1
        /\ ~meddled =>
            /\ pc["tx"] \in {"send_width0", "send_p0"} => chip.TX_ADDR = TxAddr
            /\ \/ pc["tx"] \in {"send", "load", "go"}
               \/ /\ pc["tx"] \in {"wait", "loop"} /\ ce
                  /\ \E i \in 1..Len(chip.fifo) : chip.fifo[i] # -1
               => chip.TX_ADDR = TxAddr /\ chip.RX_ADDR_P0 = TxAddr

\* Nothing is under way.
Quiet == /\ chip.fifo = <<>> /\ chip.flight = 0 /\ chip.status = {}
         /\ ~evt /\ pc["irq"] = "event"

\* The payload of this send is in the queue, or on air.
Queued == /\ chip.fifo = <<sends>> /\ chip.flight \in {0, sends} /\ chip.status = {}
          /\ ~evt /\ pc["irq"] = "event" /\ ~acked

\* It has been sent or given up, and the handler has not yet said so.
Ended ==
    /\ chip.flight = 0
    /\ \E f \in {"TX_DS", "MAX_RT"} :
        /\ acked <=> f = "TX_DS"
        /\ chip.fifo = IF f = "TX_DS" THEN <<>> ELSE <<sends>>
        /\ \/ pc["irq"] = "event" /\ evt /\ chip.status = {f}
           \/ pc["irq"] = "status" /\ ~evt /\ ~ce /\ chip.status = {f}
           \/ pc["irq"] = "clear" /\ ~evt /\ ~ce /\ chip.status = {f} /\ prev = {f}
           \/ pc["irq"] = "flush" /\ ~evt /\ ~ce /\ chip.status = {} /\ prev = {f} /\ f = "MAX_RT"

\* Sending with acknowledgment, step by step, when no access fails.
ResultInv ==
    mode = "acked" /\ faults = 0 =>
        /\ pc["tx"] # "deinit" /\ ~botched
        /\ pc["tx"] # "init" => inited
        /\ step > 2 => chip.pwr
        /\ pc["tx"] \notin StartLabels => armed
        /\ pc["tx"] \notin {"go", "wait"} => Quiet
        /\ pc["tx"] \in SendingLabels => ~acked
        /\ pc["tx"] \in {"load", "go"} => finished = 0 /\ ~ce
        /\ pc["tx"] = "go" => Queued /\ chip.flight = 0
        /\ pc["tx"] = "wait" =>
            \/ finished \in {1, 2} /\ Quiet /\ (finished = 1 <=> acked)
            \/ finished = 0 /\ ((Queued /\ ce) \/ Ended)
        /\ pc["tx"] # "loop" => res = None
        /\ pc["tx"] = "loop" => (res = "ok" => acked) /\ (res = "fail" => ~acked)

IInv == TypeOK /\ StartInv /\ QuietInv /\ AddrInv /\ ResultInv

-----------------------------------------------------------------------------
(* Lemmas.                                                                 *)

\* An access changes the chip and the count of failures, and sends its thread one
\* of two ways.
LEMMA AccessResult ==
    ASSUME TypeOK, NEW t \in Thread, NEW c \in Chips, NEW good \in Labels, NEW bad \in Labels,
           Access(t, c, good, bad)
    PROVE  /\ chip' \in Chips /\ faults' \in Nat /\ pc' \in [Thread -> Labels]
           /\ \A u \in Thread \ {t} : pc'[u] = pc[u]
           /\ \/ chip' = c /\ pc'[t] = good /\ faults' = faults
              \/ chip' \in {chip, c} /\ pc'[t] = bad /\ faults' = faults + 1
<1>1. chip' \in Chips /\ faults' \in Nat
  BY DEF Access, TypeOK
<1>2. CASE chip' = c /\ Goto(t, good) /\ UNCHANGED faults
  BY Zenon, <1>1, <1>2 DEF Goto, TypeOK
<1>3. CASE faults' = faults + 1 /\ chip' \in {chip, c} /\ Goto(t, bad)
  BY Zenon, <1>1, <1>3 DEF Goto, TypeOK
<1> QED
  BY Zenon, <1>2, <1>3 DEF Access

\* The same, thread by thread.
LEMMA TxAccess ==
    ASSUME TypeOK, NEW c \in Chips, NEW good \in TxLabels, NEW bad \in TxLabels,
           Access("tx", c, good, bad)
    PROVE  /\ chip' \in Chips /\ faults' \in Nat /\ pc' \in [Thread -> Labels]
           /\ pc'["irq"] = pc["irq"] /\ pc'["shell"] = pc["shell"]
           /\ \/ chip' = c /\ pc'["tx"] = good /\ faults' = faults
              \/ chip' \in {chip, c} /\ pc'["tx"] = bad /\ faults' = faults + 1
<1>1. "tx" \in Thread /\ {"irq", "shell"} \subseteq Thread \ {"tx"}
  BY Zenon DEF Thread
<1>2. good \in Labels /\ bad \in Labels
  BY Zenon DEF Labels
<1> QED
  BY Zenon, <1>1, <1>2, AccessResult

LEMMA IrqAccess ==
    ASSUME TypeOK, NEW c \in Chips, NEW good \in IrqLabels, NEW bad \in IrqLabels,
           Access("irq", c, good, bad)
    PROVE  /\ chip' \in Chips /\ faults' \in Nat /\ pc' \in [Thread -> Labels]
           /\ pc'["tx"] = pc["tx"] /\ pc'["shell"] = pc["shell"]
           /\ \/ chip' = c /\ pc'["irq"] = good /\ faults' = faults
              \/ chip' \in {chip, c} /\ pc'["irq"] = bad /\ faults' = faults + 1
<1>1. "irq" \in Thread /\ {"tx", "shell"} \subseteq Thread \ {"irq"}
  BY Zenon DEF Thread
<1>2. good \in Labels /\ bad \in Labels
  BY Zenon DEF Labels
<1> QED
  BY Zenon, <1>1, <1>2, AccessResult

LEMMA ShellAccess ==
    ASSUME TypeOK, NEW c \in Chips, NEW good \in ShellLabels, NEW bad \in ShellLabels,
           Access("shell", c, good, bad)
    PROVE  /\ chip' \in Chips /\ faults' \in Nat /\ pc' \in [Thread -> Labels]
           /\ pc'["tx"] = pc["tx"] /\ pc'["irq"] = pc["irq"]
           /\ \/ chip' = c /\ pc'["shell"] = good /\ faults' = faults
              \/ chip' \in {chip, c} /\ pc'["shell"] = bad /\ faults' = faults + 1
<1>1. "shell" \in Thread /\ {"tx", "irq"} \subseteq Thread \ {"shell"}
  BY Zenon DEF Thread
<1>2. good \in Labels /\ bad \in Labels
  BY Zenon DEF Labels
<1> QED
  BY Zenon, <1>1, <1>2, AccessResult

\* A jump moves one thread.
LEMMA GotoResult ==
    ASSUME TypeOK, NEW t \in Thread, NEW l \in Labels, Goto(t, l)
    PROVE  pc' \in [Thread -> Labels] /\ pc'[t] = l /\ \A u \in Thread \ {t} : pc'[u] = pc[u]
  BY Zenon DEF Goto, TypeOK

\* What is written to one field of the chip leaves the others.
Wrote(c, field, v) ==
    /\ c \in Chips
    /\ c.TX_ADDR = IF field = "TX_ADDR" THEN v ELSE chip.TX_ADDR
    /\ c.RX_ADDR_P0 = IF field = "RX_ADDR_P0" THEN v ELSE chip.RX_ADDR_P0
    /\ c.pwr = IF field = "pwr" THEN v ELSE chip.pwr
    /\ c.masked = IF field = "masked" THEN v ELSE chip.masked
    /\ c.status = IF field = "status" THEN v ELSE chip.status
    /\ c.fifo = IF field = "fifo" THEN v ELSE chip.fifo
    /\ c.flight = IF field = "flight" THEN v ELSE chip.flight

LEMMA ChipWrite ==
    ASSUME TypeOK
    PROVE
        /\ \A v \in Addr : Wrote([chip EXCEPT !.TX_ADDR = v], "TX_ADDR", v)
        /\ \A v \in Addr : Wrote([chip EXCEPT !.RX_ADDR_P0 = v], "RX_ADDR_P0", v)
        /\ \A v \in Freq : Wrote([chip EXCEPT !.RF_CH = v], "RF_CH", v)
        /\ \A v \in BOOLEAN : Wrote([chip EXCEPT !.pwr = v], "pwr", v)
        /\ \A v \in BOOLEAN : Wrote([chip EXCEPT !.masked = v], "masked", v)
        /\ \A v \in SUBSET Flags : Wrote([chip EXCEPT !.status = v], "status", v)
        /\ \A v \in Seq(Int) : Wrote([chip EXCEPT !.fifo = v], "fifo", v)
        /\ \A v \in Int : Wrote([chip EXCEPT !.flight = v], "flight", v)
<1>0. chip \in Chips
  BY Zenon DEF TypeOK
<1>1. ASSUME NEW v \in Addr, NEW c, c = [chip EXCEPT !.TX_ADDR = v] PROVE Wrote(c, "TX_ADDR", v)
  <2>1. c \in Chips
    BY Zenon, <1>0, <1>1 DEF Chips
  <2>2. Wrote(c, "TX_ADDR", v)
    BY Zenon, <2>1, <1>0, <1>1 DEF Chips, Wrote
  <2> QED
    BY Zenon, <2>2
<1>2. ASSUME NEW v \in Addr, NEW c, c = [chip EXCEPT !.RX_ADDR_P0 = v] PROVE Wrote(c, "RX_ADDR_P0", v)
  <2>1. c \in Chips
    BY Zenon, <1>0, <1>2 DEF Chips
  <2>2. Wrote(c, "RX_ADDR_P0", v)
    BY Zenon, <2>1, <1>0, <1>2 DEF Chips, Wrote
  <2> QED
    BY Zenon, <2>2
<1>3. ASSUME NEW v \in Freq, NEW c, c = [chip EXCEPT !.RF_CH = v] PROVE Wrote(c, "RF_CH", v)
  <2>1. c \in Chips
    BY Zenon, <1>0, <1>3 DEF Chips
  <2>2. Wrote(c, "RF_CH", v)
    BY Zenon, <2>1, <1>0, <1>3 DEF Chips, Wrote
  <2> QED
    BY Zenon, <2>2
<1>4. ASSUME NEW v \in BOOLEAN, NEW c, c = [chip EXCEPT !.pwr = v] PROVE Wrote(c, "pwr", v)
  <2>1. c \in Chips
    BY Zenon, <1>0, <1>4 DEF Chips
  <2>2. Wrote(c, "pwr", v)
    BY Zenon, <2>1, <1>0, <1>4 DEF Chips, Wrote
  <2> QED
    BY Zenon, <2>2
<1>5. ASSUME NEW v \in BOOLEAN, NEW c, c = [chip EXCEPT !.masked = v] PROVE Wrote(c, "masked", v)
  <2>1. c \in Chips
    BY Zenon, <1>0, <1>5 DEF Chips
  <2>2. Wrote(c, "masked", v)
    BY Zenon, <2>1, <1>0, <1>5 DEF Chips, Wrote
  <2> QED
    BY Zenon, <2>2
<1>6. ASSUME NEW v \in SUBSET Flags, NEW c, c = [chip EXCEPT !.status = v] PROVE Wrote(c, "status", v)
  <2>1. c \in Chips
    BY Zenon, <1>0, <1>6 DEF Chips
  <2>2. Wrote(c, "status", v)
    BY Zenon, <2>1, <1>0, <1>6 DEF Chips, Wrote
  <2> QED
    BY Zenon, <2>2
<1>7. ASSUME NEW v \in Seq(Int), NEW c, c = [chip EXCEPT !.fifo = v] PROVE Wrote(c, "fifo", v)
  <2>1. c \in Chips
    BY Zenon, <1>0, <1>7 DEF Chips
  <2>2. Wrote(c, "fifo", v)
    BY Zenon, <2>1, <1>0, <1>7 DEF Chips, Wrote
  <2> QED
    BY Zenon, <2>2
<1>8. ASSUME NEW v \in Int, NEW c, c = [chip EXCEPT !.flight = v] PROVE Wrote(c, "flight", v)
  <2>1. c \in Chips
    BY Zenon, <1>0, <1>8 DEF Chips
  <2>2. Wrote(c, "flight", v)
    BY Zenon, <2>1, <1>0, <1>8 DEF Chips, Wrote
  <2> QED
    BY Zenon, <2>2
<1> QED
  BY Zenon, <1>1, <1>2, <1>3, <1>4, <1>5, <1>6, <1>7, <1>8
\* A step of basic_init writes at most one field.
LEMMA AfterStepResult ==
    ASSUME TypeOK, step < 11, NEW c, c = AfterStep(InitSteps[step])
    PROVE  /\ c \in Chips
           /\ c.flight = chip.flight /\ c.TX_ADDR = chip.TX_ADDR
           /\ IF step = 2 THEN c.pwr ELSE c.pwr = chip.pwr
           /\ IF step = 3 THEN c.masked <=> MaskBit ELSE c.masked = chip.masked
           /\ c.status = IF step = 6 THEN {} ELSE chip.status
           /\ c.fifo = IF step = 9 THEN <<>> ELSE chip.fifo
<1>1. step \in 1..10 /\ chip \in Chips
  BY DEF TypeOK
<1>2. CASE step = 1 \/ step = 4 \/ step = 7 \/ step = 10
  <2>1. InitSteps[step] \in {"active_false", "link", "payload", "active_true"}
    BY <1>2 DEF InitSteps
  <2>2. c = chip
    BY Zenon, <2>1 DEF AfterStep
  <2> QED
    BY <2>2, <1>1, <1>2
<1>3. CASE step = 2
  <2>1. c = [chip EXCEPT !.pwr = TRUE]
    BY Zenon, <1>3 DEF AfterStep, InitSteps
  <2>2. Wrote(c, "pwr", TRUE)
    BY Zenon, <2>1, ChipWrite
  <2> QED
    BY <2>2, <1>3 DEF Wrote
<1>4. CASE step = 3
  <2>1. c = [chip EXCEPT !.masked = MaskBit] /\ MaskBit \in BOOLEAN
    BY Zenon, <1>4 DEF AfterStep, InitSteps, MaskBit
  <2>2. Wrote(c, "masked", MaskBit)
    BY Zenon, <2>1, ChipWrite
  <2> QED
    BY <2>2, <1>4 DEF Wrote
<1>5. CASE step = 5
  <2>1. c = [chip EXCEPT !.RF_CH = DefaultFreq]
    BY Zenon, <1>5 DEF AfterStep, InitSteps
  <2>2. Wrote(c, "RF_CH", DefaultFreq)
    BY Zenon, <2>1, ChipWrite, NrfAssumption
  <2> QED
    BY <2>2, <1>5 DEF Wrote
<1>6. CASE step = 6
  <2>1. c = [chip EXCEPT !.status = {}]
    BY Zenon, <1>6 DEF AfterStep, InitSteps
  <2>2. Wrote(c, "status", {})
    BY Zenon, <2>1, ChipWrite
  <2> QED
    BY <2>2, <1>6 DEF Wrote
<1>7. CASE step = 8
  <2>1. c = [chip EXCEPT !.RX_ADDR_P0 = RxAddr0]
    BY Zenon, <1>7 DEF AfterStep, InitSteps
  <2>2. Wrote(c, "RX_ADDR_P0", RxAddr0)
    BY Zenon, <2>1, ChipWrite, NrfAssumption
  <2> QED
    BY <2>2, <1>7 DEF Wrote
<1>8. CASE step = 9
  <2>1. c = [chip EXCEPT !.fifo = <<>>] /\ <<>> \in Seq(Int)
    BY <1>8 DEF AfterStep, InitSteps
  <2>2. Wrote(c, "fifo", <<>>)
    BY Zenon, <2>1, ChipWrite
  <2> QED
    BY <2>2, <1>8 DEF Wrote
<1> QED
  <2>1. \/ step = 1 \/ step = 2 \/ step = 3 \/ step = 4 \/ step = 5
        \/ step = 6 \/ step = 7 \/ step = 8 \/ step = 9 \/ step = 10
    BY <1>1
  <2> QED
    BY Zenon, <2>1, <1>2, <1>3, <1>4, <1>5, <1>6, <1>7, <1>8

-----------------------------------------------------------------------------
(* Every step keeps the invariant.                                         *)

\* nrf24l01_init opens the handle or fails.
LEMMA InitStep == IInv /\ nrf24l01_init => IInv'
<1> SUFFICES ASSUME IInv, nrf24l01_init PROVE IInv'
  BY Zenon
<1> USE DEF IInv, Thread, Labels, TxLabels, IrqLabels, ShellLabels, StartLabels, SetTxLabels, SendingLabels
<1>1. /\ pc' \in [Thread -> Labels] /\ pc["tx"] = "init"
      /\ pc'["irq"] = pc["irq"] /\ pc'["shell"] = pc["shell"]
      /\ \/ pc'["tx"] = "config" /\ inited' /\ faults' = faults
         \/ pc'["tx"] = "arm" /\ inited' = inited /\ faults' = faults + 1
  BY Zenon, GotoResult DEF nrf24l01_init
<1> USE DEF nrf24l01_init, irqs, bounds, history
<1>2. TypeOK'
  BY <1>1 DEF TypeOK
<1>3. StartInv'
  BY <1>1 DEF TypeOK, StartInv, MaskBit
<1>4. QuietInv'
  BY Zenon, <1>1 DEF StartInv, QuietInv
<1>5. AddrInv'
  BY Zenon, <1>1 DEF AddrInv
<1>6. ResultInv'
  BY <1>1 DEF TypeOK, ResultInv, Quiet
<1> QED
  BY Zenon, <1>2, <1>3, <1>4, <1>5, <1>6

\* basic_init configures the chip step by step, inactive from the first one on.
LEMMA ConfigStep == IInv /\ nrf24l01_basic_init => IInv'
<1> SUFFICES ASSUME IInv, nrf24l01_basic_init PROVE IInv'
  BY Zenon
<1> USE DEF IInv, Thread, Labels, TxLabels, IrqLabels, ShellLabels, StartLabels, SetTxLabels, SendingLabels
<1>1. step \in 1..10 /\ Len(InitSteps) = 10 /\ pc["tx"] = "config"
  BY DEF nrf24l01_basic_init, Configured, InitSteps, TypeOK
<1>2. CASE InitSteps[step] \in {"active_false", "active_true"}
  <2>1. /\ pc' \in [Thread -> Labels] /\ pc'["irq"] = pc["irq"] /\ pc'["shell"] = pc["shell"]
        /\ pc'["tx"] = IF step = 10 THEN "arm" ELSE "config"
    BY Zenon, <1>1, <1>2, GotoResult DEF nrf24l01_basic_init
  <2>2. (step = 1 /\ ~ce') \/ (step = 10 /\ ce')
    <3>1. \/ step = 1 /\ InitSteps[step] = "active_false"
          \/ step = 10 /\ InitSteps[step] = "active_true"
      BY <1>1, <1>2 DEF InitSteps
    <3> QED
      BY Zenon, <3>1, <1>2 DEF nrf24l01_basic_init
  <2>3. chip' = chip /\ faults' = faults /\ step' = step + 1
    BY Zenon, <1>2 DEF nrf24l01_basic_init
  <2>4. UNCHANGED <<mode, handle, gs_tx_addr, irqs, addr, bounds, res, history>>
    BY Zenon DEF nrf24l01_basic_init
  <2> USE <1>1, <2>1, <2>2, <2>3, <2>4 DEF handle, irqs, bounds, history
  <2>5. TypeOK'
    BY DEF TypeOK
  <2>6. StartInv'
    BY DEF TypeOK, StartInv, MaskBit
  <2>7. QuietInv'
    BY Zenon DEF QuietInv
  <2>8. AddrInv'
    BY Zenon DEF AddrInv
  <2>9. ResultInv'
    BY DEF TypeOK, ResultInv, Quiet
  <2> QED
    BY Zenon, <2>5, <2>6, <2>7, <2>8, <2>9
<1>3. CASE InitSteps[step] \notin {"active_false", "active_true"}
  <2> DEFINE c == AfterStep(InitSteps[step])
  <2>1. step \in 2..9
    BY <1>1, <1>3 DEF InitSteps
  <2>2. Access("tx", c, "config", "deinit")
    BY Zenon, <1>3 DEF nrf24l01_basic_init
  <2>3. /\ c \in Chips /\ c.flight = chip.flight
        /\ IF step = 2 THEN c.pwr ELSE c.pwr = chip.pwr
        /\ IF step = 3 THEN c.masked <=> MaskBit ELSE c.masked = chip.masked
        /\ c.status = IF step = 6 THEN {} ELSE chip.status
        /\ c.fifo = IF step = 9 THEN <<>> ELSE chip.fifo
    BY <1>1, AfterStepResult
  <2> HIDE DEF c
  <2>4. /\ chip' \in Chips /\ faults' \in Nat /\ pc' \in [Thread -> Labels]
        /\ pc'["irq"] = pc["irq"] /\ pc'["shell"] = pc["shell"]
        /\ \/ chip' = c /\ pc'["tx"] = "config" /\ faults' = faults /\ step' = step + 1
           \/ chip' \in {chip, c} /\ pc'["tx"] = "deinit" /\ faults' = faults + 1 /\ step' = step
    <3>1. step' = IF faults' = faults THEN step + 1 ELSE step
      BY Zenon, <1>3 DEF nrf24l01_basic_init
    <3>2. "config" \in TxLabels /\ "deinit" \in TxLabels
      BY Zenon
    <3>3. /\ chip' \in Chips /\ faults' \in Nat /\ pc' \in [Thread -> Labels]
          /\ pc'["irq"] = pc["irq"] /\ pc'["shell"] = pc["shell"]
          /\ \/ chip' = c /\ pc'["tx"] = "config" /\ faults' = faults
             \/ chip' \in {chip, c} /\ pc'["tx"] = "deinit" /\ faults' = faults + 1
      BY Zenon, <2>2, <2>3, <3>2, TxAccess
    <3> QED
      BY <3>1, <3>3 DEF TypeOK
  <2>5. UNCHANGED <<ce, mode, handle, gs_tx_addr, irqs, addr, bounds, res, history>>
    BY Zenon, <1>3 DEF nrf24l01_basic_init
  <2> USE <1>1, <2>1, <2>4, <2>5 DEF handle, irqs, bounds, history
  <2>6. TypeOK'
    BY DEF TypeOK
  <2>7. StartInv'
    BY <2>3 DEF TypeOK, StartInv, MaskBit
  <2>8. QuietInv'
    BY Zenon DEF QuietInv
  <2>9. AddrInv'
    BY <2>3 DEF AddrInv
  <2>10. ResultInv'
    BY <2>3 DEF TypeOK, ResultInv, Quiet
  <2> QED
    BY Zenon, <2>6, <2>7, <2>8, <2>9, <2>10
<1> QED
  BY Zenon, <1>2, <1>3

\* deinit closes the handle, unless it fails.
LEMMA DeinitStep == IInv /\ nrf24l01_deinit => IInv'
<1> SUFFICES ASSUME IInv, nrf24l01_deinit PROVE IInv'
  BY Zenon
<1> DEFINE c == [chip EXCEPT !.pwr = FALSE]
<1>1. Wrote(c, "pwr", FALSE)
  BY Zenon, ChipWrite DEF IInv
<1>2. Access("tx", c, "arm", "arm") /\ pc["tx"] = "deinit"
  BY Zenon DEF nrf24l01_deinit
<1> HIDE DEF c
<1>3. /\ chip' \in Chips /\ chip' \in {chip, c} /\ faults' \in {faults, faults + 1}
      /\ pc' \in [Thread -> Labels]
      /\ pc'["tx"] = "arm" /\ pc'["irq"] = pc["irq"] /\ pc'["shell"] = pc["shell"]
  <2>1. "arm" \in TxLabels /\ c \in Chips
    BY Zenon, <1>1 DEF TxLabels, StartLabels, Wrote
  <2> QED
    BY Zenon, <2>1, <1>2, TxAccess DEF IInv
<1> USE DEF IInv, Thread, Labels, TxLabels, IrqLabels, ShellLabels, StartLabels, SetTxLabels, SendingLabels
<1>4. chip'.masked = chip.masked /\ chip'.fifo = chip.fifo
  BY Zenon, <1>1, <1>3 DEF Wrote
<1>5. /\ inited' = botched'
      /\ UNCHANGED <<mode, finished, gs_tx_addr, ce, irqs, addr, step, bounds, res, acked, meddled>>
  BY Zenon DEF nrf24l01_deinit
<1> USE <1>2, <1>3, <1>4, <1>5 DEF irqs, bounds
<1>6. TypeOK'
  BY DEF TypeOK
<1>7. StartInv'
  BY Zenon DEF TypeOK, StartInv, MaskBit
<1>8. QuietInv'
  BY Zenon DEF QuietInv, StartInv
<1>9. AddrInv'
  BY Zenon DEF AddrInv, StartInv
<1>10. ResultInv'
  BY DEF TypeOK, ResultInv
<1> QED
  BY Zenon, <1>6, <1>7, <1>8, <1>9, <1>10

\* The line's event is set up once the handler may run.
LEMMA ArmStep == IInv /\ NRF24TxThread => IInv'
<1> SUFFICES ASSUME IInv, NRF24TxThread PROVE IInv'
  BY Zenon
<1> USE DEF IInv, Thread, Labels, TxLabels, IrqLabels, ShellLabels, StartLabels, SetTxLabels, SendingLabels
<1>1. /\ pc' \in [Thread -> Labels] /\ pc["tx"] = "arm" /\ pc'["tx"] = "set_width"
      /\ pc'["irq"] = pc["irq"] /\ pc'["shell"] = pc["shell"]
  BY Zenon, GotoResult DEF NRF24TxThread
<1> USE <1>1 DEF NRF24TxThread, handle, irqs, bounds, history
<1>2. TypeOK'
  BY Zenon DEF TypeOK
<1>3. StartInv'
  BY Zenon DEF TypeOK, StartInv, MaskBit
<1>4. QuietInv'
  BY Zenon DEF QuietInv
<1>5. AddrInv'
  BY Zenon DEF AddrInv
<1>6. ResultInv'
  BY Zenon DEF ResultInv, Quiet
<1> QED
  BY Zenon, <1>2, <1>3, <1>4, <1>5, <1>6

\* nrf24_tx reads the width of the address, at its start or in basic_send.
LEMMA TxReadStep ==
    ASSUME IInv, NEW l, NEW next,
           \/ l = "set_width" /\ next = "set_tx"
           \/ l = "set_width0" /\ next = "set_p0"
           \/ l = "send_width" /\ next = "send_tx"
           \/ l = "send_width0" /\ next = "send_p0",
           ReadWidth("tx", l, next)
    PROVE  IInv'
<1>1. next \in TxLabels /\ "loop" \in TxLabels /\ Idle("tx") = "loop"
  BY Zenon DEF TxLabels, SetTxLabels, SendingLabels, Idle
<1>2. /\ chip' = chip /\ faults' \in Nat /\ pc' \in [Thread -> Labels]
      /\ pc'["irq"] = pc["irq"] /\ pc'["shell"] = pc["shell"]
      /\ \/ pc'["tx"] = next /\ faults' = faults
         \/ pc'["tx"] = "loop" /\ faults' = faults + 1
         \/ pc'["tx"] = "loop" /\ faults' = faults /\ ~inited
  <2>1. CASE inited
    <3>1. Access("tx", chip, next, "loop") /\ chip \in Chips
      BY Zenon, <1>1, <2>1 DEF ReadWidth, IInv, TypeOK
    <3> QED
      BY Zenon, <1>1, <3>1, TxAccess DEF IInv
  <2>2. CASE ~inited
    <3>1. Goto("tx", "loop") /\ UNCHANGED <<chip, faults>> /\ "loop" \in Labels /\ "tx" \in Thread
      BY Zenon, <1>1, <2>2 DEF ReadWidth, Labels, Thread
    <3> QED
      BY Zenon, <2>2, <3>1, GotoResult DEF IInv, TypeOK, Thread
  <2> QED
    BY Zenon, <2>1, <2>2
<1>3. /\ pc["tx"] = l
      /\ res' = IF l \in {"send_width", "send_width0"} /\ pc'["tx"] = "loop" THEN "fail" ELSE res
      /\ addr' = IF pc'["shell"] = "idle" THEN None ELSE addr
      /\ UNCHANGED <<mode, handle, gs_tx_addr, ce, irqs, step, bounds, history>>
  BY Zenon, <1>1 DEF ReadWidth, ResultOf, AddrOnReturn
<1> USE DEF IInv, Thread, Labels, TxLabels, IrqLabels, ShellLabels, StartLabels, SetTxLabels, SendingLabels
<1> USE <1>2, <1>3 DEF handle, irqs, bounds, history
<1>10. TypeOK'
  BY Zenon DEF TypeOK, None
<1>11. StartInv'
  BY DEF TypeOK, StartInv, MaskBit
<1>12. QuietInv'
  BY Zenon DEF QuietInv, StartInv
<1>13. AddrInv'
  BY Zenon DEF AddrInv, QuietInv
<1>14. ResultInv'
  BY DEF TypeOK, ResultInv, Quiet, None
<1> QED
  BY Zenon, <1>10, <1>11, <1>12, <1>13, <1>14

\* The writes of nrf24_tx: where they are, where they lead, what they write.
TxWrites(l, next, c) ==
    \/ l = "set_tx" /\ next = "set_width0" /\ c = [chip EXCEPT !.TX_ADDR = TxAddr]
    \/ l = "set_p0" /\ next = "save" /\ c = [chip EXCEPT !.RX_ADDR_P0 = TxAddr]
    \/ l = "send_tx" /\ next = "send_width0" /\ c = [chip EXCEPT !.TX_ADDR = TxAddr]
    \/ l = "send_p0" /\ next = "send" /\ c = [chip EXCEPT !.RX_ADDR_P0 = TxAddr]

\* nrf24_tx writes one of the two addresses.
LEMMA TxWriteStep ==
    ASSUME IInv, NEW l, NEW next, NEW c, TxWrites(l, next, c), WriteAddress("tx", l, c, next)
    PROVE  IInv'
<1>0. \/ l = "set_tx" /\ next = "set_width0"
      \/ l = "set_p0" /\ next = "save"
      \/ l = "send_tx" /\ next = "send_width0"
      \/ l = "send_p0" /\ next = "send"
  BY Zenon DEF TxWrites
<1>1. next \in TxLabels /\ "loop" \in TxLabels /\ Idle("tx") = "loop"
  BY Zenon, <1>0 DEF TxLabels, SetTxLabels, SendingLabels, Idle
<1>2. Wrote(c, IF l \in {"set_tx", "send_tx"} THEN "TX_ADDR" ELSE "RX_ADDR_P0", TxAddr)
  BY Zenon, ChipWrite, NrfAssumption DEF IInv, TxWrites
<1>3. /\ chip' \in Chips /\ faults' \in Nat /\ pc' \in [Thread -> Labels]
      /\ pc'["irq"] = pc["irq"] /\ pc'["shell"] = pc["shell"]
      /\ \/ chip' = c /\ pc'["tx"] = next /\ faults' = faults
         \/ chip' \in {chip, c} /\ pc'["tx"] = "loop" /\ faults' = faults + 1
  <2>1. Access("tx", c, next, "loop") /\ c \in Chips
    BY Zenon, <1>1, <1>2 DEF WriteAddress, Wrote
  <2> QED
    BY Zenon, <1>1, <2>1, TxAccess DEF IInv
<1>4. /\ chip'.masked = chip.masked /\ chip'.pwr = chip.pwr /\ chip'.status = chip.status
      /\ chip'.fifo = chip.fifo /\ chip'.flight = chip.flight
  BY Zenon, <1>2, <1>3 DEF Wrote
<1>7. /\ l = "send_tx" /\ pc'["tx"] = next => chip'.TX_ADDR = TxAddr
      /\ l = "send_p0" /\ pc'["tx"] = next => chip'.TX_ADDR = chip.TX_ADDR /\ chip'.RX_ADDR_P0 = TxAddr
  <2>1. pc'["tx"] = next /\ l \in {"send_tx", "send_p0"} => chip' = c
    BY Zenon, <1>0, <1>3
  <2> QED
    BY Zenon, <2>1, <1>2 DEF Wrote
<1>5. /\ pc["tx"] = l
      /\ res' = IF l \in {"send_tx", "send_p0"} /\ pc'["tx"] = "loop" THEN "fail" ELSE res
      /\ addr' = IF pc'["shell"] = "idle" THEN None ELSE addr
      /\ (meddled' <=> meddled)
      /\ UNCHANGED <<mode, handle, gs_tx_addr, ce, irqs, step, bounds, acked, botched>>
  BY Zenon, <1>0, <1>1 DEF WriteAddress, ResultOf, AddrOnReturn
<1>6. faults' \in {faults, faults + 1} /\ (faults' = faults => pc'["tx"] = next)
      /\ pc'["tx"] \in {next, "loop"} /\ pc'["irq"] = pc["irq"] /\ pc'["shell"] = pc["shell"]
  BY <1>3 DEF IInv, TypeOK
<1> USE DEF IInv, Thread, Labels, TxLabels, IrqLabels, ShellLabels, StartLabels, SetTxLabels, SendingLabels
<1> USE <1>0, <1>4, <1>5, <1>6, <1>7 DEF handle, irqs, bounds
<1>10. TypeOK'
  BY Zenon, <1>3 DEF TypeOK, None
<1>11. StartInv'
  BY DEF TypeOK, StartInv, MaskBit
<1>12. QuietInv'
  BY Zenon DEF QuietInv, StartInv
<1>13. AddrInv'
  BY Zenon DEF AddrInv, QuietInv
<1>14. ResultInv'
  BY DEF TypeOK, ResultInv, Quiet, None
<1> QED
  BY Zenon, <1>10, <1>11, <1>12, <1>13, <1>14

\* nrf24_tx saves the address and is ready to send.
LEMMA TxSaveStep == IInv /\ SaveAddress("tx") => IInv'
<1> SUFFICES ASSUME IInv, SaveAddress("tx") PROVE IInv'
  BY Zenon
<1>1. /\ pc' \in [Thread -> Labels] /\ pc["tx"] = "save" /\ pc'["tx"] = "loop"
      /\ pc'["irq"] = pc["irq"] /\ pc'["shell"] = pc["shell"]
  BY Zenon, GotoResult DEF SaveAddress, Idle, Thread, Labels, TxLabels, IInv
<1>2. /\ addr' = IF pc'["shell"] = "idle" THEN None ELSE addr
      /\ UNCHANGED <<mode, handle, ce, chip, irqs, step, bounds, faults, res, history>>
  BY Zenon DEF SaveAddress, AddrOnReturn
<1> USE DEF IInv, Thread, Labels, TxLabels, IrqLabels, ShellLabels, StartLabels, SetTxLabels, SendingLabels
<1> USE <1>1, <1>2 DEF handle, irqs, bounds, history
<1>10. TypeOK'
  BY Zenon DEF TypeOK, None
<1>11. StartInv'
  BY Zenon DEF TypeOK, StartInv, MaskBit
<1>12. QuietInv'
  BY Zenon DEF QuietInv, StartInv
<1>13. AddrInv'
  BY Zenon DEF AddrInv, QuietInv
<1>14. ResultInv'
  BY Zenon DEF TypeOK, ResultInv, Quiet, None
<1> QED
  BY Zenon, <1>10, <1>11, <1>12, <1>13, <1>14

\* What the shell may do without breaking anything: move on, use up a failure,
\* change the channel, and change an address when it counts as meddling.
ShellFrame ==
    /\ pc'["tx"] = pc["tx"] /\ pc'["irq"] = pc["irq"]
    /\ UNCHANGED <<mode, handle, ce, irqs, step, sends, res, acked, botched>>
    /\ chip'.masked = chip.masked /\ chip'.pwr = chip.pwr /\ chip'.status = chip.status
    /\ chip'.fifo = chip.fifo /\ chip'.flight = chip.flight
    /\ faults' \in {faults, faults + 1}
    /\ meddled => meddled'
    /\ ~meddled' => chip'.TX_ADDR = chip.TX_ADDR /\ chip'.RX_ADDR_P0 = chip.RX_ADDR_P0

LEMMA ShellFrameStep == ASSUME IInv, TypeOK', ShellFrame PROVE IInv'
<1> USE DEF IInv, ShellFrame, handle, irqs
<1>1. StartInv'
  BY DEF StartInv, MaskBit
<1>2. QuietInv'
  BY Zenon DEF QuietInv
<1>3. AddrInv'
  BY Zenon DEF AddrInv
<1>4. ResultInv'
  BY DEF ResultInv, Quiet, Queued, Ended, TypeOK
<1> QED
  BY Zenon, <1>1, <1>2, <1>3, <1>4

\* nrf_addr starts.
LEMMA AddrCmdStep == ASSUME IInv, NEW a \in Addr, cmd_nrf_addr(a) PROVE IInv'
<1>1. /\ pc' \in [Thread -> Labels] /\ pc'["shell"] = "set_width"
      /\ pc'["tx"] = pc["tx"] /\ pc'["irq"] = pc["irq"]
  BY Zenon, GotoResult DEF cmd_nrf_addr, Thread, Labels, ShellLabels, SetTxLabels, IInv
<1>2. TypeOK'
  BY Zenon, <1>1 DEF cmd_nrf_addr, IInv, TypeOK, ShellLabels, SetTxLabels
<1>3. ShellFrame
  BY Zenon, <1>1 DEF cmd_nrf_addr, ShellFrame, irqs, history
<1> QED
  BY Zenon, <1>2, <1>3, ShellFrameStep

\* nrf_channel writes RF_CH.
LEMMA ChannelCmdStep == ASSUME IInv, NEW f \in Freq, cmd_nrf_channel(f) PROVE IInv'
<1> DEFINE c == [chip EXCEPT !.RF_CH = f]
<1>1. Wrote(c, "RF_CH", f)
  BY Zenon, ChipWrite DEF IInv
<1>2. IF inited THEN Access("shell", c, "idle", "idle") ELSE UNCHANGED <<chip, pc, faults>>
  BY Zenon DEF cmd_nrf_channel
<1> HIDE DEF c
<1>3. /\ chip' \in Chips /\ chip' \in {chip, c} /\ faults' \in Nat /\ faults' \in {faults, faults + 1}
      /\ pc' \in [Thread -> Labels] /\ pc'["tx"] = pc["tx"] /\ pc'["irq"] = pc["irq"]
      /\ pc'["shell"] = "idle"
  <2>1. "idle" \in ShellLabels /\ c \in Chips /\ pc["shell"] = "idle"
    BY Zenon, <1>1 DEF ShellLabels, Wrote, cmd_nrf_channel
  <2>2. CASE inited
    BY Zenon, <1>2, <2>1, <2>2, ShellAccess DEF IInv
  <2>3. CASE ~inited
    BY Zenon, <1>2, <2>1, <2>3 DEF IInv, TypeOK
  <2> QED
    BY Zenon, <2>2, <2>3
<1>4. UNCHANGED <<mode, handle, gs_tx_addr, ce, irqs, addr, step, sends, res, acked, meddled, botched>>
  BY Zenon DEF cmd_nrf_channel
<1>5. TypeOK'
  BY Zenon, <1>3, <1>4 DEF IInv, TypeOK, ShellLabels
<1>6. ShellFrame
  BY Zenon, <1>1, <1>3, <1>4 DEF ShellFrame, Wrote
<1> QED
  BY Zenon, <1>5, <1>6, ShellFrameStep

\* nrf_addr reads the width of the address.
LEMMA ShellReadStep ==
    ASSUME IInv, NEW l, NEW next,
           \/ l = "set_width" /\ next = "set_tx"
           \/ l = "set_width0" /\ next = "set_p0",
           ReadWidth("shell", l, next)
    PROVE  IInv'
<1>1. next \in ShellLabels /\ "idle" \in ShellLabels /\ Idle("shell") = "idle"
  BY Zenon DEF ShellLabels, SetTxLabels, Idle
<1>2. /\ chip' = chip /\ faults' \in Nat /\ faults' \in {faults, faults + 1}
      /\ pc' \in [Thread -> Labels] /\ pc'["tx"] = pc["tx"] /\ pc'["irq"] = pc["irq"]
      /\ pc'["shell"] \in {next, "idle"}
  <2>1. CASE inited
    <3>1. Access("shell", chip, next, "idle") /\ chip \in Chips
      BY Zenon, <1>1, <2>1 DEF ReadWidth, IInv, TypeOK
    <3> QED
      BY Zenon, <1>1, <3>1, ShellAccess DEF IInv
  <2>2. CASE ~inited
    <3>1. Goto("shell", "idle") /\ UNCHANGED <<chip, faults>> /\ "idle" \in Labels /\ "shell" \in Thread
      BY Zenon, <1>1, <2>2 DEF ReadWidth, Labels, Thread
    <3> QED
      BY Zenon, <2>2, <3>1, GotoResult DEF IInv, TypeOK, Thread
  <2> QED
    BY Zenon, <2>1, <2>2
<1>3. /\ pc["shell"] = l /\ l # "idle" /\ res' = res
      /\ addr' = IF pc'["shell"] = "idle" THEN None ELSE addr
      /\ UNCHANGED <<mode, handle, gs_tx_addr, ce, irqs, step, bounds, history>>
  BY Zenon, <1>1 DEF ReadWidth, ResultOf, AddrOnReturn
<1>4. TypeOK'
  BY Zenon, <1>1, <1>2, <1>3 DEF IInv, TypeOK, bounds
<1>5. ShellFrame
  BY Zenon, <1>2, <1>3 DEF ShellFrame, bounds, history
<1> QED
  BY Zenon, <1>4, <1>5, ShellFrameStep

\* nrf_addr writes one of the two addresses.
LEMMA ShellWriteStep ==
    ASSUME IInv, NEW l, NEW next, NEW c,
           l \in {"set_tx", "set_p0"}, next \in {"set_width0", "save"},
           Wrote(c, IF l = "set_tx" THEN "TX_ADDR" ELSE "RX_ADDR_P0", addr),
           WriteAddress("shell", l, c, next)
    PROVE  IInv'
<1>1. next \in ShellLabels /\ "idle" \in ShellLabels /\ Idle("shell") = "idle"
  BY Zenon DEF ShellLabels, SetTxLabels, Idle
<1>2. /\ chip' \in Chips /\ chip' \in {chip, c} /\ faults' \in Nat /\ faults' \in {faults, faults + 1}
      /\ pc' \in [Thread -> Labels] /\ pc'["tx"] = pc["tx"] /\ pc'["irq"] = pc["irq"]
      /\ pc'["shell"] \in {next, "idle"}
  <2>1. Access("shell", c, next, "idle") /\ c \in Chips
    BY Zenon, <1>1 DEF WriteAddress, Wrote
  <2> QED
    BY Zenon, <1>1, <2>1, ShellAccess DEF IInv
<1>3. /\ pc["shell"] = l /\ l # "idle" /\ res' = res /\ meddled'
      /\ addr' = IF pc'["shell"] = "idle" THEN None ELSE addr
      /\ UNCHANGED <<mode, handle, gs_tx_addr, ce, irqs, step, bounds, acked, botched>>
  BY Zenon, <1>1 DEF WriteAddress, ResultOf, AddrOnReturn
<1>4. TypeOK'
  BY Zenon, <1>1, <1>2, <1>3 DEF IInv, TypeOK, bounds
<1>5. ShellFrame
  BY Zenon, <1>2, <1>3 DEF ShellFrame, bounds, Wrote
<1> QED
  BY Zenon, <1>4, <1>5, ShellFrameStep

\* nrf_addr saves the address and returns.
LEMMA ShellSaveStep == ASSUME IInv, SaveAddress("shell") PROVE IInv'
<1>1. /\ pc' \in [Thread -> Labels] /\ pc'["shell"] = "idle"
      /\ pc'["tx"] = pc["tx"] /\ pc'["irq"] = pc["irq"]
  BY Zenon, GotoResult DEF SaveAddress, Idle, Thread, Labels, ShellLabels, IInv
<1>2. addr' = None /\ UNCHANGED <<mode, handle, ce, chip, irqs, step, bounds, faults, res, history>>
  BY Zenon, <1>1 DEF SaveAddress, AddrOnReturn
<1>3. TypeOK'
  BY Zenon, <1>1, <1>2 DEF IInv, TypeOK, bounds, ShellLabels
<1>4. ShellFrame
  BY Zenon, <1>1, <1>2 DEF ShellFrame, bounds, history
<1> QED
  BY Zenon, <1>3, <1>4, ShellFrameStep

\* basic_send starts with CE lowered, or fails on a closed handle.
LEMMA BasicSendStep == ASSUME IInv, nrf24l01_basic_send PROVE IInv'
<1>1. /\ pc' \in [Thread -> Labels] /\ pc'["irq"] = pc["irq"] /\ pc'["shell"] = pc["shell"]
      /\ \/ inited /\ ~ce' /\ pc'["tx"] = "send_width" /\ res' = None
         \/ ~inited /\ ce' = ce /\ pc'["tx"] = "loop" /\ res' = "fail"
  BY Zenon, GotoResult DEF nrf24l01_basic_send, Thread, Labels, TxLabels, SendingLabels, IInv, TypeOK
<1>2. /\ pc["tx"] = "loop" /\ sends' = sends + 1 /\ ~acked' /\ ~meddled'
      /\ UNCHANGED <<mode, handle, gs_tx_addr, chip, irqs, addr, step, faults, botched>>
  BY Zenon DEF nrf24l01_basic_send
<1> USE DEF IInv, Thread, Labels, TxLabels, IrqLabels, ShellLabels, StartLabels, SetTxLabels, SendingLabels
<1> USE <1>1, <1>2 DEF handle, irqs
<1>10. TypeOK'
  BY DEF TypeOK
<1>11. StartInv'
  BY DEF TypeOK, StartInv, MaskBit
<1>12. QuietInv'
  BY Zenon DEF QuietInv, StartInv
<1>13. AddrInv'
  BY Zenon DEF AddrInv, QuietInv, StartInv
<1>14. ResultInv'
  BY Zenon DEF TypeOK, ResultInv, Quiet, None
<1> QED
  BY Zenon, <1>10, <1>11, <1>12, <1>13, <1>14

\* nrf24l01_send clears finished.
LEMMA SendStep == ASSUME IInv, nrf24l01_send PROVE IInv'
<1>1. /\ pc' \in [Thread -> Labels] /\ pc'["irq"] = pc["irq"] /\ pc'["shell"] = pc["shell"]
      /\ pc["tx"] = "send" /\ pc'["tx"] = "load" /\ inited /\ ~ce' /\ finished' = 0 /\ res' = res
  <2>1. inited /\ pc["tx"] = "send"
    BY Zenon DEF nrf24l01_send, IInv, StartInv, SendingLabels
  <2> QED
    BY Zenon, <2>1, GotoResult DEF nrf24l01_send, Thread, Labels, TxLabels, SendingLabels, IInv
<1>2. UNCHANGED <<mode, inited, gs_tx_addr, chip, irqs, addr, step, bounds, faults, history>>
  BY Zenon DEF nrf24l01_send
<1> USE DEF IInv, Thread, Labels, TxLabels, IrqLabels, ShellLabels, StartLabels, SetTxLabels, SendingLabels
<1> USE <1>1, <1>2 DEF irqs, bounds, history
<1>10. TypeOK'
  BY Zenon DEF TypeOK
<1>11. StartInv'
  BY Zenon DEF TypeOK, StartInv, MaskBit
<1>12. QuietInv'
  BY Zenon DEF QuietInv, StartInv
<1>13. AddrInv'
  BY Zenon DEF AddrInv, QuietInv, StartInv
<1>14. ResultInv'
  BY Zenon DEF TypeOK, ResultInv, Quiet, None
<1> QED
  BY Zenon, <1>10, <1>11, <1>12, <1>13, <1>14

\* A payload of this send enters the queue, unless it is full.
LEMMA LoadStep == ASSUME IInv, LoadPayload PROVE IInv'
<1> DEFINE q == IF Len(chip.fifo) < FifoDepth THEN Append(chip.fifo, sends) ELSE chip.fifo
           c == [chip EXCEPT !.fifo = q]
<1>0. chip.fifo \in Seq(Int) /\ sends \in Nat /\ faults \in Nat
  BY Zenon DEF IInv, TypeOK, Chips
<1>1. q \in Seq(Int)
  BY <1>0
<1>2. /\ step > 9 /\ (\A i \in 1..Len(chip.fifo) : chip.fifo[i] # -1) =>
            \A i \in 1..Len(q) : q[i] # -1
      /\ chip.fifo = <<>> => q = <<sends>>
  <2>1. CASE Len(chip.fifo) < FifoDepth
    <3>1. q = Append(chip.fifo, sends)
      BY Zenon, <2>1
    <3>2. Len(q) = Len(chip.fifo) + 1 /\ q[Len(q)] = sends
      BY <3>1, <1>0
    <3>3. \A i \in 1..Len(chip.fifo) : q[i] = chip.fifo[i]
      BY <3>1, <1>0
    <3>4. chip.fifo = <<>> => q = <<sends>>
      BY <3>1
    <3> QED
      BY <1>0, <3>2, <3>3, <3>4
  <2>2. CASE ~(Len(chip.fifo) < FifoDepth)
    BY <1>0, <2>2, NrfAssumption
  <2> QED
    BY Zenon, <2>1, <2>2
<1>3. Access("tx", c, "go", "loop") /\ pc["tx"] = "load"
  BY Zenon DEF LoadPayload
<1> HIDE DEF q
<1>4. Wrote(c, "fifo", q)
  BY Zenon, <1>1, ChipWrite DEF IInv
<1> HIDE DEF c
<1>5. /\ chip' \in Chips /\ pc' \in [Thread -> Labels]
      /\ pc'["irq"] = pc["irq"] /\ pc'["shell"] = pc["shell"]
      /\ \/ chip' = c /\ pc'["tx"] = "go" /\ faults' = faults
         \/ chip' \in {chip, c} /\ pc'["tx"] = "loop" /\ faults' = faults + 1
  <2>1. "go" \in TxLabels /\ "loop" \in TxLabels /\ c \in Chips
    BY Zenon, <1>4 DEF TxLabels, SendingLabels, Wrote
  <2> QED
    BY Zenon, <2>1, <1>3, TxAccess DEF IInv
<1>6. /\ chip'.masked = chip.masked /\ chip'.pwr = chip.pwr /\ chip'.status = chip.status
      /\ chip'.TX_ADDR = chip.TX_ADDR /\ chip'.RX_ADDR_P0 = chip.RX_ADDR_P0 /\ chip'.flight = chip.flight
      /\ chip'.fifo \in {chip.fifo, q} /\ (pc'["tx"] = "go" => chip'.fifo = q)
  BY Zenon, <1>4, <1>5 DEF Wrote
<1>7. /\ res' = IF pc'["tx"] = "loop" THEN "fail" ELSE res
      /\ UNCHANGED <<mode, handle, gs_tx_addr, ce, irqs, addr, step, bounds, history>>
  BY Zenon DEF LoadPayload
<1>8. pc["tx"] = "load" /\ inited /\ (~botched => step > 9)
  BY <1>3 DEF IInv, StartInv, SendingLabels
<1> USE DEF IInv, Thread, Labels, TxLabels, IrqLabels, ShellLabels, StartLabels, SetTxLabels, SendingLabels
<1> USE <1>0, <1>5, <1>6, <1>7, <1>8 DEF handle, irqs, bounds, history
<1>10. TypeOK'
  BY DEF TypeOK
<1>11. StartInv'
  BY <1>2 DEF StartInv, MaskBit
<1>12. QuietInv'
  BY Zenon DEF QuietInv, StartInv
<1>13. AddrInv'
  BY Zenon DEF AddrInv, QuietInv, StartInv
<1>14. ResultInv'
  BY <1>2 DEF TypeOK, ResultInv, Quiet, None, Queued
<1> QED
  BY Zenon, <1>10, <1>11, <1>12, <1>13, <1>14

\* CE is raised.
LEMMA StartSendingStep == ASSUME IInv, StartSending PROVE IInv'
<1>1. /\ chip' = chip /\ pc' \in [Thread -> Labels] /\ faults' \in {faults, faults + 1}
      /\ pc'["irq"] = pc["irq"] /\ pc'["shell"] = pc["shell"]
      /\ pc["tx"] = "go" /\ pc'["tx"] = "wait"
  <2>1. "wait" \in TxLabels /\ chip \in Chips /\ Access("tx", chip, "wait", "wait")
    BY Zenon DEF TxLabels, StartSending, IInv, TypeOK
  <2> QED
    BY Zenon, <2>1, TxAccess DEF IInv, StartSending
<1>2. ce' /\ UNCHANGED <<mode, handle, gs_tx_addr, irqs, addr, step, bounds, res, history>>
  BY Zenon DEF StartSending
<1> USE DEF IInv, Thread, Labels, TxLabels, IrqLabels, ShellLabels, StartLabels, SetTxLabels, SendingLabels
<1> USE <1>1, <1>2 DEF handle, irqs, bounds, history
<1>10. TypeOK'
  BY DEF TypeOK
<1>11. StartInv'
  BY DEF TypeOK, StartInv, MaskBit
<1>12. QuietInv'
  BY Zenon DEF QuietInv, StartInv
<1>13. AddrInv'
  BY Zenon DEF AddrInv, QuietInv, StartInv
<1>14. ResultInv'
  BY DEF TypeOK, ResultInv, Quiet, None, Queued
<1> QED
  BY Zenon, <1>10, <1>11, <1>12, <1>13, <1>14

\* The wait of basic_send ends.
LEMMA EndOfSendStep == ASSUME IInv, EndOfSend PROVE IInv'
<1>1. /\ pc' \in [Thread -> Labels] /\ pc'["irq"] = pc["irq"] /\ pc'["shell"] = pc["shell"]
      /\ pc["tx"] = "wait" /\ pc'["tx"] = "loop"
  BY Zenon, GotoResult DEF EndOfSend, Thread, Labels, TxLabels, IInv
<1>2. UNCHANGED <<mode, handle, gs_tx_addr, ce, chip, irqs, addr, step, bounds, faults, history>>
  BY Zenon DEF EndOfSend
<1>3. mode = "acked" /\ faults = 0 => Quiet /\ (res' = "ok" => acked) /\ (res' = "fail" => ~acked)
  <2> SUFFICES ASSUME mode = "acked", faults = 0
               PROVE  Quiet /\ (res' = "ok" => acked) /\ (res' = "fail" => ~acked)
    BY Zenon
  <2>1. /\ step = 11 /\ chip.pwr
        /\ \/ finished \in {1, 2} /\ Quiet /\ (finished = 1 <=> acked)
           \/ finished = 0 /\ ((Queued /\ ce) \/ Ended)
    BY <1>1 DEF IInv, ResultInv, StartInv
  <2>2. ~(finished = 0 /\ Expired)
    BY <2>1 DEF Expired, Queued, Ended
  <2> QED
    BY Zenon, <2>1, <2>2 DEF EndOfSend, UseAck, Outcome
<1> USE DEF IInv, Thread, Labels, TxLabels, IrqLabels, ShellLabels, StartLabels, SetTxLabels, SendingLabels
<1> USE <1>1, <1>2, <1>3 DEF handle, irqs, bounds, history
<1>10. TypeOK'
  BY Zenon DEF TypeOK
<1>11. StartInv'
  BY Zenon DEF TypeOK, StartInv, MaskBit
<1>12. QuietInv'
  BY Zenon DEF QuietInv, StartInv
<1>13. AddrInv'
  BY Zenon DEF AddrInv, QuietInv, StartInv
<1>14. ResultInv'
  BY Zenon DEF TypeOK, ResultInv, Quiet, None
<1> QED
  BY Zenon, <1>10, <1>11, <1>12, <1>13, <1>14


\* The interrupt thread takes the event.
LEMMA TakeEventStep == ASSUME IInv, TakeEvent PROVE IInv'
<1>1. /\ pc' \in [Thread -> Labels] /\ pc'["tx"] = pc["tx"] /\ pc'["shell"] = pc["shell"]
      /\ pc["irq"] = "event" /\ evt
      /\ \/ inited /\ ~ce' /\ pc'["irq"] = "status"
         \/ ~inited /\ ce' = ce /\ pc'["irq"] = "event"
  BY Zenon, GotoResult DEF TakeEvent, Thread, Labels, IrqLabels, IInv, TypeOK
<1>2. /\ ~evt'
      /\ UNCHANGED <<mode, handle, gs_tx_addr, chip, armed, prev, addr, step, bounds, faults, res, history>>
  BY Zenon DEF TakeEvent
<1> USE DEF IInv, Thread, Labels, TxLabels, IrqLabels, ShellLabels, StartLabels, SetTxLabels, SendingLabels
<1> USE <1>1, <1>2 DEF handle, irqs, bounds, history
<1>3. TypeOK'
  BY Zenon DEF TypeOK
<1>4. StartInv'
  BY DEF StartInv, MaskBit
<1>5. QuietInv'
  BY Zenon DEF QuietInv
<1>6. AddrInv'
  BY Zenon DEF AddrInv, QuietInv
<1>7. ResultInv'
  <2> SUFFICES ASSUME mode = "acked", faults = 0 PROVE ResultInv'
    BY Zenon DEF ResultInv
  <2>1. pc["tx"] = "wait" /\ finished = 0 /\ Ended /\ inited
    BY Zenon DEF ResultInv, Quiet, Queued
  <2>2. Ended'
    BY Zenon, <2>1 DEF Ended
  <2> QED
    BY Zenon, <2>1, <2>2 DEF ResultInv
<1> QED
  BY Zenon, <1>3, <1>4, <1>5, <1>6, <1>7

\* What nrf24l01_irq_handler may do once it runs: it has no part in the start, and
\* with masked interrupts it does not run at all.
IrqFrame ==
    /\ pc["irq"] # "event" /\ pc'["irq"] \in IrqLabels /\ pc' \in [Thread -> Labels]
    /\ pc'["tx"] = pc["tx"] /\ pc'["shell"] = pc["shell"]
    /\ UNCHANGED <<mode, inited, evt, armed, addr, step, bounds, res, history>>
    /\ chip' \in Chips /\ faults' \in {faults, faults + 1}
    /\ chip'.masked = chip.masked /\ chip'.pwr = chip.pwr /\ chip'.flight = chip.flight
    /\ chip'.fifo \in {chip.fifo, <<>>}

LEMMA IrqFrameStep == ASSUME IInv, IrqFrame PROVE TypeOK' /\ StartInv' /\ QuietInv' /\ AddrInv'
<1> USE DEF IInv, IrqFrame, bounds, history
<1>1. TypeOK'
  BY DEF TypeOK
<1>2. StartInv'
  BY DEF TypeOK, StartInv, MaskBit, StartLabels
<1>3. QuietInv'
  BY Zenon DEF QuietInv
<1>4. AddrInv'
  BY Zenon DEF AddrInv, QuietInv
<1> QED
  BY Zenon, <1>1, <1>2, <1>3, <1>4

\* STATUS is read.
LEMMA ReadStatusStep == ASSUME IInv, ReadStatus PROVE IInv'
<1>1. /\ chip' = chip /\ pc' \in [Thread -> Labels]
      /\ pc'["tx"] = pc["tx"] /\ pc'["shell"] = pc["shell"] /\ pc["irq"] = "status"
      /\ \/ pc'["irq"] = "clear" /\ faults' = faults
         \/ pc'["irq"] = "event" /\ faults' = faults + 1
  <2>1. {"clear", "event"} \subseteq IrqLabels /\ chip \in Chips /\ Access("irq", chip, "clear", "event")
    BY Zenon DEF IrqLabels, ReadStatus, IInv, TypeOK
  <2> QED
    BY Zenon, <2>1, IrqAccess DEF IInv, ReadStatus
<1>2. UNCHANGED <<mode, handle, gs_tx_addr, evt, armed, addr, step, bounds, res, history>>
  BY Zenon DEF ReadStatus
<1>3. TypeOK' /\ StartInv' /\ QuietInv' /\ AddrInv'
  <2>1. IrqFrame
    BY Zenon, <1>1, <1>2 DEF IrqFrame, IrqLabels, handle, IInv, TypeOK
  <2> QED
    BY Zenon, <2>1, IrqFrameStep
<1>4. ResultInv'
  <2> SUFFICES ASSUME mode = "acked", faults' = 0 PROVE ResultInv'
    BY Zenon, <1>2 DEF ResultInv
  <2>0. faults = 0 /\ pc'["irq"] = "clear" /\ ce' = ce /\ prev' = chip.status
    <3>1. faults = 0 /\ pc'["irq"] = "clear"
      BY <1>1 DEF IInv, TypeOK
    <3> QED
      BY Zenon, <3>1 DEF ReadStatus, OnReturn
  <2>1. pc["tx"] = "wait" /\ finished = 0 /\ Ended /\ inited
    BY Zenon, <1>1, <2>0 DEF IInv, ResultInv, Quiet, Queued
  <2>2. Ended'
    BY Zenon, <2>0, <2>1, <1>1, <1>2 DEF Ended, bounds, history
  <2> QED
    BY Zenon, <2>0, <2>1, <2>2, <1>1, <1>2 DEF IInv, ResultInv, handle, history, SendingLabels
<1> QED
  BY Zenon, <1>3, <1>4 DEF IInv

\* STATUS is cleared; a send that succeeded is reported.
LEMMA ClearStatusStep == ASSUME IInv, ClearStatus PROVE IInv'
<1> DEFINE next == IF "MAX_RT" \in prev THEN "flush" ELSE AfterFlags
           c == [chip EXCEPT !.status = chip.status \ prev]
<1>0. chip.status \in SUBSET Flags /\ next \in IrqLabels /\ "event" \in IrqLabels /\ faults \in Nat
  BY Zenon DEF IInv, TypeOK, Chips, AfterFlags, IrqLabels
<1>1. Wrote(c, "status", chip.status \ prev)
  BY Zenon, <1>0, ChipWrite DEF IInv
<1>2. Access("irq", c, next, "event") /\ pc["irq"] = "clear"
  BY Zenon DEF ClearStatus
<1>3. /\ finished' = IF faults' # faults \/ next = "flush" THEN finished ELSE Finish
      /\ ce' = (IF pc'["irq"] = "event" THEN TRUE ELSE ce)
      /\ prev' = (IF pc'["irq"] = "event" THEN {} ELSE prev)
      /\ UNCHANGED <<mode, inited, gs_tx_addr, evt, armed, addr, step, bounds, res, history>>
  BY Zenon DEF ClearStatus, OnReturn
<1> HIDE DEF c, next
<1>4. /\ chip' \in Chips /\ chip' \in {chip, c} /\ faults' \in {faults, faults + 1}
      /\ pc' \in [Thread -> Labels] /\ pc'["irq"] \in IrqLabels
      /\ pc'["tx"] = pc["tx"] /\ pc'["shell"] = pc["shell"]
      /\ faults' = faults => chip' = c /\ pc'["irq"] = next
  <2>1. c \in Chips
    BY Zenon, <1>1 DEF Wrote
  <2> QED
    BY <1>0, <1>2, <2>1, IrqAccess DEF IInv
<1>5. TypeOK' /\ StartInv' /\ QuietInv' /\ AddrInv'
  <2>1. IrqFrame
    BY Zenon, <1>1, <1>2, <1>3, <1>4 DEF IrqFrame, Wrote
  <2> QED
    BY Zenon, <2>1, IrqFrameStep
<1>6. ResultInv'
  <2> SUFFICES ASSUME mode = "acked", faults' = 0 PROVE ResultInv'
    BY Zenon, <1>3 DEF ResultInv
  <2>0. faults = 0 /\ chip' = c /\ pc'["irq"] = next /\ faults' = faults
    BY <1>0, <1>4
  <2>1. pc["tx"] = "wait" /\ finished = 0 /\ Ended /\ inited
    BY Zenon, <1>2, <2>0 DEF IInv, ResultInv, Quiet, Queued
  <2>2. PICK f \in {"TX_DS", "MAX_RT"} :
          /\ acked <=> f = "TX_DS"
          /\ chip.fifo = IF f = "TX_DS" THEN <<>> ELSE <<sends>>
          /\ chip.status = {f} /\ prev = {f} /\ ~evt /\ ~ce /\ chip.flight = 0
    BY Zenon, <1>2, <2>1 DEF Ended
  <2>3. c.status = {} /\ c.fifo = chip.fifo /\ c.flight = 0 /\ c.pwr = chip.pwr
    BY Zenon, <1>1, <2>2 DEF Wrote
  <2>4. CASE f = "TX_DS"
    <3>1. next = "event"
      BY Zenon, <2>2, <2>4 DEF next, AfterFlags
    <3>2. finished' = 1 /\ acked
      BY Zenon, <1>3, <2>0, <2>2, <2>4, <3>1 DEF Finish
    <3>3. Quiet'
      BY Zenon, <1>3, <2>0, <2>2, <2>3, <2>4, <3>1 DEF Quiet
    <3> QED
      BY Zenon, <1>3, <1>4, <2>0, <2>1, <2>3, <3>2, <3>3 DEF IInv, ResultInv, history, SendingLabels
  <2>5. CASE f = "MAX_RT"
    <3>1. next = "flush"
      BY Zenon, <2>2, <2>5 DEF next
    <3>2. finished' = 0
      BY Zenon, <1>3, <2>1, <3>1
    <3>3. Ended'
      BY Zenon, <1>3, <2>0, <2>2, <2>3, <2>5, <3>1 DEF Ended, bounds, history
    <3> QED
      BY Zenon, <1>3, <1>4, <2>0, <2>1, <2>3, <3>2, <3>3 DEF IInv, ResultInv, history, SendingLabels
  <2> QED
    BY Zenon, <2>4, <2>5
<1> QED
  BY Zenon, <1>5, <1>6 DEF IInv

\* The payload that was not acknowledged leaves the queue.
LEMMA FlushTxStep == ASSUME IInv, FlushTx PROVE IInv'
<1> DEFINE c == [chip EXCEPT !.fifo = <<>>]
<1>0. AfterFlags \in IrqLabels /\ "event" \in IrqLabels /\ faults \in Nat /\ <<>> \in Seq(Int)
  BY DEF IInv, TypeOK, AfterFlags, IrqLabels
<1>1. Wrote(c, "fifo", <<>>)
  BY Zenon, <1>0, ChipWrite DEF IInv
<1>2. Access("irq", c, AfterFlags, "event") /\ pc["irq"] = "flush"
  BY Zenon DEF FlushTx
<1> HIDE DEF c
<1>3. /\ finished' = IF faults' = faults THEN Finish ELSE finished
      /\ UNCHANGED <<mode, inited, gs_tx_addr, evt, armed, addr, step, bounds, res, history>>
  BY Zenon DEF FlushTx
<1>4. /\ chip' \in Chips /\ chip' \in {chip, c} /\ faults' \in {faults, faults + 1}
      /\ pc' \in [Thread -> Labels] /\ pc'["irq"] \in IrqLabels
      /\ pc'["tx"] = pc["tx"] /\ pc'["shell"] = pc["shell"]
      /\ faults' = faults => chip' = c /\ pc'["irq"] = AfterFlags
  <2>1. c \in Chips
    BY Zenon, <1>1 DEF Wrote
  <2> QED
    BY <1>0, <1>2, <2>1, IrqAccess DEF IInv
<1>5. TypeOK' /\ StartInv' /\ QuietInv' /\ AddrInv'
  <2>1. IrqFrame
    BY Zenon, <1>1, <1>2, <1>3, <1>4 DEF IrqFrame, Wrote
  <2> QED
    BY Zenon, <2>1, IrqFrameStep
<1>6. ResultInv'
  <2> SUFFICES ASSUME mode = "acked", faults' = 0 PROVE ResultInv'
    BY Zenon, <1>3 DEF ResultInv
  <2>0. faults = 0 /\ chip' = c /\ pc'["irq"] = AfterFlags /\ faults' = faults
    BY <1>0, <1>4
  <2>1. pc["tx"] = "wait" /\ finished = 0 /\ Ended /\ inited
    BY Zenon, <1>2, <2>0 DEF IInv, ResultInv, Quiet, Queued
  <2>2. ~acked /\ chip.status = {} /\ prev = {"MAX_RT"} /\ ~evt /\ chip.flight = 0
    BY Zenon, <1>2, <2>1 DEF Ended
  <2>3. finished' = 2 /\ pc'["irq"] = "event"
    BY Zenon, <1>3, <2>0, <2>2 DEF Finish, AfterFlags
  <2>4. Quiet' /\ chip'.pwr = chip.pwr
    BY Zenon, <1>1, <1>3, <2>0, <2>2, <2>3 DEF Quiet, Wrote
  <2> QED
    BY <1>3, <1>4, <2>0, <2>1, <2>2, <2>3, <2>4 DEF IInv, ResultInv, history, SendingLabels
<1> QED
  BY Zenon, <1>5, <1>6 DEF IInv

\* The payload of an acknowledgment is read: not with plain acknowledgments.
LEMMA ReceiveStep == ASSUME IInv, Receive PROVE IInv'
<1>1. PICK at \in {"width", "flush_rx", "payload"}, next \in {"flush_rx", "payload", "event"} :
        pc["irq"] = at /\ Access("irq", chip, next, "event")
  BY DEF Receive
<1>2. /\ chip' = chip /\ pc' \in [Thread -> Labels] /\ pc'["irq"] \in IrqLabels
      /\ pc'["tx"] = pc["tx"] /\ pc'["shell"] = pc["shell"] /\ faults' \in {faults, faults + 1}
  <2>1. next \in IrqLabels /\ "event" \in IrqLabels /\ chip \in Chips
    BY Zenon DEF IrqLabels, IInv, TypeOK
  <2> QED
    BY Zenon, <1>1, <2>1, IrqAccess DEF IInv
<1>3. UNCHANGED <<mode, handle, gs_tx_addr, evt, armed, addr, step, bounds, res, history>>
  BY Zenon DEF Receive
<1>4. TypeOK' /\ StartInv' /\ QuietInv' /\ AddrInv'
  <2>1. IrqFrame
    BY Zenon, <1>1, <1>2, <1>3 DEF IrqFrame, handle, IInv, TypeOK
  <2> QED
    BY Zenon, <2>1, IrqFrameStep
<1>5. ResultInv'
  <2>1. ~(mode = "acked" /\ faults = 0)
    BY Zenon, <1>1 DEF IInv, ResultInv, Quiet, Queued, Ended
  <2> QED
    BY <1>2, <1>3, <2>1 DEF ResultInv, IInv, TypeOK
<1> QED
  BY Zenon, <1>4, <1>5 DEF IInv

\* A payload goes on air.
LEMMA StartOnAirStep == ASSUME IInv, StartOnAir PROVE IInv'
<1>0. chip.fifo \in Seq(Int) /\ chip.fifo # <<>> /\ Head(chip.fifo) \in Int
  BY DEF IInv, TypeOK, Chips, StartOnAir
<1>1. Wrote(chip', "flight", Head(chip.fifo))
  <2>1. Wrote([chip EXCEPT !.flight = Head(chip.fifo)], "flight", Head(chip.fifo))
    BY Zenon, <1>0, ChipWrite DEF IInv
  <2> QED
    BY Zenon, <2>1 DEF StartOnAir
<1>2. /\ chip' \in Chips /\ chip'.flight = Head(chip.fifo)
      /\ chip'.masked = chip.masked /\ chip'.pwr = chip.pwr /\ chip'.status = chip.status
      /\ chip'.TX_ADDR = chip.TX_ADDR /\ chip'.RX_ADDR_P0 = chip.RX_ADDR_P0 /\ chip'.fifo = chip.fifo
  BY Zenon, <1>1 DEF Wrote
<1>3. ce /\ chip.flight = 0 /\ "MAX_RT" \notin chip.status /\ UNCHANGED <<Driver, evt, history>>
  BY Zenon DEF StartOnAir
<1> USE <1>2, <1>3 DEF IInv, Driver, handle, bounds, history
<1>4. TypeOK'
  BY Zenon DEF TypeOK
<1>5. StartInv'
  BY DEF StartInv, MaskBit
<1>6. QuietInv'
  BY Zenon DEF QuietInv
<1>7. AddrInv'
  BY Zenon DEF AddrInv
<1>8. ResultInv'
  <2> SUFFICES ASSUME mode = "acked", faults = 0 PROVE ResultInv'
    BY Zenon DEF ResultInv
  <2>1. pc["tx"] = "wait" /\ finished = 0 /\ Queued /\ inited
    BY Zenon, <1>0 DEF ResultInv, Quiet, Ended
  <2>2. Queued'
    BY <2>1 DEF Queued
  <2> QED
    BY Zenon, <2>1, <2>2 DEF ResultInv, SendingLabels
<1> QED
  BY Zenon, <1>4, <1>5, <1>6, <1>7, <1>8

\* A transmission ends.
LEMMA EndOnAirStep == ASSUME IInv, EndOnAir PROVE IInv'
<1>1. PICK f \in SUBSET Flags :
        /\ mode = "acked" => f \in {{"TX_DS"}, {"MAX_RT"}}
        /\ chip' = [chip EXCEPT !.flight = 0, !.status = @ \cup f,
                                !.fifo = IF "TX_DS" \in f /\ @ # <<>> THEN Tail(@) ELSE @]
        /\ acked' = (acked \/ (UseAck /\ "TX_DS" \in f /\ chip.flight = sends))
        /\ evt' = (evt \/ (armed /\ ~chip.masked /\ chip.status = {}))
  <2> DEFINE F == {{"TX_DS"}} \cup (IF UseAck THEN {{"MAX_RT"}} ELSE {})
                    \cup (IF mode = "ack_payload" THEN {{"TX_DS", "RX_DR"}} ELSE {})
  <2>1. \A f \in F : f \in SUBSET Flags /\ (mode = "acked" => f \in {{"TX_DS"}, {"MAX_RT"}})
    BY DEF Flags
  <2>2. \E f \in F :
          /\ chip' = [chip EXCEPT !.flight = 0, !.status = @ \cup f,
                                  !.fifo = IF "TX_DS" \in f /\ @ # <<>> THEN Tail(@) ELSE @]
          /\ acked' = (acked \/ (UseAck /\ "TX_DS" \in f /\ chip.flight = sends))
          /\ evt' = (evt \/ (armed /\ ~chip.masked /\ chip.status = {}))
    BY Zenon DEF EndOnAir
  <2> HIDE DEF F
  <2> QED
    BY Zenon, <2>1, <2>2
<1>0. chip \in Chips /\ chip.fifo \in Seq(Int)
  BY Zenon DEF IInv, TypeOK, Chips
<1> DEFINE q == IF "TX_DS" \in f /\ chip.fifo # <<>> THEN Tail(chip.fifo) ELSE chip.fifo
<1>2. q \in Seq(Int) /\ chip.status \cup f \in SUBSET Flags
  BY <1>0 DEF Chips
<1>3. chip' = [chip EXCEPT !.flight = 0, !.status = chip.status \cup f, !.fifo = q]
  BY Zenon, <1>1
<1>4. /\ (\A i \in 1..Len(chip.fifo) : chip.fifo[i] # -1) => \A i \in 1..Len(q) : q[i] # -1
      /\ (\A i \in 1..Len(chip.fifo) : chip.fifo[i] = -1) => \A i \in 1..Len(q) : q[i] = -1
      /\ chip.fifo = <<sends>> => q = IF "TX_DS" \in f THEN <<>> ELSE <<sends>>
  <2>1. CASE "TX_DS" \in f /\ chip.fifo # <<>>
    <3>1. q = Tail(chip.fifo)
      BY Zenon, <2>1
    <3>2. Len(q) = Len(chip.fifo) - 1 /\ \A i \in 1..Len(q) : q[i] = chip.fifo[i + 1]
      BY <3>1, <1>0, <2>1
    <3>3. chip.fifo = <<sends>> => q = <<>>
      BY <3>1
    <3> QED
      BY <1>0, <2>1, <3>2, <3>3
  <2>2. CASE ~("TX_DS" \in f /\ chip.fifo # <<>>)
    BY Zenon, <2>2
  <2> QED
    BY Zenon, <2>1, <2>2
<1> HIDE DEF q
<1>5. chip' \in Chips
  <2> DEFINE c1 == [chip EXCEPT !.flight = 0]
             c2 == [c1 EXCEPT !.status = chip.status \cup f]
  <2>1. c1 \in Chips
    BY <1>0 DEF Chips
  <2> HIDE DEF c1
  <2>2. c2 \in Chips
    BY Zenon, <1>2, <2>1 DEF Chips
  <2> HIDE DEF c2
  <2>3. [c2 EXCEPT !.fifo = q] \in Chips
    BY Zenon, <1>2, <2>2 DEF Chips
  <2> QED
    BY Zenon, <1>3, <2>3 DEF c1, c2
<1>6. /\ chip'.flight = 0 /\ chip'.status = chip.status \cup f /\ chip'.fifo = q
      /\ chip'.masked = chip.masked /\ chip'.pwr = chip.pwr
      /\ chip'.TX_ADDR = chip.TX_ADDR /\ chip'.RX_ADDR_P0 = chip.RX_ADDR_P0
  BY Zenon, <1>0, <1>3 DEF Chips
<1>7. chip.flight # 0 /\ UNCHANGED <<Driver, meddled, botched>>
  BY Zenon DEF EndOnAir
<1> USE <1>5, <1>6, <1>7 DEF IInv, Driver, handle, bounds
<1>8. TypeOK'
  BY Zenon DEF TypeOK
<1>9. StartInv'
  BY ZenonT(30), <1>1, <1>4 DEF TypeOK, StartInv, MaskBit, StartLabels
<1>10. QuietInv'
  <2>1. mode = "firmware" /\ ~botched /\ inited /\ armed => chip.masked
    <3>1. armed /\ inited /\ ~botched => step = 11
      BY Zenon DEF StartInv, StartLabels
    <3> QED
      BY <3>1 DEF StartInv, MaskBit
  <2> QED
    BY Zenon, <1>1, <2>1 DEF QuietInv
<1>11. AddrInv'
  BY Zenon, <1>4 DEF AddrInv
<1>12. ResultInv'
  <2> SUFFICES ASSUME mode = "acked", faults = 0 PROVE ResultInv'
    BY Zenon DEF ResultInv
  <2>1. /\ pc["tx"] = "wait" /\ finished = 0 /\ Queued /\ inited /\ armed /\ chip.flight = sends
        /\ ~botched
    BY Zenon DEF ResultInv, Quiet, Ended, Queued, StartLabels
  <2>5. ~chip.masked
    <3>1. step = 11
      BY Zenon, <2>1 DEF StartInv
    <3> QED
      BY <3>1 DEF StartInv, MaskBit
  <2>2. PICK g \in {"TX_DS", "MAX_RT"} : f = {g}
    BY Zenon, <1>1
  <2>3. (acked' <=> g = "TX_DS") /\ evt' /\ q = (IF g = "TX_DS" THEN <<>> ELSE <<sends>>)
    BY Zenon, <1>1, <1>4, <2>1, <2>2, <2>5 DEF Queued, UseAck
  <2>4. Ended'
    BY Zenon, <2>1, <2>2, <2>3 DEF Queued, Ended
  <2> QED
    BY Zenon, <2>1, <2>4 DEF ResultInv, SendingLabels
<1> QED
  BY ZenonT(30), <1>8, <1>9, <1>10, <1>11, <1>12

-----------------------------------------------------------------------------
(* The invariant, and what it shows.                                       *)

\* The initial states satisfy the invariant.
LEMMA InitIInv == Init => IInv
<1> SUFFICES ASSUME Init PROVE IInv
  BY Zenon
<1> USE DEF TxLabels, IrqLabels, ShellLabels, StartLabels, SetTxLabels, SendingLabels
<1>1. PowerOn \in Chips /\ WarmStart \in Chips
  BY NrfAssumption DEF PowerOn, WarmStart, Chips, Flags, None
<1>2. chip \in Chips /\ (mode = "acked" => chip = PowerOn)
  BY Zenon, <1>1 DEF Init
<1>3. /\ pc \in [Thread -> Labels]
      /\ pc["tx"] = "init" /\ pc["irq"] = "event" /\ pc["shell"] = "idle"
  BY Zenon DEF Init, Thread, Labels
<1>4. TypeOK
  BY <1>2, <1>3 DEF Init, TypeOK
<1>5. StartInv
  BY <1>3 DEF Init, StartInv
<1>6. QuietInv
  BY Zenon, <1>3 DEF Init, QuietInv
<1>7. AddrInv
  <2>1. \A i \in 1..Len(chip.fifo) : chip.fifo[i] = -1
    BY DEF Init, PowerOn, WarmStart
  <2> QED
    BY Zenon, <1>3, <2>1 DEF AddrInv
<1>8. ResultInv
  BY <1>2, <1>3 DEF Init, ResultInv, Quiet, PowerOn
<1> QED
  BY Zenon, <1>4, <1>5, <1>6, <1>7, <1>8 DEF IInv

\* Every step keeps the invariant.
LEMMA NextIInv == IInv /\ [Next]_vars => IInv'
<1> SUFFICES ASSUME IInv, [Next]_vars PROVE IInv'
  BY Zenon
<1>1. CASE UNCHANGED vars
  <2>1. TypeOK' /\ ShellFrame
    BY Zenon, <1>1 DEF vars, IInv, TypeOK, ShellFrame, bounds, history
  <2> QED
    BY Zenon, <2>1, ShellFrameStep
<1>2. CASE TxThread
  <2>1. ASSUME SetAddress("tx", SetLabels) \/ SetAddress("tx", SendLabels) PROVE IInv'
    <3>1. \/ \E l, next :
               /\ \/ l = "set_width" /\ next = "set_tx"
                  \/ l = "set_width0" /\ next = "set_p0"
                  \/ l = "send_width" /\ next = "send_tx"
                  \/ l = "send_width0" /\ next = "send_p0"
               /\ ReadWidth("tx", l, next)
          \/ \E l, next, c : TxWrites(l, next, c) /\ WriteAddress("tx", l, c, next)
      BY Zenon, <2>1 DEF SetAddress, SetLabels, SendLabels, AddressOf, TxWrites
    <3> QED
      BY Zenon, <3>1, TxReadStep, TxWriteStep
  <2> QED
    BY Zenon, <1>2, <2>1, InitStep, ConfigStep, DeinitStep, ArmStep, TxSaveStep, BasicSendStep, SendStep,
       LoadStep, StartSendingStep, EndOfSendStep DEF TxThread
<1>3. CASE IrqThread
  BY Zenon, <1>3, TakeEventStep, ReadStatusStep, ClearStatusStep, FlushTxStep, ReceiveStep DEF IrqThread
<1>4. CASE Shell
  <2>1. ASSUME SetAddress("shell", SetLabels) PROVE IInv'
    <3>1. CASE ReadWidth("shell", "set_width", "set_tx") \/ ReadWidth("shell", "set_width0", "set_p0")
      BY Zenon, <3>1, ShellReadStep
    <3>2. CASE WriteAddress("shell", "set_tx", [chip EXCEPT !.TX_ADDR = addr], "set_width0")
      <4>1. Wrote([chip EXCEPT !.TX_ADDR = addr], "TX_ADDR", addr)
        BY Zenon, <3>2, ChipWrite DEF IInv, TypeOK, WriteAddress
      <4> QED
        BY <3>2, <4>1, ShellWriteStep
    <3>3. CASE WriteAddress("shell", "set_p0", [chip EXCEPT !.RX_ADDR_P0 = addr], "save")
      <4>1. Wrote([chip EXCEPT !.RX_ADDR_P0 = addr], "RX_ADDR_P0", addr)
        BY Zenon, <3>3, ChipWrite DEF IInv, TypeOK, WriteAddress
      <4> QED
        BY <3>3, <4>1, ShellWriteStep
    <3> QED
      BY Zenon, <2>1, <3>1, <3>2, <3>3 DEF SetAddress, SetLabels, AddressOf
  <2> QED
    BY Zenon, <1>4, <2>1, AddrCmdStep, ChannelCmdStep, ShellSaveStep DEF Shell
<1>5. CASE OnAir
  BY Zenon, <1>5, StartOnAirStep, EndOnAirStep DEF OnAir
<1> QED
  BY Zenon, <1>1, <1>2, <1>3, <1>4, <1>5 DEF Next

\* The inductive invariant holds in every run of the driver.
THEOREM DriverInvariant == Spec => []IInv
  BY InitIInv, NextIInv, PTL DEF Spec

\* While the firmware's nrf24l01_basic_send prepares a packet CE is low.
THEOREM PacketsPreparedQuietly == Spec => []QuietWhileLoading
<1>1. IInv => QuietWhileLoading
  BY Zenon DEF IInv, QuietInv, QuietWhileLoading, SendingLabels
<1> QED
  BY <1>1, DriverInvariant, PTL

\* A send with acknowledgment returns what the receiver did, when no access to
\* the chip fails.
THEOREM SendReportsTruly == Spec => []ResultTrue
<1>1. IInv => ResultTrue
  BY Zenon DEF IInv, ResultInv, ResultTrue
<1> QED
  BY <1>1, DriverInvariant, PTL

\* Between the start of basic_init and its end the chip does not transmit, and
\* afterwards nothing of before the reset.
THEOREM ConfiguredBeforeSending == Spec => OnlyConfiguredSends
<1>1. IInv /\ [Next]_vars =>
        [StartOnAir => botched \/ step = 1 \/ (Configured /\ Head(chip.fifo) # -1)]_vars
  <2> SUFFICES ASSUME IInv, StartOnAir, ~botched, step # 1
               PROVE  Configured /\ Head(chip.fifo) # -1
    BY Zenon
  <2>1. step = 11
    BY DEF IInv, StartInv, TypeOK, StartOnAir
  <2>2. Len(InitSteps) = 10
    BY Zenon DEF InitSteps
  <2>3. chip.fifo \in Seq(Int) /\ chip.fifo # <<>>
    BY Zenon DEF IInv, TypeOK, Chips, StartOnAir
  <2>4. 1 \in 1..Len(chip.fifo) /\ Head(chip.fifo) = chip.fifo[1]
    BY <2>3
  <2> QED
    BY <2>1, <2>2, <2>4 DEF Configured, IInv, StartInv
<1> QED
  BY <1>1, DriverInvariant, PTL DEF Spec, OnlyConfiguredSends

\* What the firmware sends goes to the address nrf24_tx passes.
THEOREM SentToTheAddressPassed == Spec => AddressedRight
<1>1. IInv /\ [Next]_vars =>
        [mode = "firmware" /\ StartOnAir /\ Head(chip.fifo) # -1 =>
           botched \/ meddled \/ (chip.TX_ADDR = TxAddr /\ chip.RX_ADDR_P0 = TxAddr)]_vars
  <2> SUFFICES ASSUME IInv, StartOnAir, mode = "firmware", Head(chip.fifo) # -1, ~botched, ~meddled
               PROVE  chip.TX_ADDR = TxAddr /\ chip.RX_ADDR_P0 = TxAddr
    BY Zenon
  <2>1. ce /\ chip.fifo \in Seq(Int) /\ chip.fifo # <<>> /\ pc["tx"] \in TxLabels
    BY Zenon DEF IInv, TypeOK, Chips, StartOnAir
  <2>2. 1 \in 1..Len(chip.fifo) /\ chip.fifo[1] # -1
    BY <2>1
  <2>3. pc["tx"] \in {"wait", "loop"}
    BY Zenon, <2>1, <2>2 DEF IInv, AddrInv, QuietInv, TxLabels
  <2> QED
    BY Zenon, <2>1, <2>2, <2>3 DEF IInv, AddrInv
<1> QED
  BY <1>1, DriverInvariant, PTL DEF Spec, AddressedRight
=============================================================================
