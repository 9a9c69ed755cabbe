-------------------------------- MODULE XSpi --------------------------------
(***************************************************************************)
(* The XSpi driver (xspi.c, xspi_options.c) and the AXI Quad SPI core it   *)
(* drives over PCI, in the polled mode that XSpi_Start leaves it in.       *)
(*                                                                         *)
(* The driver is one thread that makes one register access at a time; the  *)
(* core is a second process that moves a byte from the transmit FIFO over  *)
(* the bus into the receive FIFO whenever its registers let it.  Bytes are *)
(* identified by their position in the buffer of the transfer that sent    *)
(* them: the byte received while byte i goes out is written i as well.     *)
(*                                                                         *)
(* Configuration (xspi_g.c, xparameters.h): FIFOs exist, one slave bit,    *)
(* 8 bit width, not slave-only, no STARTUP block.                          *)
(***************************************************************************)
EXTENDS Naturals, Sequences

CONSTANTS
  MaxBytes,    (* longest transfer: PAGE_SIZE + 9 = 265 in the code        *)
  FifoDepth,   (* depth of the core's transmit and receive FIFOs           *)
  PollBudget,  (* loopcountdown: 100 in the code                           *)
  UIntMax,     (* largest value of "unsigned int ByteCount"                *)
  SlaveMasks   (* the masks passed to XSpi_SetSlaveSelect                  *)

ASSUME SizesAssumption ==
  /\ MaxBytes \in Nat \ {0}
  /\ FifoDepth \in Nat \ {0}
  /\ PollBudget \in Nat \ {0}
  /\ UIntMax \in Nat
  /\ MaxBytes <= UIntMax
  /\ SlaveMasks \subseteq {0, 1}

VARIABLES
  isReady, isStarted, isBusy,  (* XSpi.IsReady, IsStarted, IsBusy          *)
  slaveSelectReg,  (* XSpi.SlaveSelectReg: "mask", "slave" or "ones"       *)
  requested,       (* XSpi.RequestedBytes                                  *)
  remaining,       (* XSpi.RemainingBytes                                  *)
  pc,              (* where the driver is; "idle" between calls            *)
  call,            (* the call in progress, or the last one                *)
  ret,             (* what the last call returned                          *)
  byteCount,       (* XSpi_Transfer's ByteCount                            *)
  countdown,       (* XSpi_Transfer's loopcountdown                        *)
  recv,            (* what XSpi_Transfer stored through RecvBufferPtr      *)
  spe, master, inhibit,  (* control register: enable, master, inhibit      *)
  ssr,             (* slave select register asserts the flash's select     *)
  txFifo, rxFifo,  (* the FIFOs                                            *)
  txEmpty,         (* IPISR bit XSP_INTR_TX_EMPTY_MASK                     *)
  lost,            (* a byte met a full FIFO and was dropped (history)     *)
  frame            (* bytes the flash saw since it was selected (history)  *)

driverVars == <<isReady, isStarted, isBusy, slaveSelectReg>>
xferVars   == <<requested, remaining, byteCount, countdown, recv>>
flowVars   == <<pc, call, ret>>
fifoVars   == <<txFifo, rxFifo, lost>>
ctrlVars   == <<spe, master, inhibit>>
coreVars   == <<ctrlVars, ssr, fifoVars, txEmpty, frame>>
vars       == <<driverVars, xferVars, flowVars, coreVars>>

-----------------------------------------------------------------------------
(* The program counter of XSpi_Transfer, and of XSpi_Abort inside the      *)
(* calls that use it.                                                      *)

TransferPcs == {"fillFirst", "fill", "select", "uninhibit", "loop", "poll",
                "clear", "inhibit", "drain", "refill"}
Calls       == {"none", "CfgInitialize", "SetOptions", "SetSlaveSelect",
                "Start", "Stop", "Reset", "Abort", "Transfer"}
Statuses    == {"none", "XST_SUCCESS", "XST_FAILURE", "XST_DEVICE_IS_STARTED",
                "XST_DEVICE_IS_STOPPED", "XST_DEVICE_BUSY", "XST_SPI_NO_SLAVE"}

(* The call c is made and returns status s at once.                        *)
Return(c, s) ==
  pc = "idle" /\ pc' = "idle" /\ call' = c /\ ret' = s

(* The call in progress goes on at label l.                                *)
Goto(l) == pc' = l /\ UNCHANGED <<call, ret>>

(* 1, 2, ..., n                                                            *)
Bytes(n) == [i \in 1..n |-> i]

-----------------------------------------------------------------------------
(* The core (external hardware, as the driver's register accesses use it). *)

(* A write of b to the data transmit register: a full FIFO drops it.       *)
WriteDTR(b) ==
  /\ txFifo' = IF Len(txFifo) < FifoDepth THEN Append(txFifo, b) ELSE txFifo
  /\ lost'   = (lost \/ Len(txFifo) >= FifoDepth)

(* One byte goes out and one comes in.  DTR-empty is latched in the IPISR  *)
(* when the last byte has left; the flash sees the byte if it is selected. *)
CoreShift ==
  /\ spe /\ master /\ ~inhibit /\ txFifo # <<>>
  /\ txFifo' = Tail(txFifo)
  /\ rxFifo' = IF Len(rxFifo) < FifoDepth THEN Append(rxFifo, Head(txFifo))
                                          ELSE rxFifo
  /\ lost' = (lost \/ Len(rxFifo) >= FifoDepth)
  /\ txEmpty' = (txEmpty \/ Len(txFifo) = 1)
  /\ frame' = IF ssr THEN Append(frame, Head(txFifo)) ELSE frame
  /\ UNCHANGED <<driverVars, xferVars, flowVars, ctrlVars, ssr>>

Init ==
  /\ isReady = FALSE /\ isStarted = FALSE /\ isBusy = FALSE
  /\ slaveSelectReg = "mask"
  /\ requested = 0 /\ remaining = 0 /\ byteCount = 0 /\ countdown = 0
  /\ recv = <<>>
  /\ pc = "idle" /\ call = "none" /\ ret = "none"
  /\ spe = FALSE /\ master = FALSE /\ inhibit = TRUE /\ ssr = FALSE
  /\ txFifo = <<>> /\ rxFifo = <<>> /\ txEmpty = FALSE
  /\ lost = FALSE /\ frame = <<>>

-----------------------------------------------------------------------------
(* Bringing the device up and down.                                        *)

(* XSpi_CfgInitialize on a started device.                                 *)
CfgInitializeRefused ==
  /\ isStarted
  /\ Return("CfgInitialize", "XST_DEVICE_IS_STARTED")
  /\ UNCHANGED <<driverVars, xferVars, coreVars>>

(* Fault for the mutation runs: the started test is missing.               *)
CfgInitializeUnguarded ==
  /\ pc = "idle"
  /\ isReady' = TRUE /\ isStarted' = FALSE /\ isBusy' = FALSE
  /\ slaveSelectReg' = "mask"
  /\ requested' = 0 /\ remaining' = 0
  /\ pc' = "abort" /\ call' = "CfgInitialize" /\ ret' = "none"
  /\ ssr' = FALSE
  /\ UNCHANGED <<byteCount, countdown, recv, ctrlVars, fifoVars, txEmpty, frame>>

(* XSpi_CfgInitialize: the instance's fields, then XSpi_Reset, which calls *)
(* XSpi_Abort, whose first register access is to deselect the slave.       *)
CfgInitialize ==
  /\ pc = "idle" /\ ~isStarted
  /\ isReady' = TRUE /\ isStarted' = FALSE /\ isBusy' = FALSE
  /\ slaveSelectReg' = "mask"
  /\ requested' = 0 /\ remaining' = 0
  /\ pc' = "abort" /\ call' = "CfgInitialize" /\ ret' = "none"
  /\ ssr' = FALSE
  /\ UNCHANGED <<byteCount, countdown, recv, ctrlVars, fifoVars, txEmpty, frame>>

(* XSpi_Abort and XSpi_Reset as a client calls them: c is the call.        *)
AbortDeselect(c) ==
  /\ pc = "idle" /\ isReady
  /\ pc' = "abort" /\ call' = c /\ ret' = "none"
  /\ ssr' = FALSE
  /\ UNCHANGED <<driverVars, xferVars, ctrlVars, fifoVars, txEmpty, frame>>

(* Fault for the mutation runs: the FIFO reset bits are not set.           *)
AbortKeepsFifos ==
  /\ pc = "abort" /\ call = "Abort"
  /\ inhibit' = TRUE
  /\ requested' = 0 /\ remaining' = 0 /\ isBusy' = FALSE
  /\ pc' = "idle" /\ ret' = "XST_SUCCESS"
  /\ UNCHANGED <<isReady, isStarted, slaveSelectReg, byteCount, countdown, recv,
                 call, spe, master, ssr, fifoVars, txEmpty, frame>>

(* The rest of XSpi_Abort: inhibit the transmitter and reset the FIFOs in  *)
(* one control register write, clear the byte counts and the busy flag.    *)
AbortInhibit ==
  /\ pc = "abort" /\ call = "Abort"
  /\ inhibit' = TRUE /\ txFifo' = <<>> /\ rxFifo' = <<>>
  /\ requested' = 0 /\ remaining' = 0 /\ isBusy' = FALSE
  /\ pc' = "idle" /\ ret' = "XST_SUCCESS"
  /\ UNCHANGED <<isReady, isStarted, slaveSelectReg, byteCount, countdown, recv,
                 call, spe, master, ssr, txEmpty, lost, frame>>

(* The rest of XSpi_Abort inside XSpi_Reset, and then XSpi_Reset's own     *)
(* part: the software state, and the software reset of the whole core.     *)
ResetCore ==
  /\ pc = "abort" /\ call \in {"Reset", "CfgInitialize"}
  /\ requested' = 0 /\ remaining' = 0 /\ isBusy' = FALSE
  /\ isStarted' = FALSE /\ slaveSelectReg' = "mask"
  /\ spe' = FALSE /\ master' = FALSE /\ inhibit' = TRUE
  /\ txFifo' = <<>> /\ rxFifo' = <<>> /\ txEmpty' = FALSE
  /\ pc' = "idle" /\ ret' = "XST_SUCCESS"
  /\ UNCHANGED <<isReady, byteCount, countdown, recv, call, ssr, lost, frame>>

(* XSpi_SetOptions: only the master option matters to the core here.       *)
SetOptions(m) ==
  /\ isReady
  /\ Return("SetOptions", IF isBusy THEN "XST_DEVICE_BUSY" ELSE "XST_SUCCESS")
  /\ master' = IF isBusy THEN master ELSE m
  /\ UNCHANGED <<driverVars, xferVars, spe, inhibit, ssr, fifoVars, txEmpty, frame>>

(* XSpi_SetSlaveSelect stores ~SlaveMask, 32 bits wide: all ones for mask  *)
(* 0, which is not the value SlaveSelectMask (1) that "no slave" has after *)
(* a reset.  More than one asserted bit cannot be with one slave bit.      *)
SetSlaveSelect(m) ==
  /\ isReady
  /\ Return("SetSlaveSelect", IF isBusy THEN "XST_DEVICE_BUSY" ELSE "XST_SUCCESS")
  /\ slaveSelectReg' = IF isBusy THEN slaveSelectReg
                       ELSE IF m = 0 THEN "ones" ELSE "slave"
  /\ UNCHANGED <<isReady, isStarted, isBusy, xferVars, coreVars>>

(* XSpi_Start refused: not initialised, or started already.                *)
StartRefused ==
  /\ ~isReady \/ isStarted
  /\ Return("Start", IF ~isReady THEN "XST_FAILURE" ELSE "XST_DEVICE_IS_STARTED")
  /\ UNCHANGED <<driverVars, xferVars, coreVars>>

(* XSpi_Start: resets the FIFOs and enables the core; the global interrupt *)
(* enable is set and cleared again, which is what makes the mode polled.   *)
Start ==
  /\ isReady /\ ~isStarted
  /\ Return("Start", "XST_SUCCESS")
  /\ isStarted' = TRUE
  /\ spe' = TRUE /\ txFifo' = <<>> /\ rxFifo' = <<>>
  /\ UNCHANGED <<isReady, isBusy, slaveSelectReg, xferVars, master, inhibit,
                 ssr, lost, txEmpty, frame>>

(* XSpi_Stop: refused while busy, else disables the core.                  *)
Stop ==
  /\ isReady
  /\ Return("Stop", IF isBusy THEN "XST_DEVICE_BUSY" ELSE "XST_SUCCESS")
  /\ isStarted' = (isStarted /\ isBusy)
  /\ spe' = (spe /\ isBusy)
  /\ UNCHANGED <<isReady, isBusy, slaveSelectReg, xferVars, master, inhibit,
                 ssr, fifoVars, txEmpty, frame>>

(* The process that holds the driver ends at any point; its successor      *)
(* starts from zeroed statics while the core keeps what it was doing.      *)
ProcessEnd ==
  /\ isReady' = FALSE /\ isStarted' = FALSE /\ isBusy' = FALSE
  /\ slaveSelectReg' = "mask"
  /\ requested' = 0 /\ remaining' = 0 /\ byteCount' = 0 /\ countdown' = 0
  /\ recv' = <<>>
  /\ pc' = "idle" /\ call' = "none" /\ ret' = "none"
  /\ UNCHANGED coreVars

-----------------------------------------------------------------------------
(* XSpi_Transfer.                                                          *)

(* Fault for the mutation runs: the busy test is missing.                  *)
TransferStatusNotBusy ==
  IF ~isReady THEN "XST_FAILURE"
  ELSE IF ~isStarted THEN "XST_DEVICE_IS_STOPPED"
  ELSE IF master /\ slaveSelectReg = "mask" THEN "XST_SPI_NO_SLAVE"
  ELSE "none"

(* The early returns, in the code's order.                                 *)
TransferStatus ==
  IF ~isReady THEN "XST_FAILURE"
  ELSE IF ~isStarted THEN "XST_DEVICE_IS_STOPPED"
  ELSE IF isBusy THEN "XST_DEVICE_BUSY"
  ELSE IF master /\ slaveSelectReg = "mask" THEN "XST_SPI_NO_SLAVE"
  ELSE "none"

TransferRefused ==
  /\ TransferStatus # "none"
  /\ Return("Transfer", TransferStatus)
  /\ UNCHANGED <<driverVars, xferVars, coreVars>>

(* Past the guards: the busy flag and the buffer pointers.                 *)
TransferBegin(n) ==
  /\ pc = "idle" /\ TransferStatus = "none"
  /\ isBusy' = TRUE
  /\ requested' = n /\ remaining' = n /\ byteCount' = n /\ recv' = <<>>
  /\ pc' = "fillFirst" /\ call' = "Transfer" /\ ret' = "none"
  /\ UNCHANGED <<isReady, isStarted, slaveSelectReg, countdown, coreVars>>

(* One byte of the send buffer into the transmit register.                 *)
SendByte ==
  /\ WriteDTR(requested - remaining + 1)
  /\ remaining' = remaining - 1
  /\ UNCHANGED <<driverVars, requested, byteCount, countdown, recv, ctrlVars, ssr,
                 rxFifo, txEmpty, frame>>

(* The first test of the fill loop looks for "transmit FIFO full" in the   *)
(* interrupt status register, whose bit 3 is transmit underrun and is      *)
(* never set in a master: the first byte goes in whatever the FIFO holds.  *)
FillFirst == pc = "fillFirst" /\ SendByte /\ Goto("fill")

(* Fault for the mutation runs: the count is not tested.                   *)
CanFillUncounted == Len(txFifo) < FifoDepth

(* The later tests read the status register.                               *)
CanFill == Len(txFifo) < FifoDepth /\ remaining > 0

Fill(from) == pc = from /\ CanFill /\ SendByte /\ Goto(from)

FillDone(from, to) ==
  /\ pc = from /\ ~CanFill /\ Goto(to)
  /\ UNCHANGED <<driverVars, xferVars, coreVars>>

(* XSpi_SetSlaveSelectReg(SlaveSelectReg): a slave newly selected starts a *)
(* new frame.                                                              *)
SelectSlave ==
  /\ pc = "select" /\ Goto("uninhibit")
  /\ ssr' = (slaveSelectReg = "slave")
  /\ frame' = IF ssr' /\ ~ssr THEN <<>> ELSE frame
  /\ UNCHANGED <<driverVars, xferVars, ctrlVars, fifoVars, txEmpty>>

Uninhibit ==
  /\ pc = "uninhibit" /\ Goto("loop")
  /\ inhibit' = FALSE
  /\ UNCHANGED <<driverVars, xferVars, spe, master, ssr, fifoVars, txEmpty, frame>>

(* while (ByteCount > 0) { int loopcountdown = 100;                        *)
LoopAgain ==
  /\ pc = "loop" /\ byteCount > 0 /\ Goto("poll")
  /\ countdown' = PollBudget
  /\ UNCHANGED <<driverVars, requested, remaining, byteCount, recv, coreVars>>

(* Fault for the mutation runs: giving up is reported as success.          *)
PollTimeoutSucceeds ==
  /\ pc = "poll" /\ countdown = 1
  /\ countdown' = 0
  /\ pc' = "idle" /\ ret' = "XST_SUCCESS" /\ UNCHANGED call
  /\ UNCHANGED <<driverVars, requested, remaining, byteCount, recv, coreVars>>

(* One read of the IPISR that uses up the budget: the transfer gives up,   *)
(* even if this very read saw DTR-empty, and leaves everything as it is.   *)
PollTimeout ==
  /\ pc = "poll" /\ countdown = 1
  /\ countdown' = 0
  /\ pc' = "idle" /\ ret' = "XST_FAILURE" /\ UNCHANGED call
  /\ UNCHANGED <<driverVars, requested, remaining, byteCount, recv, coreVars>>

(* Fault for the mutation runs: the wait is not counted down.              *)
PollForever ==
  /\ pc = "poll" /\ countdown > 1
  /\ UNCHANGED countdown
  /\ Goto(IF txEmpty THEN "clear" ELSE "poll")
  /\ UNCHANGED <<driverVars, requested, remaining, byteCount, recv, coreVars>>

(* One read of the IPISR with budget left.                                 *)
Poll ==
  /\ pc = "poll" /\ countdown > 1
  /\ countdown' = countdown - 1
  /\ Goto(IF txEmpty THEN "clear" ELSE "poll")
  /\ UNCHANGED <<driverVars, requested, remaining, byteCount, recv, coreVars>>

(* XSpi_IntrClear: the register toggles on write.                          *)
ClearIntr ==
  /\ pc = "clear" /\ Goto("inhibit")
  /\ txEmpty' = ~txEmpty
  /\ UNCHANGED <<driverVars, xferVars, ctrlVars, ssr, fifoVars, frame>>

(* Fault for the mutation runs: the transmitter runs on during the refill. *)
InhibitSkipped ==
  /\ pc = "inhibit" /\ Goto("drain")
  /\ UNCHANGED <<driverVars, xferVars, coreVars>>

Inhibit ==
  /\ pc = "inhibit" /\ Goto("drain")
  /\ inhibit' = TRUE
  /\ UNCHANGED <<driverVars, xferVars, spe, master, ssr, fifoVars, txEmpty, frame>>

(* One byte out of the receive register; ByteCount is unsigned.            *)
Drain ==
  /\ pc = "drain" /\ rxFifo # <<>> /\ Goto("drain")
  /\ recv' = Append(recv, Head(rxFifo))
  /\ rxFifo' = Tail(rxFifo)
  /\ byteCount' = IF byteCount = 0 THEN UIntMax ELSE byteCount - 1
  /\ UNCHANGED <<driverVars, requested, remaining, countdown, ctrlVars, ssr, txFifo,
                 lost, txEmpty, frame>>

(* The receive FIFO is empty: refill if bytes remain to be sent.           *)
DrainDone ==
  /\ pc = "drain" /\ rxFifo = <<>>
  /\ Goto(IF remaining > 0 THEN "refill" ELSE "loop")
  /\ UNCHANGED <<driverVars, xferVars, coreVars>>

(* Fault for the mutation runs: done when all is sent, not when received.  *)
TransferDoneOnSent ==
  /\ pc = "loop" /\ remaining = 0
  /\ inhibit' = TRUE /\ ssr' = FALSE /\ isBusy' = FALSE
  /\ pc' = "idle" /\ ret' = "XST_SUCCESS" /\ UNCHANGED call
  /\ UNCHANGED <<isReady, isStarted, slaveSelectReg, xferVars, spe, master,
                 fifoVars, txEmpty, frame>>

(* ByteCount is 0: inhibit, deselect, clear the busy flag.                 *)
TransferDone ==
  /\ pc = "loop" /\ byteCount = 0
  /\ inhibit' = TRUE /\ ssr' = FALSE /\ isBusy' = FALSE
  /\ pc' = "idle" /\ ret' = "XST_SUCCESS" /\ UNCHANGED call
  /\ UNCHANGED <<isReady, isStarted, slaveSelectReg, xferVars, spe, master,
                 fifoVars, txEmpty, frame>>

TransferStep ==
  \/ FillFirst \/ Fill("fill") \/ FillDone("fill", "select")
  \/ SelectSlave \/ Uninhibit \/ LoopAgain \/ Poll \/ PollTimeout
  \/ ClearIntr \/ Inhibit \/ Drain \/ DrainDone
  \/ Fill("refill") \/ FillDone("refill", "uninhibit")
  \/ TransferDone

-----------------------------------------------------------------------------
(* The whole driver interface, used in any order by one thread.            *)

DriverStep == TransferStep \/ AbortInhibit \/ ResetCore

Client ==
  \/ CfgInitializeRefused \/ CfgInitialize
  \/ \E c \in {"Abort", "Reset"} : AbortDeselect(c)
  \/ \E m \in BOOLEAN : SetOptions(m)
  \/ \E m \in SlaveMasks : SetSlaveSelect(m)
  \/ StartRefused \/ Start \/ Stop
  \/ TransferRefused \/ \E n \in 1..MaxBytes : TransferBegin(n)

Next == Client \/ DriverStep \/ CoreShift \/ ProcessEnd

Spec == Init /\ [][Next]_vars

(* A call that has begun is executed: its thread is not stopped for ever.  *)
FairSpec == Spec /\ WF_vars(DriverStep)

(* What flash_qspi_rw.c makes of the interface: System_init_startup's      *)
(* calls, and XSpi_Transfer.  Nothing in it ever stops, aborts or resets.  *)
AppClient ==
  \/ CfgInitializeRefused \/ CfgInitialize
  \/ SetOptions(TRUE) \/ SetSlaveSelect(1)
  \/ StartRefused \/ Start
  \/ TransferRefused \/ \E n \in 1..MaxBytes : TransferBegin(n)

AppNext == AppClient \/ DriverStep \/ CoreShift \/ ProcessEnd

AppSpec == Init /\ [][AppNext]_vars

-----------------------------------------------------------------------------
(* The type of every variable.                                             *)
TypeOK ==
  /\ isReady \in BOOLEAN /\ isStarted \in BOOLEAN /\ isBusy \in BOOLEAN
  /\ slaveSelectReg \in {"mask", "slave", "ones"}
  /\ requested \in 0..MaxBytes /\ remaining \in 0..MaxBytes
  /\ byteCount \in 0..UIntMax /\ countdown \in 0..PollBudget
  /\ recv \in Seq(1..MaxBytes)
  /\ pc \in {"idle", "abort"} \cup TransferPcs
  /\ call \in Calls /\ ret \in Statuses
  /\ spe \in BOOLEAN /\ master \in BOOLEAN /\ inhibit \in BOOLEAN
  /\ ssr \in BOOLEAN /\ txEmpty \in BOOLEAN /\ lost \in BOOLEAN
  /\ txFifo \in Seq(1..MaxBytes) /\ rxFifo \in Seq(1..MaxBytes)
  /\ frame \in Seq(1..MaxBytes)

(* When XSpi_Transfer returns XST_SUCCESS, every requested byte has crossed *)
(* the bus once and in order: the receive buffer holds exactly the answers *)
(* to bytes 1..n, the selected flash saw exactly the frame 1..n, and       *)
(* nothing is left in the core (xspi.c, "control exits this function only  *)
(* after all the requested data is transferred").                          *)
SuccessMeansExchanged ==
  (pc = "idle" /\ call = "Transfer" /\ ret = "XST_SUCCESS") =>
    /\ recv = Bytes(requested)
    /\ slaveSelectReg = "slave" => frame = Bytes(requested)
    /\ txFifo = <<>> /\ rxFifo = <<>>

(* The driver never knows the depth of the FIFOs, and one of its fills     *)
(* tests the wrong register (FillFirst): still no byte is ever written to  *)
(* a full transmit FIFO or received into a full receive FIFO, whatever the *)
(* core did between two register accesses and whatever was timed out,      *)
(* aborted or left behind by an earlier process.                           *)
NoByteLost == ~lost

(* XSpi_Transfer stores as many bytes as its loops find, with no test of   *)
(* the buffer's size: it never stores more than the caller asked for, and  *)
(* the unsigned ByteCount counts exactly the bytes still owed.             *)
RecvBufferBounded ==
  /\ Len(recv) <= requested \/ ~isBusy
  /\ pc \in TransferPcs => byteCount + Len(recv) = requested

(* A driver that is initialised, idle and not busy holds a bus at rest:    *)
(* transmitter inhibited, flash deselected, both FIFOs empty.  The next    *)
(* transfer relies on it; the driver never checks.                         *)
BusAtRest ==
  (isReady /\ pc = "idle" /\ ~isBusy) =>
    inhibit /\ ~ssr /\ txFifo = <<>> /\ rxFifo = <<>>

(* XSpi_Transfer deselects the flash only after the whole frame: a command *)
(* the flash starts to execute at deselection is never a truncated one     *)
(* (only an abort or a reset cuts a frame short).                          *)
CompleteFrames ==
  [][(ssr /\ ~ssr' /\ call = "Transfer" /\ call' = "Transfer")
       => frame = Bytes(requested)]_vars

(* A transfer that the poll budget cuts off leaves the driver busy, and    *)
(* only an abort, a reset or the end of the process frees it: no other     *)
(* call, and nothing the core does later, ends the wedge.                  *)
WedgedUntilAborted ==
  [][(pc = "idle" /\ isBusy) => \/ isBusy'
                                \/ call' = "none"]_vars

(* Every call comes back: the poll budget bounds the wait for a core that  *)
(* never empties its FIFO, and the fill and drain loops are finite.        *)
CallsReturn == (pc # "idle") ~> (pc = "idle")

(* The driver implements the port the flash layer programs against.        *)
Port == INSTANCE SpiPort WITH
  port     <- IF pc \in TransferPcs THEN "open" ELSE IF isBusy THEN "stuck" ELSE "closed",
  req      <- IF isBusy THEN requested ELSE 0,
  crossed  <- IF isBusy THEN Len(recv) + Len(rxFifo) ELSE 0,
  reported <- pc = "idle" /\ call = "Transfer" /\ ret = "XST_SUCCESS"

(* Success is reported only for a transfer all of whose bytes crossed the  *)
(* bus, no byte crosses more than once or with the port closed, and a port *)
(* given up stays taken until it is recovered (SpiPort.tla).               *)
ImplementsPort == Port!PortSpec

(* What the documentation says of XST_DEVICE_BUSY: "indicates that a data  *)
(* transfer is already in progress" (xspi.c:618): some of its bytes are    *)
(* still to cross the bus.                                                 *)
BusyMeansInProgress ==
  (pc = "idle" /\ call = "Transfer" /\ ret = "XST_DEVICE_BUSY") =>
    Len(recv) + Len(rxFifo) < requested

(* What a comment in XSpi_Transfer says: with no slave selected the        *)
(* register has the value of the mask (xspi.c:677-678), so that a master   *)
(* transfer without a selected slave is refused.                           *)
NoSlaveMeansRefused ==
  (pc = "poll" /\ master) => slaveSelectReg = "slave"
=============================================================================
