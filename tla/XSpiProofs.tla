----------------------------- MODULE XSpiProofs -----------------------------
(***************************************************************************)
(* Proofs about XSpi.tla for every transfer length, FIFO depth and poll    *)
(* budget.  The inductive invariant IInv says where each byte of the       *)
(* current transfer is: already received, waiting in the receive FIFO,     *)
(* waiting in the transmit FIFO, or not sent yet, in that order.           *)
(***************************************************************************)
EXTENDS XSpi, SequenceTheorems, TLAPS

(* s holds the consecutive byte positions after k.                         *)
Run(s, k) == \A i \in 1..Len(s) : s[i] = k + i

(* The flags are nested: a busy driver is started, a started one is ready. *)
Flags ==
  /\ isBusy => isStarted
  /\ isStarted => isReady
  /\ pc \in TransferPcs => isBusy /\ call = "Transfer"
  /\ pc = "abort" => /\ isReady /\ ~ssr
                     /\ call \in {"Abort", "Reset", "CfgInitialize"}
  /\ (pc = "idle" /\ call = "Transfer" /\ ret = "XST_SUCCESS") => isReady /\ ~isBusy

(* The two FIFOs together never hold more than the depth of one: this is   *)
(* why a byte going out always finds room for the byte coming in.          *)
FifoRoom == Len(txFifo) + Len(rxFifo) <= FifoDepth /\ ~lost

(* Where the bytes of the transfer that holds the driver are.              *)
Positions ==
  isBusy =>
    /\ Run(recv, 0)
    /\ Run(rxFifo, Len(recv))
    /\ Run(txFifo, Len(recv) + Len(rxFifo))
    /\ Len(recv) + Len(rxFifo) + Len(txFifo) + remaining = requested
    /\ byteCount + Len(recv) = requested

(* What the flash has seen of it.                                          *)
FrameSeen ==
  (isBusy /\ pc # "abort") =>
    /\ ssr => slaveSelectReg = "slave"
    /\ ssr => Run(frame, 0) /\ Len(frame) = Len(recv) + Len(rxFifo)
    /\ pc \notin {"fillFirst", "fill", "select"} => ssr = (slaveSelectReg = "slave")

(* What holds at single labels of XSpi_Transfer.                           *)
AtLabel ==
  /\ pc \in {"fillFirst", "fill", "select"} => ~ssr /\ rxFifo = <<>> /\ recv = <<>>
  /\ pc \in {"fillFirst", "fill", "select", "uninhibit", "drain", "refill"} => inhibit
  /\ pc \in {"refill", "uninhibit"} => rxFifo = <<>>
  /\ pc = "fillFirst" => txFifo = <<>> /\ remaining > 0

(* The inductive invariant.                                                *)
IInv ==
  /\ TypeOK /\ Flags /\ FifoRoom /\ Positions /\ FrameSeen /\ AtLabel
  /\ BusAtRest /\ SuccessMeansExchanged

-----------------------------------------------------------------------------
(* Sequences of consecutive positions.                                     *)

(* Appending the next position keeps a run a run.                          *)
LEMMA RunAppend ==
  ASSUME NEW s \in Seq(1..MaxBytes), NEW k \in Nat, Run(s, k),
         NEW e \in 1..MaxBytes, e = k + Len(s) + 1
  PROVE  /\ Append(s, e) \in Seq(1..MaxBytes)
         /\ Len(Append(s, e)) = Len(s) + 1
         /\ Run(Append(s, e), k)
BY SizesAssumption DEF Run

(* Taking the first position off a run leaves the run one further on.      *)
LEMMA RunTail ==
  ASSUME NEW s \in Seq(1..MaxBytes), NEW k \in Nat, Run(s, k), s # <<>>
  PROVE  /\ Head(s) = k + 1
         /\ Head(s) \in 1..MaxBytes
         /\ Tail(s) \in Seq(1..MaxBytes)
         /\ Len(Tail(s)) = Len(s) - 1
         /\ Len(s) > 0
         /\ Run(Tail(s), k + 1)
<1>1. Len(s) \in Nat /\ Len(s) > 0
  OBVIOUS
<1>2. Head(s) = s[1] /\ 1 \in 1..Len(s)
  BY <1>1
<1>3. Tail(s) \in Seq(1..MaxBytes) /\ Len(Tail(s)) = Len(s) - 1
  BY <1>1
<1>4. ASSUME NEW i \in 1..Len(Tail(s))
      PROVE  Tail(s)[i] = k + 1 + i
  <2>1. i + 1 \in 1..Len(s)
    BY <1>1, <1>3
  <2>2. Tail(s)[i] = s[i + 1]
    BY <1>1, <1>3
  <2>3. QED
    BY <2>1, <2>2 DEF Run
<1>5. Run(Tail(s), k + 1)
  BY <1>4 DEF Run
<1>6. Head(s) = k + 1
  BY <1>2 DEF Run
<1>7. Head(s) \in 1..MaxBytes
  <2>1. s[1] \in 1..MaxBytes
    BY <1>1, ElementOfSeq, SizesAssumption
  <2>2. QED
    BY <1>2, <2>1
<1>8. QED
  BY <1>1, <1>3, <1>5, <1>6, <1>7

(* A run from the start is the sequence 1, 2, ..., n.                      *)
LEMMA RunBytes ==
  ASSUME NEW s \in Seq(1..MaxBytes), Run(s, 0)
  PROVE  s = Bytes(Len(s))
BY DEF Run, Bytes

(* The empty sequence is a run, of length 0, and the only one.             *)
LEMMA RunEmpty ==
  /\ \A k \in Nat : Run(<<>>, k)
  /\ Len(<<>>) = 0
  /\ <<>> \in Seq(1..MaxBytes)
  /\ \A s \in Seq(1..MaxBytes) : Len(s) \in Nat /\ (Len(s) = 0 <=> s = <<>>)
BY DEF Run

(* The bounds of the counters are not negative.                            *)
LEMMA ZeroTyped == 0 \in 0..MaxBytes /\ 0 \in 0..UIntMax /\ 0 \in 0..PollBudget
BY SizesAssumption

-----------------------------------------------------------------------------
(* The initial state, and one lemma per action of the driver and the core. *)

(* The invariant holds at first.                                           *)
LEMMA InitInv == Init => IInv
<1> SUFFICES ASSUME Init PROVE IInv
  OBVIOUS
<1> USE DEF Init
<1>1. TypeOK
  BY SizesAssumption, RunEmpty, ZeroTyped DEF TypeOK, Calls, Statuses
<1>2. Flags /\ Positions /\ FrameSeen /\ AtLabel /\ BusAtRest /\ SuccessMeansExchanged
  BY DEF Flags, Positions, FrameSeen, AtLabel, BusAtRest, SuccessMeansExchanged, TransferPcs
<1>3. FifoRoom
  BY SizesAssumption, RunEmpty DEF FifoRoom
<1>4. QED
  BY <1>1, <1>2, <1>3 DEF IInv

USE SizesAssumption
USE DEF IInv, Return, Goto, TransferPcs, driverVars, xferVars, flowVars, fifoVars,
        ctrlVars, coreVars

(* XSpi_CfgInitialize on a started device changes nothing.                 *)
LEMMA CfgInitializeRefusedInv ==
  ASSUME IInv, CfgInitializeRefused
  PROVE  IInv'
<1> USE DEF CfgInitializeRefused
<1>1. TypeOK'
  BY RunEmpty, ZeroTyped DEF TypeOK, Calls, Statuses
<1>2. (Flags /\ FifoRoom /\ Positions)'
  BY RunEmpty DEF TypeOK, Flags, FifoRoom, Positions
<1>3. (FrameSeen /\ AtLabel)'
  BY RunEmpty DEF TypeOK, Flags, Positions, FrameSeen, AtLabel
<1>4. (BusAtRest /\ SuccessMeansExchanged)'
  BY RunEmpty DEF TypeOK, Flags, BusAtRest, SuccessMeansExchanged
<1>5. QED
  BY <1>1, <1>2, <1>3, <1>4

(* XSpi_CfgInitialize, up to its reset, clears the instance only.          *)
LEMMA CfgInitializeInv ==
  ASSUME IInv, CfgInitialize
  PROVE  IInv'
<1> USE DEF CfgInitialize
<1>1. TypeOK'
  BY RunEmpty, ZeroTyped DEF TypeOK, Calls, Statuses
<1>2. (Flags /\ FifoRoom /\ Positions)'
  BY RunEmpty DEF TypeOK, Flags, FifoRoom, Positions
<1>3. (FrameSeen /\ AtLabel)'
  BY RunEmpty DEF TypeOK, Flags, Positions, FrameSeen, AtLabel
<1>4. (BusAtRest /\ SuccessMeansExchanged)'
  BY RunEmpty DEF TypeOK, Flags, BusAtRest, SuccessMeansExchanged
<1>5. QED
  BY <1>1, <1>2, <1>3, <1>4

(* The deselection in XSpi_Abort ends the frame.                           *)
LEMMA AbortDeselectInv ==
  ASSUME NEW c \in {"Abort", "Reset"}, IInv, AbortDeselect(c)
  PROVE  IInv'
<1> USE DEF AbortDeselect
<1>1. TypeOK'
  BY RunEmpty, ZeroTyped DEF TypeOK, Calls, Statuses
<1>2. (Flags /\ FifoRoom /\ Positions)'
  BY RunEmpty DEF TypeOK, Flags, FifoRoom, Positions
<1>3. (FrameSeen /\ AtLabel)'
  BY RunEmpty DEF TypeOK, Flags, Positions, FrameSeen, AtLabel
<1>4. (BusAtRest /\ SuccessMeansExchanged)'
  BY RunEmpty DEF TypeOK, Flags, BusAtRest, SuccessMeansExchanged
<1>5. QED
  BY <1>1, <1>2, <1>3, <1>4

(* XSpi_Abort resets the FIFOs and clears IsBusy together.                 *)
LEMMA AbortInhibitInv ==
  ASSUME IInv, AbortInhibit
  PROVE  IInv'
<1> USE DEF AbortInhibit
<1>1. TypeOK'
  BY RunEmpty, ZeroTyped DEF TypeOK, Calls, Statuses
<1>2. (Flags /\ FifoRoom /\ Positions)'
  BY RunEmpty DEF TypeOK, Flags, FifoRoom, Positions
<1>3. (FrameSeen /\ AtLabel)'
  BY RunEmpty DEF TypeOK, Flags, Positions, FrameSeen, AtLabel
<1>4. (BusAtRest /\ SuccessMeansExchanged)'
  BY RunEmpty DEF TypeOK, Flags, BusAtRest, SuccessMeansExchanged
<1>5. QED
  BY <1>1, <1>2, <1>3, <1>4

(* The reset register empties the core.                                    *)
LEMMA ResetCoreInv ==
  ASSUME IInv, ResetCore
  PROVE  IInv'
<1> USE DEF ResetCore
<1>1. TypeOK'
  BY RunEmpty, ZeroTyped DEF TypeOK, Calls, Statuses
<1>2. (Flags /\ FifoRoom /\ Positions)'
  BY RunEmpty DEF TypeOK, Flags, FifoRoom, Positions
<1>3. (FrameSeen /\ AtLabel)'
  BY RunEmpty DEF TypeOK, Flags, Positions, FrameSeen, AtLabel
<1>4. (BusAtRest /\ SuccessMeansExchanged)'
  BY RunEmpty DEF TypeOK, Flags, BusAtRest, SuccessMeansExchanged
<1>5. QED
  BY <1>1, <1>2, <1>3, <1>4

(* XSpi_SetOptions writes the control register when not busy.              *)
LEMMA SetOptionsInv ==
  ASSUME NEW m \in BOOLEAN, IInv, SetOptions(m)
  PROVE  IInv'
<1> USE DEF SetOptions
<1>1. TypeOK'
  BY RunEmpty, ZeroTyped DEF TypeOK, Calls, Statuses
<1>2. (Flags /\ FifoRoom /\ Positions)'
  BY RunEmpty DEF TypeOK, Flags, FifoRoom, Positions
<1>3. (FrameSeen /\ AtLabel)'
  BY RunEmpty DEF TypeOK, Flags, Positions, FrameSeen, AtLabel
<1>4. (BusAtRest /\ SuccessMeansExchanged)'
  BY RunEmpty DEF TypeOK, Flags, BusAtRest, SuccessMeansExchanged
<1>5. QED
  BY <1>1, <1>2, <1>3, <1>4

(* XSpi_SetSlaveSelect stores a mask when not busy.                        *)
LEMMA SetSlaveSelectInv ==
  ASSUME NEW k \in SlaveMasks, IInv, SetSlaveSelect(k)
  PROVE  IInv'
<1> USE DEF SetSlaveSelect
<1>1. TypeOK'
  BY RunEmpty, ZeroTyped DEF TypeOK, Calls, Statuses
<1>2. (Flags /\ FifoRoom /\ Positions)'
  BY RunEmpty DEF TypeOK, Flags, FifoRoom, Positions
<1>3. (FrameSeen /\ AtLabel)'
  BY RunEmpty DEF TypeOK, Flags, Positions, FrameSeen, AtLabel
<1>4. (BusAtRest /\ SuccessMeansExchanged)'
  BY RunEmpty DEF TypeOK, Flags, BusAtRest, SuccessMeansExchanged
<1>5. QED
  BY <1>1, <1>2, <1>3, <1>4

(* XSpi_Start on a started device changes nothing.                         *)
LEMMA StartRefusedInv ==
  ASSUME IInv, StartRefused
  PROVE  IInv'
<1> USE DEF StartRefused
<1>1. TypeOK'
  BY RunEmpty, ZeroTyped DEF TypeOK, Calls, Statuses
<1>2. (Flags /\ FifoRoom /\ Positions)'
  BY RunEmpty DEF TypeOK, Flags, FifoRoom, Positions
<1>3. (FrameSeen /\ AtLabel)'
  BY RunEmpty DEF TypeOK, Flags, Positions, FrameSeen, AtLabel
<1>4. (BusAtRest /\ SuccessMeansExchanged)'
  BY RunEmpty DEF TypeOK, Flags, BusAtRest, SuccessMeansExchanged
<1>5. QED
  BY <1>1, <1>2, <1>3, <1>4

(* XSpi_Start enables the core with empty FIFOs.                           *)
LEMMA StartInv ==
  ASSUME IInv, Start
  PROVE  IInv'
<1> USE DEF Start
<1>1. TypeOK'
  BY RunEmpty, ZeroTyped DEF TypeOK, Calls, Statuses
<1>2. (Flags /\ FifoRoom /\ Positions)'
  BY RunEmpty DEF TypeOK, Flags, FifoRoom, Positions
<1>3. (FrameSeen /\ AtLabel)'
  BY RunEmpty DEF TypeOK, Flags, Positions, FrameSeen, AtLabel
<1>4. (BusAtRest /\ SuccessMeansExchanged)'
  BY RunEmpty DEF TypeOK, Flags, BusAtRest, SuccessMeansExchanged
<1>5. QED
  BY <1>1, <1>2, <1>3, <1>4

(* XSpi_Stop disables it when not busy.                                    *)
LEMMA StopInv ==
  ASSUME IInv, Stop
  PROVE  IInv'
<1> USE DEF Stop
<1>1. TypeOK'
  BY RunEmpty, ZeroTyped DEF TypeOK, Calls, Statuses
<1>2. (Flags /\ FifoRoom /\ Positions)'
  BY RunEmpty DEF TypeOK, Flags, FifoRoom, Positions
<1>3. (FrameSeen /\ AtLabel)'
  BY RunEmpty DEF TypeOK, Flags, Positions, FrameSeen, AtLabel
<1>4. (BusAtRest /\ SuccessMeansExchanged)'
  BY RunEmpty DEF TypeOK, Flags, BusAtRest, SuccessMeansExchanged
<1>5. QED
  BY <1>1, <1>2, <1>3, <1>4

(* A new process starts from a cleared instance, on any core.              *)
LEMMA ProcessEndInv ==
  ASSUME IInv, ProcessEnd
  PROVE  IInv'
<1> USE DEF ProcessEnd
<1>1. TypeOK'
  BY RunEmpty, ZeroTyped DEF TypeOK, Calls, Statuses
<1>2. (Flags /\ FifoRoom /\ Positions)'
  BY RunEmpty DEF TypeOK, Flags, FifoRoom, Positions
<1>3. (FrameSeen /\ AtLabel)'
  BY RunEmpty DEF TypeOK, Flags, Positions, FrameSeen, AtLabel
<1>4. (BusAtRest /\ SuccessMeansExchanged)'
  BY RunEmpty DEF TypeOK, Flags, BusAtRest, SuccessMeansExchanged
<1>5. QED
  BY <1>1, <1>2, <1>3, <1>4

(* A refused XSpi_Transfer changes nothing.                                *)
LEMMA TransferRefusedInv ==
  ASSUME IInv, TransferRefused
  PROVE  IInv'
<1> USE DEF TransferRefused, TransferStatus
<1>1. TypeOK'
  BY RunEmpty, ZeroTyped DEF TypeOK, Calls, Statuses
<1>2. (Flags /\ FifoRoom /\ Positions)'
  BY RunEmpty DEF TypeOK, Flags, FifoRoom, Positions
<1>3. (FrameSeen /\ AtLabel)'
  BY RunEmpty DEF TypeOK, Flags, Positions, FrameSeen, AtLabel
<1>4. (BusAtRest /\ SuccessMeansExchanged)'
  BY RunEmpty DEF TypeOK, Flags, BusAtRest, SuccessMeansExchanged
<1>5. QED
  BY <1>1, <1>2, <1>3, <1>4

(* A fill ends: the label moves on, no byte moves.                         *)
LEMMA FillDoneInv ==
  ASSUME NEW from \in {"fill", "refill"}, NEW to \in {"select", "uninhibit"},
         (from = "fill") <=> (to = "select"), IInv, FillDone(from,to)
  PROVE  IInv'
<1> USE DEF FillDone, CanFill
<1>1. TypeOK'
  BY RunEmpty, ZeroTyped DEF TypeOK, Calls, Statuses
<1>2. (Flags /\ FifoRoom /\ Positions)'
  BY RunEmpty DEF TypeOK, Flags, FifoRoom, Positions
<1>3. (FrameSeen /\ AtLabel)'
  BY RunEmpty DEF TypeOK, Flags, Positions, FrameSeen, AtLabel
<1>4. (BusAtRest /\ SuccessMeansExchanged)'
  BY RunEmpty DEF TypeOK, Flags, BusAtRest, SuccessMeansExchanged
<1>5. QED
  BY <1>1, <1>2, <1>3, <1>4

(* Selecting the flash starts a new frame.                                 *)
LEMMA SelectSlaveInv ==
  ASSUME IInv, SelectSlave
  PROVE  IInv'
<1> USE DEF SelectSlave
<1>1. TypeOK'
  BY RunEmpty DEF TypeOK
<1>2. (Flags /\ FifoRoom /\ Positions)'
  BY RunEmpty DEF TypeOK, Flags, FifoRoom, Positions
<1>3. (FrameSeen /\ AtLabel)'
  BY RunEmpty DEF TypeOK, Flags, Positions, FrameSeen, AtLabel
<1>4. (BusAtRest /\ SuccessMeansExchanged)'
  BY RunEmpty DEF TypeOK, Flags, BusAtRest, SuccessMeansExchanged
<1>5. QED
  BY <1>1, <1>2, <1>3, <1>4

(* Enabling the transmitter moves nothing by itself.                       *)
LEMMA UninhibitInv ==
  ASSUME IInv, Uninhibit
  PROVE  IInv'
<1> USE DEF Uninhibit
<1>1. TypeOK'
  BY DEF TypeOK
<1>2. (Flags /\ FifoRoom /\ Positions)'
  BY RunEmpty DEF TypeOK, Flags, FifoRoom, Positions
<1>3. (FrameSeen /\ AtLabel)'
  BY RunEmpty DEF TypeOK, Flags, Positions, FrameSeen, AtLabel
<1>4. (BusAtRest /\ SuccessMeansExchanged)'
  BY RunEmpty DEF TypeOK, Flags, BusAtRest, SuccessMeansExchanged
<1>5. QED
  BY <1>1, <1>2, <1>3, <1>4

(* The head of the loop rearms the countdown.                              *)
LEMMA LoopAgainInv ==
  ASSUME IInv, LoopAgain
  PROVE  IInv'
<1> USE DEF LoopAgain
<1>1. TypeOK'
  BY RunEmpty, ZeroTyped DEF TypeOK, Calls, Statuses
<1>2. (Flags /\ FifoRoom /\ Positions)'
  BY RunEmpty DEF TypeOK, Flags, FifoRoom, Positions
<1>3. (FrameSeen /\ AtLabel)'
  BY RunEmpty DEF TypeOK, Flags, Positions, FrameSeen, AtLabel
<1>4. (BusAtRest /\ SuccessMeansExchanged)'
  BY RunEmpty DEF TypeOK, Flags, BusAtRest, SuccessMeansExchanged
<1>5. QED
  BY <1>1, <1>2, <1>3, <1>4

(* A poll that gives up leaves IsBusy set, whence FifoRoom.                *)
LEMMA PollTimeoutInv ==
  ASSUME IInv, PollTimeout
  PROVE  IInv'
<1> USE DEF PollTimeout
<1>1. TypeOK'
  BY RunEmpty, ZeroTyped DEF TypeOK, Calls, Statuses
<1>2. (Flags /\ FifoRoom /\ Positions)'
  BY RunEmpty DEF TypeOK, Flags, FifoRoom, Positions
<1>3. (FrameSeen /\ AtLabel)'
  BY RunEmpty DEF TypeOK, Flags, Positions, FrameSeen, AtLabel
<1>4. (BusAtRest /\ SuccessMeansExchanged)'
  BY RunEmpty DEF TypeOK, Flags, BusAtRest, SuccessMeansExchanged
<1>5. QED
  BY <1>1, <1>2, <1>3, <1>4

(* A poll moves only the driver.                                           *)
LEMMA PollInv ==
  ASSUME IInv, Poll
  PROVE  IInv'
<1> USE DEF Poll
<1>1. TypeOK'
  BY RunEmpty, ZeroTyped DEF TypeOK, Calls, Statuses
<1>2. (Flags /\ FifoRoom /\ Positions)'
  BY RunEmpty DEF TypeOK, Flags, FifoRoom, Positions
<1>3. (FrameSeen /\ AtLabel)'
  BY RunEmpty DEF TypeOK, Flags, Positions, FrameSeen, AtLabel
<1>4. (BusAtRest /\ SuccessMeansExchanged)'
  BY RunEmpty DEF TypeOK, Flags, BusAtRest, SuccessMeansExchanged
<1>5. QED
  BY <1>1, <1>2, <1>3, <1>4

(* Clearing the interrupt bit moves no byte.                               *)
LEMMA ClearIntrInv ==
  ASSUME IInv, ClearIntr
  PROVE  IInv'
<1> USE DEF ClearIntr
<1>1. TypeOK'
  BY RunEmpty, ZeroTyped DEF TypeOK, Calls, Statuses
<1>2. (Flags /\ FifoRoom /\ Positions)'
  BY RunEmpty DEF TypeOK, Flags, FifoRoom, Positions
<1>3. (FrameSeen /\ AtLabel)'
  BY RunEmpty DEF TypeOK, Flags, Positions, FrameSeen, AtLabel
<1>4. (BusAtRest /\ SuccessMeansExchanged)'
  BY RunEmpty DEF TypeOK, Flags, BusAtRest, SuccessMeansExchanged
<1>5. QED
  BY <1>1, <1>2, <1>3, <1>4

(* Inhibiting the transmitter moves no byte.                               *)
LEMMA InhibitInv ==
  ASSUME IInv, Inhibit
  PROVE  IInv'
<1> USE DEF Inhibit
<1>1. TypeOK'
  BY RunEmpty, ZeroTyped DEF TypeOK, Calls, Statuses
<1>2. (Flags /\ FifoRoom /\ Positions)'
  BY RunEmpty DEF TypeOK, Flags, FifoRoom, Positions
<1>3. (FrameSeen /\ AtLabel)'
  BY RunEmpty DEF TypeOK, Flags, Positions, FrameSeen, AtLabel
<1>4. (BusAtRest /\ SuccessMeansExchanged)'
  BY RunEmpty DEF TypeOK, Flags, BusAtRest, SuccessMeansExchanged
<1>5. QED
  BY <1>1, <1>2, <1>3, <1>4

(* The receive FIFO is empty when the drain ends.                          *)
LEMMA DrainDoneInv ==
  ASSUME IInv, DrainDone
  PROVE  IInv'
<1> USE DEF DrainDone
<1>1. TypeOK'
  BY RunEmpty, ZeroTyped DEF TypeOK, Calls, Statuses
<1>2. (Flags /\ FifoRoom /\ Positions)'
  BY RunEmpty DEF TypeOK, Flags, FifoRoom, Positions
<1>3. (FrameSeen /\ AtLabel)'
  BY RunEmpty DEF TypeOK, Flags, Positions, FrameSeen, AtLabel
<1>4. (BusAtRest /\ SuccessMeansExchanged)'
  BY RunEmpty DEF TypeOK, Flags, BusAtRest, SuccessMeansExchanged
<1>5. QED
  BY <1>1, <1>2, <1>3, <1>4

(* A new transfer starts its positions over on empty FIFOs.                *)
LEMMA TransferBeginInv ==
  ASSUME NEW n \in 1..MaxBytes, IInv, TransferBegin(n)
  PROVE  IInv'
<1> USE DEF TransferBegin, TransferStatus
<1>1. TypeOK'
  BY RunEmpty DEF TypeOK, Calls, Statuses
<1>2. isReady /\ ~isBusy /\ ~ssr /\ inhibit /\ txFifo = <<>> /\ rxFifo = <<>>
  BY DEF Flags, BusAtRest, TypeOK
<1>3. (Flags /\ FifoRoom)'
  BY DEF TypeOK, Flags, FifoRoom
<1>4. Positions'
  <2>1. Len(recv') = 0 /\ Len(rxFifo') = 0 /\ Len(txFifo') = 0
    BY <1>2, RunEmpty
  <2>2. Run(recv', 0) /\ Run(rxFifo', 0) /\ Run(txFifo', 0)
    BY <1>2, <2>1 DEF Run
  <2>3. QED
    BY <2>1, <2>2 DEF Positions
<1>5. (FrameSeen /\ AtLabel)'
  <2>1. ssr' = FALSE /\ inhibit' = TRUE /\ txFifo' = <<>> /\ rxFifo' = <<>>
    BY <1>2 DEF TypeOK
  <2>2. QED
    BY <2>1 DEF FrameSeen, AtLabel
<1>6. (BusAtRest /\ SuccessMeansExchanged)'
  BY DEF BusAtRest, SuccessMeansExchanged
<1>7. QED
  BY <1>1, <1>3, <1>4, <1>5, <1>6

(* The position of the next byte to send, and what a write of it does to a *)
(* transmit FIFO that has room.                                            *)
LEMMA SendByteFacts ==
  ASSUME IInv, isBusy, SendByte, remaining > 0, Len(txFifo) < FifoDepth
  PROVE  /\ txFifo' \in Seq(1..MaxBytes)
         /\ Len(txFifo') = Len(txFifo) + 1
         /\ Run(txFifo', Len(recv) + Len(rxFifo))
         /\ lost' = lost /\ remaining' = remaining - 1
         /\ remaining' \in 0..MaxBytes
<1>1. /\ Len(recv) \in Nat /\ Len(rxFifo) \in Nat /\ Len(txFifo) \in Nat
      /\ requested \in 0..MaxBytes /\ remaining \in 0..MaxBytes
      /\ txFifo \in Seq(1..MaxBytes)
  BY RunEmpty DEF TypeOK
<1>2. /\ Run(txFifo, Len(recv) + Len(rxFifo))
      /\ requested - remaining = Len(recv) + Len(rxFifo) + Len(txFifo)
  BY <1>1 DEF Positions
<1> DEFINE e == requested - remaining + 1
<1>3. e \in 1..MaxBytes /\ e = Len(recv) + Len(rxFifo) + Len(txFifo) + 1
  BY <1>1, <1>2
<1>4. txFifo' = Append(txFifo, e)
  BY DEF SendByte, WriteDTR
<1>5. /\ Append(txFifo, e) \in Seq(1..MaxBytes)
      /\ Len(Append(txFifo, e)) = Len(txFifo) + 1
      /\ Run(Append(txFifo, e), Len(recv) + Len(rxFifo))
  <2> HIDE DEF e
  <2> QED
    BY <1>1, <1>2, <1>3, RunAppend
<1>6. lost' = lost /\ remaining' = remaining - 1 /\ remaining' \in 0..MaxBytes
  BY <1>1 DEF SendByte, WriteDTR, TypeOK
<1>7. QED
  BY <1>4, <1>5, <1>6

(* Both fills: l is the label the fill leaves the driver at.               *)
LEMMA SendByteInv ==
  ASSUME IInv, NEW l \in {"fill", "refill"}, SendByte, Goto(l), isBusy,
         remaining > 0, Len(txFifo) < FifoDepth, inhibit, rxFifo = <<>>,
         call = "Transfer",
         l = "fill" => ~ssr /\ recv = <<>> /\ pc \in {"fillFirst", "fill"},
         l = "refill" => pc = "refill"
  PROVE  IInv'
<1> USE DEF SendByte
<1>1. /\ txFifo' \in Seq(1..MaxBytes)
      /\ Len(txFifo') = Len(txFifo) + 1
      /\ Run(txFifo', Len(recv) + Len(rxFifo))
      /\ lost' = lost /\ remaining' = remaining - 1
      /\ remaining' \in 0..MaxBytes
  BY SendByteFacts
<1>2. TypeOK'
  BY <1>1 DEF TypeOK
<1>3. Flags'
  BY DEF Flags, TypeOK
<1>4. FifoRoom'
  BY <1>1, RunEmpty DEF FifoRoom, TypeOK
<1>5. Positions'
  <2>1. /\ recv' = recv /\ rxFifo' = rxFifo /\ isBusy' = isBusy
        /\ requested' = requested /\ byteCount' = byteCount
    OBVIOUS
  <2>2. /\ Len(recv) \in Nat /\ Len(rxFifo) \in Nat /\ Len(txFifo) \in Nat
        /\ remaining \in Nat /\ requested \in Nat
    BY RunEmpty DEF TypeOK
  <2>3. Run(recv', 0) /\ Run(rxFifo', Len(recv')) /\ byteCount' + Len(recv') = requested'
    BY <2>1 DEF Positions
  <2>4. Run(txFifo', Len(recv') + Len(rxFifo'))
    BY <1>1, <2>1
  <2>5. Len(recv') + Len(rxFifo') + Len(txFifo') + remaining' = requested'
    BY <1>1, <2>1, <2>2 DEF Positions
  <2>6. QED
    BY <2>3, <2>4, <2>5 DEF Positions
<1>6. (FrameSeen /\ AtLabel)'
  BY DEF FrameSeen, AtLabel, TypeOK
<1>7. (BusAtRest /\ SuccessMeansExchanged)'
  BY DEF BusAtRest, SuccessMeansExchanged
<1>8. QED
  BY <1>2, <1>3, <1>4, <1>5, <1>6, <1>7

(* The first fill of XSpi_Transfer.                                        *)
LEMMA FillFirstInv == IInv /\ FillFirst => IInv'
<1> SUFFICES ASSUME IInv, FillFirst PROVE IInv'
  OBVIOUS
<1>1. /\ SendByte /\ Goto("fill") /\ isBusy /\ remaining > 0 /\ inhibit /\ rxFifo = <<>>
      /\ call = "Transfer" /\ ~ssr /\ recv = <<>> /\ pc = "fillFirst"
      /\ txFifo = <<>>
  BY DEF FillFirst, Flags, AtLabel
<1>2. Len(txFifo) < FifoDepth
  BY <1>1, RunEmpty
<1>3. QED
  BY <1>1, <1>2, SendByteInv

(* The fill loop, and the refill, of XSpi_Transfer.                        *)
LEMMA FillInv ==
  ASSUME NEW l \in {"fill", "refill"}, IInv, Fill(l)
  PROVE  IInv'
<1>1. /\ SendByte /\ Goto(l) /\ isBusy /\ remaining > 0 /\ inhibit /\ rxFifo = <<>>
      /\ call = "Transfer" /\ pc = l /\ Len(txFifo) < FifoDepth
      /\ l = "fill" => ~ssr /\ recv = <<>>
  BY DEF Fill, CanFill, Flags, AtLabel
<1>2. QED
  BY <1>1, SendByteInv


(* One byte from the receive FIFO into the buffer: the first FIFO position *)
(* is the next one the buffer lacks.                                       *)
LEMMA DrainInv == IInv /\ Drain => IInv'
<1> SUFFICES ASSUME IInv, Drain PROVE IInv'
  OBVIOUS
<1> USE DEF Drain
<1>1. /\ Len(recv) \in Nat /\ Len(rxFifo) \in Nat /\ Len(txFifo) \in Nat
      /\ requested \in 0..MaxBytes /\ remaining \in 0..MaxBytes
      /\ byteCount \in 0..UIntMax
      /\ recv \in Seq(1..MaxBytes) /\ rxFifo \in Seq(1..MaxBytes) /\ rxFifo # <<>>
  BY RunEmpty DEF TypeOK
<1>2. isBusy /\ call = "Transfer" /\ inhibit
  BY DEF Flags, AtLabel
<1>3. /\ Run(recv, 0) /\ Run(rxFifo, Len(recv))
      /\ Run(txFifo, Len(recv) + Len(rxFifo))
      /\ Len(recv) + Len(rxFifo) + Len(txFifo) + remaining = requested
      /\ byteCount + Len(recv) = requested
  BY <1>2 DEF Positions
<1>4. /\ Head(rxFifo) = Len(recv) + 1
      /\ Head(rxFifo) \in 1..MaxBytes
      /\ rxFifo' \in Seq(1..MaxBytes)
      /\ Len(rxFifo') = Len(rxFifo) - 1
      /\ Len(rxFifo) > 0
      /\ Run(rxFifo', Len(recv) + 1)
  BY <1>1, <1>3, RunTail
<1>5. /\ recv' \in Seq(1..MaxBytes)
      /\ Len(recv') = Len(recv) + 1
      /\ Run(recv', 0)
  BY <1>1, <1>3, <1>4, RunAppend
<1>6. byteCount' = byteCount - 1 /\ byteCount' \in 0..UIntMax
  BY <1>1, <1>3, <1>4
<1>7. TypeOK'
  BY <1>4, <1>5, <1>6 DEF TypeOK
<1>8. (Flags /\ FifoRoom)'
  BY <1>1, <1>4 DEF Flags, FifoRoom, TypeOK
<1>9. Positions'
  <2>1. Len(recv') + Len(rxFifo') = Len(recv) + Len(rxFifo) /\ txFifo' = txFifo
    BY <1>1, <1>4, <1>5
  <2>2. Run(txFifo', Len(recv') + Len(rxFifo'))
    BY <1>3, <2>1
  <2>3. Run(rxFifo', Len(recv'))
    BY <1>4, <1>5
  <2>4. /\ Len(recv') + Len(rxFifo') + Len(txFifo') + remaining' = requested'
        /\ byteCount' + Len(recv') = requested'
    <3>1. requested' = requested /\ remaining' = remaining
      OBVIOUS
    <3>2. Len(recv') + Len(rxFifo') + Len(txFifo') + remaining' = requested'
      BY <1>1, <1>3, <2>1, <3>1
    <3> HIDE DEF Drain
    <3>3. byteCount' + Len(recv') = requested'
      <4>1. byteCount \in Int /\ Len(recv) \in Int /\ requested \in Int
        BY <1>1
      <4>2. byteCount + Len(recv) = requested
        BY <1>3
      <4>3. (byteCount - 1) + (Len(recv) + 1) = requested
        BY <4>1, <4>2
      <4>4. QED
        BY <4>3, <1>5, <1>6, <3>1
    <3>4. QED
      BY <3>2, <3>3
  <2>5. QED
    BY <1>5, <2>2, <2>3, <2>4 DEF Positions
<1>10. FrameSeen'
  <2>1. Len(recv') + Len(rxFifo') = Len(recv) + Len(rxFifo)
    BY <1>1, <1>4, <1>5
  <2>2. QED
    BY <1>2, <2>1 DEF FrameSeen
<1>11. (AtLabel /\ BusAtRest /\ SuccessMeansExchanged)'
  BY <1>2 DEF AtLabel, BusAtRest, SuccessMeansExchanged
<1>12. QED
  BY <1>7, <1>8, <1>9, <1>10, <1>11

(* ByteCount is 0: the buffer holds every byte, so the FIFOs are empty.    *)
LEMMA TransferDoneInv == IInv /\ TransferDone => IInv'
<1> SUFFICES ASSUME IInv, TransferDone PROVE IInv'
  OBVIOUS
<1> USE DEF TransferDone
<1>1. isBusy /\ call = "Transfer" /\ isStarted /\ isReady
  BY DEF Flags
<1>2. /\ Len(recv) \in Nat /\ Len(rxFifo) \in Nat /\ Len(txFifo) \in Nat
      /\ remaining \in Nat /\ requested \in Nat /\ byteCount \in Nat
      /\ recv \in Seq(1..MaxBytes) /\ frame \in Seq(1..MaxBytes)
  BY RunEmpty DEF TypeOK
<1>3. Len(recv) = requested /\ Len(rxFifo) = 0 /\ Len(txFifo) = 0 /\ Run(recv, 0)
  BY <1>1, <1>2 DEF Positions
<1>4. rxFifo = <<>> /\ txFifo = <<>>
  BY <1>3, RunEmpty DEF TypeOK
<1>5. recv = Bytes(requested)
  BY <1>2, <1>3, RunBytes
<1>6. slaveSelectReg = "slave" => frame = Bytes(requested)
  <2> SUFFICES ASSUME slaveSelectReg = "slave" PROVE frame = Bytes(requested)
    OBVIOUS
  <2>1. ssr
    BY <1>1 DEF FrameSeen
  <2>2. Run(frame, 0) /\ Len(frame) = Len(recv) + Len(rxFifo)
    BY <1>1, <2>1 DEF FrameSeen
  <2>3. Len(frame) = requested
    BY <1>2, <1>3, <2>2
  <2>4. QED
    BY <1>2, <2>2, <2>3, RunBytes
<1>7. TypeOK'
  BY DEF TypeOK, Statuses
<1>8. (Flags /\ FifoRoom)'
  BY <1>1 DEF Flags, FifoRoom, TypeOK
<1>9. (Positions /\ FrameSeen /\ AtLabel)'
  BY DEF Positions, FrameSeen, AtLabel
<1>10. (BusAtRest /\ SuccessMeansExchanged)'
  BY <1>4, <1>5, <1>6 DEF BusAtRest, SuccessMeansExchanged, Bytes
<1>11. QED
  BY <1>7, <1>8, <1>9, <1>10

(* The core moves one byte: from the transmit FIFO to the receive FIFO,    *)
(* which has room, and to the flash if it is selected.                     *)
LEMMA CoreShiftInv == IInv /\ CoreShift => IInv'
<1> SUFFICES ASSUME IInv, CoreShift PROVE IInv'
  OBVIOUS
<1> USE DEF CoreShift
<1>1. /\ Len(recv) \in Nat /\ Len(rxFifo) \in Nat /\ Len(txFifo) \in Nat
      /\ txFifo \in Seq(1..MaxBytes) /\ rxFifo \in Seq(1..MaxBytes)
      /\ frame \in Seq(1..MaxBytes) /\ txFifo # <<>>
      /\ requested \in Nat /\ remaining \in Nat
  BY RunEmpty DEF TypeOK
<1>2. /\ Len(txFifo) > 0 /\ Head(txFifo) \in 1..MaxBytes
      /\ txFifo' \in Seq(1..MaxBytes) /\ Len(txFifo') = Len(txFifo) - 1
  BY <1>1, HeadTailProperties
<1>3. Len(rxFifo) < FifoDepth
  BY <1>1, <1>2 DEF FifoRoom
<1>4. /\ rxFifo' = Append(rxFifo, Head(txFifo)) /\ lost' = lost
      /\ rxFifo' \in Seq(1..MaxBytes) /\ Len(rxFifo') = Len(rxFifo) + 1
  BY <1>1, <1>2, <1>3, AppendProperties DEF TypeOK
<1>5. frame' \in Seq(1..MaxBytes)
  BY <1>1, <1>2, AppendProperties
<1>6. TypeOK'
  BY <1>2, <1>4, <1>5 DEF TypeOK
<1>7. (Flags /\ FifoRoom)'
  BY <1>1, <1>2, <1>4 DEF Flags, FifoRoom
<1>8. ASSUME isBusy
      PROVE  /\ Head(txFifo) = Len(recv) + Len(rxFifo) + 1
             /\ Run(txFifo', Len(recv) + Len(rxFifo) + 1)
             /\ Run(rxFifo', Len(recv))
  <2>1. Run(txFifo, Len(recv) + Len(rxFifo)) /\ Run(rxFifo, Len(recv))
    BY <1>8 DEF Positions
  <2>2. /\ Head(txFifo) = Len(recv) + Len(rxFifo) + 1
        /\ Run(txFifo', Len(recv) + Len(rxFifo) + 1)
    BY <1>1, <2>1, RunTail
  <2>3. Run(rxFifo', Len(recv))
    BY <1>1, <1>2, <1>4, <2>1, <2>2, RunAppend
  <2>4. QED
    BY <2>2, <2>3
<1>9. Positions'
  <2> SUFFICES ASSUME isBusy
               PROVE  /\ Run(recv', 0) /\ Run(rxFifo', Len(recv'))
                      /\ Run(txFifo', Len(recv') + Len(rxFifo'))
                      /\ Len(recv') + Len(rxFifo') + Len(txFifo') + remaining' = requested'
                      /\ byteCount' + Len(recv') = requested'
    BY DEF Positions
  <2>1. Len(recv) + Len(rxFifo') = Len(recv) + Len(rxFifo) + 1
    BY <1>1, <1>4
  <2>2. Run(txFifo', Len(recv) + Len(rxFifo'))
    BY <1>8, <2>1
  <2>3. Len(recv) + Len(rxFifo') + Len(txFifo') + remaining = requested
    <3>1. Len(recv) + Len(rxFifo) + Len(txFifo) + remaining = requested
      BY DEF Positions
    <3> HIDE DEF CoreShift
    <3>2. QED
      <4>1. \A a, b, c, d \in Int : a + (b + 1) + (c - 1) + d = a + b + c + d
        OBVIOUS
      <4>2. Len(recv) + (Len(rxFifo) + 1) + (Len(txFifo) - 1) + remaining
              = Len(recv) + Len(rxFifo) + Len(txFifo) + remaining
        BY <1>1, <4>1
      <4>3. QED
        BY <1>2, <1>4, <3>1, <4>2
  <2>4. QED
    BY <1>8, <2>2, <2>3 DEF Positions
<1>10. FrameSeen'
  <2> SUFFICES ASSUME isBusy, pc # "abort", ssr
               PROVE  Run(frame', 0) /\ Len(frame') = Len(recv) + Len(rxFifo')
    BY DEF FrameSeen
  <2>1. Run(frame, 0) /\ Len(frame) = Len(recv) + Len(rxFifo)
    BY DEF FrameSeen
  <2>2. frame' = Append(frame, Head(txFifo)) /\ Head(txFifo) = 0 + Len(frame) + 1
    BY <1>1, <1>8, <2>1
  <2>3. Len(frame') = Len(frame) + 1 /\ Run(frame', 0)
    BY <1>1, <1>2, <2>1, <2>2, RunAppend
  <2>4. QED
    BY <1>1, <1>4, <2>1, <2>3
<1>11. (AtLabel /\ BusAtRest)'
  BY DEF AtLabel, BusAtRest
<1>12. SuccessMeansExchanged'
  BY DEF SuccessMeansExchanged, BusAtRest, Flags
<1>13. QED
  BY <1>6, <1>7, <1>9, <1>10, <1>11, <1>12

-----------------------------------------------------------------------------
(* The invariant, and what it says of the driver.                          *)

(* A step that changes nothing preserves the invariant.                    *)
LEMMA StutterInv ==
  ASSUME IInv, UNCHANGED vars
  PROVE  IInv'
<1> USE DEF vars
<1>1. TypeOK'
  BY DEF TypeOK
<1>2. (Flags /\ FifoRoom /\ Positions)'
  BY DEF Flags, FifoRoom, Positions
<1>3. (FrameSeen /\ AtLabel)'
  BY DEF FrameSeen, AtLabel
<1>4. (BusAtRest /\ SuccessMeansExchanged)'
  BY DEF BusAtRest, SuccessMeansExchanged
<1>5. QED
  BY <1>1, <1>2, <1>3, <1>4

(* Every step of the driver inside a call preserves it.                    *)
LEMMA DriverStepInv == IInv /\ DriverStep => IInv'
<1> SUFFICES ASSUME IInv, DriverStep PROVE IInv'
  OBVIOUS
<1> HIDE DEF IInv
<1>1. CASE Fill("fill") \/ Fill("refill")
  BY <1>1, FillInv
<1>2. CASE FillDone("fill", "select") \/ FillDone("refill", "uninhibit")
  <2>1. ASSUME FillDone("fill", "select") PROVE IInv'
    BY <2>1, FillDoneInv
  <2>2. ASSUME FillDone("refill", "uninhibit") PROVE IInv'
    BY <2>2, FillDoneInv
  <2>3. QED
    BY <1>2, <2>1, <2>2
<1>3. CASE FillFirst \/ SelectSlave \/ Uninhibit \/ LoopAgain \/ Poll \/ PollTimeout
  BY <1>3, FillFirstInv, SelectSlaveInv, UninhibitInv, LoopAgainInv, PollInv,
     PollTimeoutInv
<1>4. CASE ClearIntr \/ Inhibit \/ Drain \/ DrainDone \/ TransferDone
  BY <1>4, ClearIntrInv, InhibitInv, DrainInv, DrainDoneInv, TransferDoneInv
<1>5. CASE AbortInhibit \/ ResetCore
  BY <1>5, AbortInhibitInv, ResetCoreInv
<1>6. QED
  BY <1>1, <1>2, <1>3, <1>4, <1>5 DEF DriverStep, TransferStep

(* So does every call made on an idle driver.                              *)
LEMMA ClientInv == IInv /\ Client => IInv'
<1> SUFFICES ASSUME IInv, Client PROVE IInv'
  OBVIOUS
<1> HIDE DEF IInv
<1>1. CASE \E c \in {"Abort", "Reset"} : AbortDeselect(c)
  BY <1>1, AbortDeselectInv
<1>2. CASE \E m \in BOOLEAN : SetOptions(m)
  BY <1>2, SetOptionsInv
<1>3. CASE \E m \in SlaveMasks : SetSlaveSelect(m)
  BY <1>3, SetSlaveSelectInv
<1>4. CASE \E n \in 1..MaxBytes : TransferBegin(n)
  BY <1>4, TransferBeginInv
<1>5. CASE CfgInitializeRefused \/ CfgInitialize \/ StartRefused \/ Start \/ Stop
           \/ TransferRefused
  BY <1>5, CfgInitializeRefusedInv, CfgInitializeInv, StartRefusedInv, StartInv,
     StopInv, TransferRefusedInv
<1>6. QED
  BY <1>1, <1>2, <1>3, <1>4, <1>5 DEF Client

(* And so does every step: the invariant is inductive.                     *)
LEMMA NextInv == IInv /\ [Next]_vars => IInv'
<1> HIDE DEF IInv
<1> QED
  BY ClientInv, DriverStepInv, CoreShiftInv, ProcessEndInv, StutterInv DEF Next

(* IInv holds in every reachable state: at any moment each byte of the     *)
(* current transfer is in exactly one place, in order.                     *)
THEOREM Invariance == Spec => []IInv
<1> HIDE DEF IInv
<1> QED
  BY InitInv, NextInv, PTL DEF Spec

(* Every variable of the driver and the core keeps its type, for every     *)
(* transfer length, FIFO depth and poll budget.                            *)
THEOREM TypeCorrect == Spec => []TypeOK
<1>1. IInv => TypeOK
  OBVIOUS
<1> HIDE DEF IInv
<1>2. QED
  BY <1>1, Invariance, PTL

(* XST_SUCCESS from XSpi_Transfer means that all requested bytes were      *)
(* exchanged, once each and in order.                                      *)
THEOREM SuccessExchanges == Spec => []SuccessMeansExchanged
<1>1. IInv => SuccessMeansExchanged
  OBVIOUS
<1> HIDE DEF IInv
<1>2. QED
  BY <1>1, Invariance, PTL

(* No byte is ever dropped by a full FIFO.                                 *)
THEOREM NothingLost == Spec => []NoByteLost
<1>1. IInv => NoByteLost
  BY DEF FifoRoom, NoByteLost
<1> HIDE DEF IInv
<1>2. QED
  BY <1>1, Invariance, PTL

(* XSpi_Transfer never stores past the caller's buffer, and its unsigned   *)
(* byte count never wraps.                                                 *)
THEOREM ReceiveBounded == Spec => []RecvBufferBounded
<1>1. IInv => RecvBufferBounded
  <2> SUFFICES ASSUME IInv PROVE RecvBufferBounded
    OBVIOUS
  <2>1. /\ Len(recv) \in Nat /\ requested \in Nat /\ byteCount \in Nat
        /\ pc \in TransferPcs => isBusy
    BY RunEmpty DEF TypeOK, Flags
  <2>2. isBusy => byteCount + Len(recv) = requested
    BY DEF Positions
  <2>3. QED
    BY <2>1, <2>2 DEF RecvBufferBounded
<1> HIDE DEF IInv
<1>2. QED
  BY <1>1, Invariance, PTL

(* Between transfers the bus is at rest.                                   *)
THEOREM RestBetweenTransfers == Spec => []BusAtRest
<1>1. IInv => BusAtRest
  OBVIOUS
<1> HIDE DEF IInv
<1>2. QED
  BY <1>1, Invariance, PTL

-----------------------------------------------------------------------------
(* Action properties.                                                      *)

(* A step of the driver that deselects the flash inside XSpi_Transfer is   *)
(* the last one, and the flash has the whole frame.                        *)
LEMMA FrameStep ==
  ASSUME IInv, Next, ssr, ~ssr', call = "Transfer", call' = "Transfer"
  PROVE  frame = Bytes(requested)
<1>1. CASE TransferDone
  <2>1. isBusy /\ pc = "loop" /\ byteCount = 0
    BY <1>1 DEF TransferDone, Flags
  <2>2. /\ Run(frame, 0) /\ Len(frame) = Len(recv) + Len(rxFifo)
        /\ frame \in Seq(1..MaxBytes)
    BY <2>1 DEF FrameSeen, TypeOK
  <2>3. /\ Len(recv) \in Nat /\ Len(rxFifo) \in Nat /\ Len(txFifo) \in Nat
        /\ remaining \in Nat /\ requested \in Nat
    BY RunEmpty DEF TypeOK
  <2>4. Len(recv) + Len(rxFifo) = requested
    BY <2>1, <2>3 DEF Positions
  <2>5. QED
    BY <2>2, <2>4, RunBytes
<1>2. CASE SelectSlave
  BY <1>2 DEF SelectSlave, AtLabel
<1>3. CASE Client
  BY <1>3 DEF Client, CfgInitializeRefused, CfgInitialize, AbortDeselect, SetOptions,
     SetSlaveSelect, StartRefused, Start, Stop, TransferRefused, TransferBegin
<1>4. CASE DriverStep /\ ~TransferDone /\ ~SelectSlave
  <2>1. UNCHANGED ssr
    BY <1>4 DEF DriverStep, TransferStep, AbortInhibit, ResetCore, FillFirst, Fill,
       FillDone, SendByte, Uninhibit, LoopAgain, Poll, PollTimeout, ClearIntr,
       Inhibit, Drain, DrainDone
  <2>2. QED
    BY <2>1
<1>5. CASE CoreShift \/ ProcessEnd
  BY <1>5 DEF CoreShift, ProcessEnd
<1>6. QED
  BY <1>1, <1>2, <1>3, <1>4, <1>5 DEF Next

(* A frame is only ever ended complete by XSpi_Transfer.                   *)
THEOREM FramesComplete == Spec => CompleteFrames
<1>1. IInv /\ [Next]_vars =>
        [(ssr /\ ~ssr' /\ call = "Transfer" /\ call' = "Transfer")
           => frame = Bytes(requested)]_vars
  BY FrameStep
<1> HIDE DEF IInv
<1>2. QED
  BY <1>1, Invariance, PTL DEF Spec, CompleteFrames

(* The wedge after a timed-out transfer: a busy driver between two calls   *)
(* stays busy whatever call comes next, unless its process ends.           *)
THEOREM WedgeLasts == Spec => WedgedUntilAborted
<1>1. IInv /\ [Next]_vars =>
        [(pc = "idle" /\ isBusy) => (isBusy' \/ call' = "none")]_vars
  <2> SUFFICES ASSUME IInv, Next, pc = "idle", isBusy
               PROVE  isBusy' \/ call' = "none"
    OBVIOUS
  <2>1. isStarted
    BY DEF Flags
  <2>2. CASE Client
    BY <2>1, <2>2 DEF Client, CfgInitializeRefused, CfgInitialize, AbortDeselect,
       SetOptions, SetSlaveSelect, StartRefused, Start, Stop, TransferRefused,
       TransferBegin
  <2>3. CASE DriverStep
    BY <2>3 DEF DriverStep, TransferStep, AbortInhibit, ResetCore, FillFirst, Fill,
       FillDone, SelectSlave, Uninhibit, LoopAgain, Poll, PollTimeout, ClearIntr,
       Inhibit, Drain, DrainDone, TransferDone
  <2>4. CASE CoreShift \/ ProcessEnd
    BY <2>4 DEF CoreShift, ProcessEnd
  <2>5. QED
    BY <2>2, <2>3, <2>4 DEF Next
<1> HIDE DEF IInv
<1>2. QED
  BY <1>1, Invariance, PTL DEF Spec, WedgedUntilAborted

-----------------------------------------------------------------------------
(* The driver implements SpiPort: each step is a step of the port or       *)
(* leaves the port unchanged.                                              *)

PortStep == Port!PortNext \/ UNCHANGED Port!portVars

(* A byte on the bus is a step of the port, or none of its business.       *)
LEMMA CoreShiftPort ==
  ASSUME IInv, CoreShift
  PROVE  PortStep
<1>1. /\ Len(recv) \in Nat /\ Len(rxFifo) \in Nat /\ Len(txFifo) \in Nat
      /\ remaining \in Nat /\ requested \in Nat
      /\ rxFifo \in Seq(1..MaxBytes) /\ txFifo \in Seq(1..MaxBytes)
  BY RunEmpty DEF TypeOK
<1>2. /\ txFifo # <<>> /\ Len(txFifo) > 0 /\ Head(txFifo) \in 1..MaxBytes
      /\ recv' = recv /\ pc' = pc /\ call' = call /\ ret' = ret
      /\ isBusy' = isBusy /\ requested' = requested
  BY <1>1, RunEmpty, HeadTailProperties DEF CoreShift
<1>3. Len(rxFifo') = Len(rxFifo) + 1
  <2>1. Len(rxFifo) < FifoDepth
    BY <1>1, <1>2 DEF FifoRoom
  <2>2. rxFifo' = Append(rxFifo, Head(txFifo))
    BY <2>1 DEF CoreShift
  <2>3. QED
    BY <1>1, <1>2, <2>2, AppendProperties
<1>4. CASE isBusy
  <2>1. Len(recv) + Len(rxFifo) < requested
    <3>1. Len(recv) + Len(rxFifo) + Len(txFifo) + remaining = requested
      BY <1>4 DEF Positions
    <3>2. QED
      BY <1>1, <1>2, <3>1
  <2>2. Len(recv) + Len(rxFifo') = (Len(recv) + Len(rxFifo)) + 1
    BY <1>1, <1>3
  <2>3. pc \in TransferPcs => pc # "idle"
    OBVIOUS
  <2>4. Port!Cross
    BY <1>2, <1>4, <2>1, <2>2 DEF Port!Cross
  <2>5. QED
    BY <2>4 DEF PortStep, Port!PortNext
<1>5. CASE ~isBusy
  BY <1>2, <1>5 DEF PortStep, Port!portVars
<1>6. QED
  BY <1>4, <1>5

(* A call maps to a call of the port, or to a stutter.                     *)
LEMMA ClientPort ==
  ASSUME IInv, Client
  PROVE  PortStep
<1>1. CASE CfgInitialize
  <2>1. ~isBusy /\ Port!Recover
    BY <1>1 DEF CfgInitialize, Flags, Port!Recover
  <2>2. QED
    BY <2>1 DEF PortStep, Port!PortNext
<1>2. CASE \E n \in 1..MaxBytes : TransferBegin(n)
  <2>1. PICK n \in 1..MaxBytes : TransferBegin(n)
    BY <1>2
  <2>2. ~isBusy /\ isReady /\ pc = "idle" /\ rxFifo = <<>>
    BY <2>1 DEF TransferBegin, TransferStatus, Flags, BusAtRest, TypeOK
  <2>3. /\ isBusy' /\ pc' = "fillFirst" /\ requested' = n
        /\ recv' = <<>> /\ rxFifo' = <<>>
    BY <2>1, <2>2 DEF TransferBegin
  <2>4. Port!Open(n)
    BY <2>2, <2>3, RunEmpty DEF Port!Open
  <2>5. QED
    BY <2>4 DEF PortStep, Port!PortNext
<1>3. CASE \/ CfgInitializeRefused \/ \E c \in {"Abort", "Reset"} : AbortDeselect(c)
           \/ \E m \in BOOLEAN : SetOptions(m)
           \/ \E m \in SlaveMasks : SetSlaveSelect(m)
           \/ StartRefused \/ Start \/ Stop \/ TransferRefused
  <2>1. /\ pc = "idle" /\ pc' \in {"idle", "abort"} /\ isBusy' = isBusy
        /\ requested' = requested /\ recv' = recv
        /\ isBusy => rxFifo' = rxFifo
        /\ ~(pc' = "idle" /\ call' = "Transfer" /\ ret' = "XST_SUCCESS")
    BY <1>3 DEF CfgInitializeRefused, AbortDeselect, SetOptions, SetSlaveSelect,
       StartRefused, Start, Stop, TransferRefused, TransferStatus, Flags
  <2>2. Port!Other
    BY <2>1 DEF Port!Other
  <2>3. QED
    BY <2>2 DEF PortStep, Port!PortNext
<1>4. QED
  BY <1>1, <1>2, <1>3 DEF Client

(* A step inside a call maps to its return, or to a stutter.               *)
LEMMA DriverStepPort ==
  ASSUME IInv, DriverStep
  PROVE  PortStep
<1>1. CASE TransferDone
  <2>1. /\ isBusy /\ pc = "loop" /\ byteCount = 0 /\ call = "Transfer"
        /\ ~isBusy' /\ pc' = "idle" /\ call' = "Transfer" /\ ret' = "XST_SUCCESS"
    BY <1>1 DEF TransferDone, Flags
  <2>2. /\ Len(recv) \in Nat /\ Len(rxFifo) \in Nat /\ Len(txFifo) \in Nat
        /\ remaining \in Nat /\ requested \in Nat
    BY RunEmpty DEF TypeOK
  <2>3. Len(recv) + Len(rxFifo) = requested
    BY <2>1, <2>2 DEF Positions
  <2>4. Port!Succeed
    BY <2>1, <2>3 DEF Port!Succeed
  <2>5. QED
    BY <2>4 DEF PortStep, Port!PortNext
<1>2. CASE PollTimeout
  <2>1. Port!GiveUp
    BY <1>2 DEF PollTimeout, Flags, Port!GiveUp
  <2>2. QED
    BY <2>1 DEF PortStep, Port!PortNext
<1>3. CASE AbortInhibit \/ ResetCore
  <2>1. Port!Recover
    BY <1>3 DEF AbortInhibit, ResetCore, Port!Recover
  <2>2. QED
    BY <2>1 DEF PortStep, Port!PortNext
<1>4. CASE Drain
  <2>1. /\ pc = "drain" /\ pc' = "drain" /\ isBusy' = isBusy /\ requested' = requested
        /\ recv' = Append(recv, Head(rxFifo)) /\ rxFifo' = Tail(rxFifo)
        /\ rxFifo # <<>>
    BY <1>4 DEF Drain
  <2>2. Len(recv') + Len(rxFifo') = Len(recv) + Len(rxFifo)
    <3>1. recv \in Seq(1..MaxBytes) /\ rxFifo \in Seq(1..MaxBytes)
      BY DEF TypeOK
    <3>2. Len(recv) \in Nat /\ Len(rxFifo) \in Nat /\ Len(rxFifo) > 0
      BY <2>1, <3>1, RunEmpty
    <3>3. Head(rxFifo) \in 1..MaxBytes /\ Len(rxFifo') = Len(rxFifo) - 1
      BY <2>1, <3>1, HeadTailProperties
    <3>4. Len(recv') = Len(recv) + 1
      BY <2>1, <3>1, <3>3, AppendProperties
    <3>5. QED
      BY <3>2, <3>3, <3>4
  <2>3. QED
    BY <2>1, <2>2 DEF PortStep, Port!portVars
<1>5. CASE \/ FillFirst \/ Fill("fill") \/ FillDone("fill", "select")
           \/ SelectSlave \/ Uninhibit \/ LoopAgain \/ Poll
           \/ ClearIntr \/ Inhibit \/ DrainDone
           \/ Fill("refill") \/ FillDone("refill", "uninhibit")
  <2>1. /\ pc \in TransferPcs /\ pc' \in TransferPcs /\ isBusy' = isBusy
        /\ requested' = requested /\ recv' = recv /\ rxFifo' = rxFifo
    BY <1>5 DEF FillFirst, Fill, FillDone, SendByte, SelectSlave, Uninhibit, LoopAgain,
       Poll, ClearIntr, Inhibit, DrainDone
  <2>2. QED
    BY <2>1 DEF PortStep, Port!portVars
<1>6. QED
  BY <1>1, <1>2, <1>3, <1>4, <1>5 DEF DriverStep, TransferStep

(* The driver implements the port: success is reported only when every     *)
(* requested byte has crossed the bus, and no byte crosses a closed port.  *)
THEOREM PortRefinement == Spec => ImplementsPort
<1>1. Init => Port!PortInit
  BY DEF Init, Port!PortInit
<1>2. IInv /\ [Next]_vars => [Port!PortNext]_(Port!portVars)
  <2> SUFFICES ASSUME IInv, [Next]_vars
               PROVE  PortStep
    BY DEF PortStep
  <2>1. CASE ProcessEnd
    <3>1. Port!Recover
      BY <2>1 DEF ProcessEnd, Port!Recover
    <3>2. QED
      BY <3>1 DEF PortStep, Port!PortNext
  <2>2. CASE UNCHANGED vars
    BY <2>2 DEF vars, PortStep, Port!portVars
  <2>3. QED
    BY <2>1, <2>2, ClientPort, DriverStepPort, CoreShiftPort DEF Next
<1> HIDE DEF IInv
<1>3. QED
  BY <1>1, <1>2, Invariance, PTL DEF Spec, ImplementsPort, Port!PortSpec

=============================================================================
