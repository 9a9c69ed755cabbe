------------------------------ MODULE SpiFlash ------------------------------
(***************************************************************************)
(* The flash layer of flash_qspi_rw.c and the serial flash behind it.      *)
(*                                                                         *)
(* Every SpiFlash... function is a straight line of XSpi_Transfer calls:   *)
(* commands, and waits that repeat a status read while the flash is busy.  *)
(* The first transfer that fails ends the function.  Script(name) is that  *)
(* line, with the nested functions written out.                            *)
(*                                                                         *)
(* A transfer here is one step, which is what the driver implements        *)
(* (XSpi.tla, ImplementsPort): it exchanges the whole frame, or gives up   *)
(* and leaves the port stuck with the flash still selected, or is refused. *)
(* The flash executes a command when it is deselected.                     *)
(***************************************************************************)
EXTENDS FlashPages, Naturals, Sequences

VARIABLES
  mem,       (* flash: content of every page                               *)
  wel,       (* flash: write enable latch                                  *)
  running,   (* flash: the erase or program in progress (WIP), or NoJob    *)
  cut,       (* flash: it is a program of which only some data arrived     *)
  fourByte,  (* flash: 4-byte address mode                                 *)
  errFlag,   (* flash: erase or program error in the flag status register  *)
  isStarted, (* Spi.IsStarted                                              *)
  stuck,     (* a transfer gave up: Spi.IsBusy with no call in progress    *)
  held,      (* the frame left on the flash, which is still selected       *)
  job,       (* the call in progress, or the last one                      *)
  step,      (* its position in Script(job.name); 0 between calls          *)
  status,    (* what the last call returned                                *)
  readBuffer,(* the page in ReadBuffer                                     *)
  sent       (* where the effect of the call in progress is: "no",         *)
             (* "running" or "applied" (history)                           *)

flashVars == <<mem, wel, running, cut, fourByte, errFlag>>
busVars   == <<isStarted, stuck, held>>
callVars  == <<job, step, status, readBuffer, sent>>
vars      == <<flashVars, busVars, callVars>>

NoFrame == [cmd |-> "none", job |-> NoJob]

-----------------------------------------------------------------------------
(* The flash (external, as the code's use of it shows).                    *)

Modifying  == {"SE", "DE", "BE", "PP"}
MakesBusy  == Modifying \cup {"WRSR"}
NeedsReady == MakesBusy \cup {"WREN", "EN4B", "EX4B", "READ", "CLFSR", "RDEAR",
                              "RDID", "RDCR"}
NeedsWel   == MakesBusy \cup {"EN4B", "EX4B"}
Needs4Byte == {"SE", "DE"}  (* PP and READ are 4-byte commands in any mode *)

WIP == running # NoJob

(* A flash that is busy, not write enabled or in the wrong address mode    *)
(* ignores a command without a sign.                                       *)
Accepts(c) ==
  /\ c \in NeedsReady => ~WIP
  /\ c \in NeedsWel   => wel
  /\ c \in Needs4Byte => fourByte

(* The flash is deselected after the complete command c of call j.         *)
Execute(c, j) ==
  /\ wel' = IF Accepts(c) /\ c \in {"WREN", "EN4B", "EX4B"} THEN c = "WREN" ELSE wel
  /\ fourByte' = IF Accepts(c) /\ c \in {"EN4B", "EX4B"} THEN c = "EN4B" ELSE fourByte
  /\ running' = IF Accepts(c) /\ c \in MakesBusy THEN j ELSE running
  /\ errFlag' = (errFlag /\ ~(Accepts(c) /\ c = "CLFSR"))
  /\ UNCHANGED <<mem, cut>>

(* The erase or program in progress ends.                                  *)
Finish ==
  /\ WIP
  /\ mem' \in IF cut THEN Damage(running, mem) ELSE After(running, mem)
  /\ running' = NoJob /\ cut' = FALSE /\ wel' = FALSE
  /\ sent' = IF sent = "running" THEN "applied" ELSE sent
  /\ UNCHANGED <<fourByte, errFlag, busVars, job, step, status, readBuffer>>

(* It fails, and the flag status register says so.                         *)
FinishInError ==
  /\ WIP /\ Faulty
  /\ mem' \in Damage(running, mem)
  /\ running' = NoJob /\ cut' = FALSE /\ wel' \in BOOLEAN
  /\ errFlag' = TRUE
  /\ sent' = IF sent = "running" THEN "applied" ELSE sent
  /\ UNCHANGED <<fourByte, busVars, job, step, status, readBuffer>>

-----------------------------------------------------------------------------
(* The transfers of each function, "ready" being SpiFlashWaitForFlashReady *)
(* and "CfgInitialize" the driver calls of System_init_startup.            *)

(* Fault for the mutation runs: the flash is not waited for.               *)
WriteEnableUnready == <<"WREN">>

(* SpiFlashWriteEnable                                                     *)
WriteEnable == <<"ready", "WREN">>

(* SpiFlash4bytemodeEnable                                                 *)
FourByteModeEnable == WriteEnable \o <<"ready", "EN4B">>

(* SpiFlash4byteexit                                                       *)
FourByteExit == WriteEnable \o <<"ready", "EX4B">>

(* SpiFlashReadflagstatus, SpiFlashClrflagstatus                           *)
ReadFlagStatus == WriteEnable \o <<"ready", "FSR">>
ClrFlagStatus  == <<"ready", "CLFSR">>
FlagStatus     == ReadFlagStatus \o ClrFlagStatus

(* SpiReadExtendedAddressRegister                                          *)
ReadExtendedAddress == WriteEnable \o <<"ready", "RDEAR">>

(* Fault for the mutation runs: a page is written without the mode exit.   *)
WritePageNoExit == FourByteModeEnable \o WriteEnable \o <<"ready", "PP">>

(* SpiFlashWrite_File                                                      *)
WritePage == FourByteModeEnable \o WriteEnable \o <<"ready", "PP">> \o FourByteExit

(* SpiFlashQuadEnable                                                      *)
QuadEnable == WriteEnable \o <<"ready", "WRSR", "ready", "RDCR">>

Script(name) ==
  CASE name = "System_init_startup"    -> <<"CfgInitialize">> \o WriteEnable
    [] name = "SpiFlashWriteEnable"    -> WriteEnable
    [] name = "SpiFlashQuadEnable"     -> QuadEnable
    [] name = "SpiFlashReadID"         -> <<"ready", "RDID">>
    [] name = "SpiFlashReadflagstatus" -> ReadFlagStatus
    [] name = "SpiFlashClrflagstatus"  -> ClrFlagStatus
    [] name = "SpiFlashGetStatusPrint" -> <<"RDSR">>
    [] name = "qspi_ease_entire_flash" -> WriteEnable \o <<"ready", "BE">>
    [] name = "SpiFlashSectorErase" ->
         FourByteModeEnable \o WriteEnable \o <<"ready", "SE", "RDSR">> \o FlagStatus
    [] name = "SpiFlashDieErase" ->
         FourByteModeEnable \o ReadExtendedAddress \o WriteEnable
         \o <<"ready", "DE", "RDSR">> \o FlagStatus
    [] name = "SpiFlashWrite_File" -> WritePage
    [] name = "SpiFlashRead" ->
         FourByteModeEnable \o WriteEnable \o <<"ready", "READ">> \o FourByteExit

Command == Script(job.name)[step]

(* GetStatus drops the failures of its flag status steps.                  *)
FailureDropped ==
  /\ job.name \in {"SpiFlashSectorErase", "SpiFlashDieErase"}
  /\ step > Len(Script(job.name)) - Len(FlagStatus)

-----------------------------------------------------------------------------
(* The host.                                                               *)

Init ==
  /\ mem \in [Page -> Contents]
  /\ wel \in BOOLEAN /\ fourByte \in BOOLEAN /\ errFlag \in BOOLEAN
  /\ running = NoJob /\ cut = FALSE
  /\ isStarted = FALSE /\ stuck = FALSE /\ held = NoFrame
  /\ job = NoJob /\ step = 0 /\ status = "none" /\ readBuffer = Blank
  /\ sent = "no"

Usable == isStarted /\ ~stuck

Return(s) == step' = 0 /\ status' = s /\ sent' = "no" /\ UNCHANGED job

(* Fault for the mutation runs: the last transfer is not seen to be last.  *)
AdvanceTooFar(effect) ==
  IF step > Len(Script(job.name)) THEN Return("XST_SUCCESS")
  ELSE step' = step + 1 /\ sent' = effect /\ UNCHANGED <<job, status>>

(* The transfer succeeded: the next one, or the end of the function.       *)
Advance(effect) ==
  IF step = Len(Script(job.name)) THEN Return("XST_SUCCESS")
  ELSE step' = step + 1 /\ sent' = effect /\ UNCHANGED <<job, status>>

Call(j) ==
  /\ step = 0
  /\ job' = j /\ step' = 1 /\ status' = "none"
  /\ UNCHANGED <<flashVars, busVars, readBuffer, sent>>

(* XSpi_CfgInitialize ... XSpi_Start.  The reset deselects the flash, which *)
(* executes what a former process left there: a complete command, a        *)
(* program with the data that has arrived, or nothing.                     *)
CfgInitialize ==
  /\ step > 0 /\ Command = "CfgInitialize" /\ ~isStarted
  /\ isStarted' = TRUE /\ held' = NoFrame
  /\ \/ Execute(held.cmd, held.job)
     \/ /\ held.cmd = "PP" /\ Accepts("PP")
        /\ running' = held.job /\ cut' = TRUE
        /\ UNCHANGED <<mem, wel, fourByte, errFlag>>
     \/ UNCHANGED flashVars
  /\ Advance(sent)
  /\ UNCHANGED <<stuck, readBuffer>>

(* XSpi_CfgInitialize returns XST_DEVICE_IS_STARTED.                       *)
CfgInitializeRefused ==
  /\ step > 0 /\ Command = "CfgInitialize" /\ isStarted
  /\ Return("XST_FAILURE")
  /\ UNCHANGED <<flashVars, busVars, readBuffer>>

(* Fault for the mutation runs: another bit of the status register.        *)
WaitForFlashReadyWel ==
  /\ step > 0 /\ Usable /\ Command = "ready"
  /\ IF wel THEN UNCHANGED <<job, step, status, sent>> ELSE Advance(sent)
  /\ UNCHANGED <<flashVars, busVars, readBuffer>>

(* One status read of SpiFlashWaitForFlashReady.                           *)
WaitForFlashReady ==
  /\ step > 0 /\ Usable /\ Command = "ready"
  /\ IF WIP THEN UNCHANGED <<job, step, status, sent>> ELSE Advance(sent)
  /\ UNCHANGED <<flashVars, busVars, readBuffer>>

(* A command is exchanged.                                                 *)
Send ==
  /\ step > 0 /\ Usable /\ Command \notin {"ready", "CfgInitialize"}
  /\ Execute(Command, job)
  /\ readBuffer' = IF Command = "READ" THEN mem[job.page] ELSE readBuffer
  /\ Advance(IF Command \in Modifying /\ Accepts(Command) THEN "running" ELSE sent)
  /\ UNCHANGED busVars

(* Fault for the mutation runs: a failed transfer is taken for the end.    *)
FailSucceeds == Return("XST_SUCCESS")

(* A transfer failed.                                                      *)
Fail == Return(IF FailureDropped THEN "XST_SUCCESS" ELSE "XST_FAILURE")

(* The transfer gives up; its frame stays on the selected flash.           *)
GiveUp ==
  /\ step > 0 /\ Usable /\ Command # "CfgInitialize"
  /\ stuck' = TRUE /\ held' = [cmd |-> Command, job |-> job]
  /\ Fail
  /\ UNCHANGED <<flashVars, isStarted, readBuffer>>

(* The driver refuses: it is stopped, or busy with the transfer given up.  *)
Refused ==
  /\ step > 0 /\ ~Usable /\ Command # "CfgInitialize"
  /\ Fail
  /\ UNCHANGED <<flashVars, busVars, readBuffer>>

(* The process ends, perhaps in the middle of a transfer.                  *)
ProcessEnd ==
  /\ isStarted' = FALSE /\ stuck' = FALSE
  /\ held' \in {held} \cup
       IF step > 0 /\ Usable /\ Command # "CfgInitialize"
       THEN {[cmd |-> Command, job |-> job]} ELSE {}
  /\ job' = NoJob /\ step' = 0 /\ status' = "none" /\ sent' = "no"
  /\ readBuffer' = Blank
  /\ UNCHANGED flashVars

HostStep   == CfgInitialize \/ CfgInitializeRefused \/ WaitForFlashReady \/ Send \/ Refused
DeviceStep == Finish \/ FinishInError
Next == (\E j \in Job : Call(j)) \/ HostStep \/ GiveUp \/ ProcessEnd \/ DeviceStep

Spec == Init /\ [][Next]_vars

(* The thread inside a call runs on, and the flash ends what it has begun. *)
FairSpec == Spec /\ WF_vars(HostStep) /\ WF_vars(DeviceStep)

-----------------------------------------------------------------------------
(* The type of every variable.                                             *)
TypeOK ==
  /\ mem \in [Page -> Contents] /\ readBuffer \in Contents
  /\ wel \in BOOLEAN /\ cut \in BOOLEAN /\ fourByte \in BOOLEAN /\ errFlag \in BOOLEAN
  /\ isStarted \in BOOLEAN /\ stuck \in BOOLEAN
  /\ running \in Job \cup {NoJob} /\ job \in Job \cup {NoJob}
  /\ held = NoFrame \/ (held.job \in Job /\ held.cmd \in NeedsReady \cup {"ready", "RDSR", "FSR"})
  /\ step > 0 => job \in Job /\ step \in 1..Len(Script(job.name))
  /\ status \in {"none", "XST_SUCCESS", "XST_FAILURE"}
  /\ sent \in {"no", "running", "applied"}

(* The flash ignores a command it cannot take, and no function looks       *)
(* whether it was taken: still every command is sent in a state in which   *)
(* the flash takes it, whatever was interrupted, given up or left running  *)
(* by an earlier process.                                                  *)
CommandsAccepted == (step > 0 /\ Usable) => Accepts(Command)

(* SpiFlashWrite_File and SpiFlashRead return success only with the flash  *)
(* at rest: no erase or program in progress, none left on the bus, 3-byte  *)
(* addressing (which is what the FPGA boots with) restored.                *)
SuccessLeavesRest ==
  (step = 0 /\ status = "XST_SUCCESS" /\ job.name \in {"SpiFlashWrite_File", "SpiFlashRead"})
    => running = NoJob /\ held = NoFrame /\ ~fourByte

(* The layer keeps what FlashStore promises: an effect takes place at most *)
(* once, before the call returns success; a read answers with the page;    *)
(* and after a successful start-up nothing of an earlier process is left   *)
(* to change the flash.                                                    *)
Store == INSTANCE FlashStore WITH
  store   <- mem,
  job     <- IF step = 0 THEN NoJob ELSE job,
  applied <- sent = "applied",
  orphan  <- IF WIP /\ Modifies(running) /\ sent # "running" THEN running
             ELSE IF held.cmd \in Modifying THEN held.job ELSE NoJob,
  result  <- status,
  answer  <- IF step = 0 /\ status = "XST_SUCCESS" /\ job.name = "SpiFlashRead"
             THEN readBuffer ELSE Blank

ImplementsStore == Store!StoreSpec

(* Every call returns.                                                     *)
CallsReturn == (step > 0) ~> (step = 0)

(* What the comment of SpiFlashSectorErase says: it returns "XST_SUCCESS   *)
(* if successful else XST_FAILURE", and "The erased bytes will be read     *)
(* back as 0xFF" (flash_qspi_rw.c:1513-1515).                              *)
EraseSuccessMeansErased ==
  (step = 0 /\ status = "XST_SUCCESS" /\ job.name = "SpiFlashSectorErase")
    => \A p \in Target(job) : mem[p] = Blank
=============================================================================
