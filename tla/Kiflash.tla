------------------------------- MODULE Kiflash -------------------------------
(***************************************************************************)
(* The Node addon (kiflash.cc on streaming-worker.h) and the programming   *)
(* run it starts (kiflash_program_user of flash_qspi_rw.c).                *)
(*                                                                         *)
(* Three kinds of thread share the statics of flash_qspi_rw.c without a    *)
(* lock: the Node main thread, which creates workers, delivers their       *)
(* messages and may call icap; the pool thread of each worker, in Execute, *)
(* which polls the percentage and sends it; and the thread of the run that *)
(* Execute starts, which calls the flash layer.  The flash layer is what   *)
(* FlashStore promises (SpiFlash.tla implements it).                       *)
(*                                                                         *)
(* Assumed of the client: a worker is created only when the run of the     *)
(* former one has returned.                                                *)
(***************************************************************************)
EXTENDS FlashStore, Integers, SequencesExt

CONSTANTS
  Workers,      (* bound: workers one process creates, 1..n                *)
  UserSector,   (* FLASH_USER_..._START and die 2, where erasing begins    *)
  TimerSector,  (* FLASH_USER_ERASE_END_ADDRESS                            *)
  Images,       (* contents of the image file: per page, what fread may    *)
                (* leave in the malloc'ed buffer (several if it is partial) *)
  IcapAnyTime   (* icap may be called while a run is in progress           *)

ASSUME KiflashAssumption ==
  /\ Cardinality(Workers) \in Nat /\ Workers = 1..Cardinality(Workers)
  /\ Cardinality(Sectors) \in Nat /\ Sectors = 0..(Cardinality(Sectors) - 1)
  /\ Cardinality(Slots) \in Nat \ {0} /\ Slots = 0..(Cardinality(Slots) - 1)
  /\ UserSector \in Sectors /\ TimerSector \in Sectors /\ UserSector < TimerSector
  /\ Data # {} /\ Images \subseteq Seq((SUBSET Data) \ {{}})
  /\ \A im \in Images :     (* no image reaches past the flash            *)
       (UserSector * Cardinality(Slots)) + Len(im) <= Cardinality(Sectors) * Cardinality(Slots)
  /\ IcapAnyTime \in BOOLEAN

VARIABLES
  flag,          (* qspi_init_flag                                         *)
  baseAddr, eraseEnd, fileSet, percentage,  (* FlashData                   *)
  image, exists, (* the image file, and that it exists                     *)
  pc,            (* where the run is                                       *)
  i, base, file, buffer,  (* its locals: loop counter, baseStartAddr, the  *)
                 (* open file and the page read from it                    *)
  caller,        (* who is inside a flash call: "none", "run" or "js"      *)
  returned,      (* worker -> what its run returned (the future)           *)
  exec, N,       (* worker -> its pool thread in Execute, and its N        *)
  toNode,        (* worker -> the queue of messages                        *)
  signalled,     (* worker -> progress has been sent to the main thread    *)
  last,          (* worker -> the last message delivered; -1 for none      *)
  js,            (* the main thread: "idle", or its place in icap          *)
  verified       (* a run of this process has verified its image (history) *)

locals     == <<i, base, file, buffer>>
fileVars   == <<image, exists>>
fieldVars  == <<baseAddr, eraseEnd, fileSet>>
nodeVars   == <<exec, N, toNode, signalled, last>>
vars == <<storeVars, flag, fieldVars, percentage, fileVars, pc, locals, caller,
          returned, nodeVars, js, verified>>

-----------------------------------------------------------------------------
(* Addresses count pages.                                                  *)
SectorPages == Cardinality(Slots)
PageAt(a)   == <<a \div SectorPages, a % SectorPages>>
Address(s)  == s * SectorPages

(* With filename cleared, fopen opens the directory, whose size makes the  *)
(* page count wrap to 0.                                                   *)
File == IF fileSet THEN image ELSE <<>>

(* fopen fails in qspi_program_bin and qspi_verify_bin.                    *)
Missing == fileSet /\ ~exists

(* SectorsToErase, an unsigned difference: too many when the end is below. *)
SectorsToErase == eraseEnd - UserSector
TooMany        == SectorsToErase < 0

Created == {w \in Workers : exec[w] # "none"}
Newest  == Cardinality(Created)
AtRest  == \A w \in Created : returned[w] # "no"

-----------------------------------------------------------------------------
(* Calls of the flash layer: c enters it with job j; back when it returns. *)
AnyData        == CHOOSE d \in Data : TRUE
StartupJob     == Plain("System_init_startup")

Enter(c, j) == caller = "none" /\ Begin(j) /\ caller' = c

Back(c) == caller = c /\ job = NoJob /\ caller' = "none" /\ UNCHANGED storeVars

Done == result = "XST_SUCCESS"

(* The run returns r.                                                      *)
Return(r) ==
  /\ pc' = "none" /\ i' = 0 /\ base' = 0 /\ file' = <<>> /\ buffer' = AnyData
  /\ returned' = [returned EXCEPT ![Newest] = r]

Goto(l) == pc' = l /\ UNCHANGED <<locals, returned>>

(* One more turn of a loop, if the call succeeded.                         *)
Again(ok) ==
  IF ok THEN i' = i + 1 /\ UNCHANGED <<pc, base, file, buffer, returned>>
  ELSE Return("XST_FAILURE")

-----------------------------------------------------------------------------
(* The run: kiflash_program_user.                                          *)

(* kiflash_init, up to System_init_startup.                                *)
ResetFlashData ==
  baseAddr' = 0 /\ eraseEnd' = 0 /\ fileSet' = FALSE /\ percentage' = 0

KiflashInit ==
  /\ pc = "init" /\ ResetFlashData
  /\ Goto(IF flag THEN "fields" ELSE "startup")
  /\ UNCHANGED <<storeVars, flag, fileVars, caller, nodeVars, js, verified>>

(* System_init_startup, called where the flag is clear.                    *)
Startup ==
  /\ pc = "startup" \/ (pc \in {"openProgram", "openVerify"} /\ ~flag /\ ~Missing)
  /\ Enter("run", StartupJob)
  /\ UNCHANGED <<flag, fieldVars, percentage, fileVars, pc, locals, returned,
                 nodeVars, js, verified>>

(* What kiflash_init returns is ignored; qspi_program_bin and              *)
(* qspi_verify_bin give up.                                                *)
StartupBack ==
  /\ pc = "startup" \/ (pc \in {"openProgram", "openVerify"} /\ ~flag)
  /\ Back("run")
  /\ flag' = (flag \/ Done)
  /\ IF pc = "startup" THEN Goto("fields")
     ELSE IF Done THEN Goto(pc) ELSE Return("XST_FAILURE")
  /\ UNCHANGED <<fieldVars, percentage, fileVars, nodeVars, js, verified>>

SetFields ==
  /\ pc = "fields"
  /\ baseAddr' = Address(UserSector) /\ eraseEnd' = TimerSector
  /\ fileSet' = TRUE /\ percentage' = 0
  /\ Goto("programUser")
  /\ UNCHANGED <<storeVars, flag, fileVars, caller, nodeVars, js, verified>>

ProgramUser ==
  /\ pc = "programUser" /\ percentage' = 1 /\ Goto("erase")
  /\ UNCHANGED <<storeVars, flag, fieldVars, fileVars, caller, nodeVars, js, verified>>

(* Fault for the mutation runs: the first address is in the golden image.  *)
EraseFromStart(k) == Address(k)

(* The address qspi_erase_sector_flash has reached after k sectors.        *)
EraseAddress(k) == Address(UserSector + k)

EraseSector ==
  /\ pc = "erase" /\ ~TooMany /\ i < SectorsToErase
  /\ Enter("run", SectorErase(PageAt(EraseAddress(i))[1]))
  /\ UNCHANGED <<flag, fieldVars, percentage, fileVars, pc, locals, returned,
                 nodeVars, js, verified>>

EraseSectorBack ==
  /\ pc = "erase" /\ Back("run") /\ Again(Done)
  /\ percentage' = IF Done THEN percentage ELSE 20
  /\ UNCHANGED <<flag, fieldVars, fileVars, nodeVars, js, verified>>

EraseEnd ==
  /\ pc = "erase" /\ caller # "run" /\ (TooMany \/ i = SectorsToErase)
  /\ percentage' = 20
  /\ IF TooMany THEN Return("XST_FAILURE")
     ELSE /\ pc' = "openProgram" /\ i' = 0 /\ base' = baseAddr
          /\ UNCHANGED <<file, buffer, returned>>
  /\ UNCHANGED <<storeVars, flag, fieldVars, fileVars, caller, nodeVars, js, verified>>

FileMissing ==
  /\ pc \in {"openProgram", "openVerify"} /\ caller # "run" /\ Missing
  /\ Return("XST_FAILURE")
  /\ UNCHANGED <<storeVars, flag, fieldVars, percentage, fileVars, caller,
                 nodeVars, js, verified>>

(* The slave is selected and the flash write enabled, before the loop.     *)
Open ==
  /\ pc \in {"openProgram", "openVerify"} /\ flag /\ ~Missing
  /\ Enter("run", Plain("SpiFlashWriteEnable"))
  /\ file' = File
  /\ UNCHANGED <<flag, fieldVars, percentage, fileVars, pc, i, base, buffer, returned,
                 nodeVars, js, verified>>

OpenBack ==
  /\ pc \in {"openProgram", "openVerify"} /\ flag /\ Back("run")
  /\ IF Done THEN Goto(IF pc = "openProgram" THEN "program" ELSE "verify")
             ELSE Return("XST_FAILURE")
  /\ UNCHANGED <<flag, fieldVars, percentage, fileVars, nodeVars, js, verified>>

(* Fault for the mutation runs: the fraction is not scaled to its half.    *)
PercentUnscaled(first) == IF i = 0 THEN percentage ELSE first + (100 * i) \div Len(file)

(* The percentage at page i, counted from the loop's first; the first page *)
(* leaves it alone.                                                        *)
Percent(first) == IF i = 0 THEN percentage ELSE first + (40 * i) \div Len(file)

ProgramPage ==
  /\ pc = "program" /\ i < Len(file)
  /\ \E d \in file[i + 1] : Enter("run", WriteFile(PageAt(base + i), d))
  /\ percentage' = Percent(20)
  /\ UNCHANGED <<flag, fieldVars, fileVars, pc, locals, returned, nodeVars, js, verified>>

ProgramPageBack ==
  /\ pc = "program" /\ Back("run") /\ Again(Done)
  /\ UNCHANGED <<flag, fieldVars, percentage, fileVars, nodeVars, js, verified>>

(* Fault for the mutation runs: the programmed image is taken for done.    *)
ProgramEndHundred ==
  /\ pc = "program" /\ caller # "run" /\ i = Len(file)
  /\ percentage' = 100
  /\ pc' = "openVerify" /\ i' = 0 /\ base' = baseAddr
  /\ UNCHANGED <<storeVars, flag, fieldVars, fileVars, file, buffer, caller, returned,
                 nodeVars, js, verified>>

ProgramEnd ==
  /\ pc = "program" /\ caller # "run" /\ i = Len(file)
  /\ percentage' = 60
  /\ pc' = "openVerify" /\ i' = 0 /\ base' = baseAddr
  /\ UNCHANGED <<storeVars, flag, fieldVars, fileVars, file, buffer, caller, returned,
                 nodeVars, js, verified>>

(* Fault for the mutation runs: the second half counts from 20 again.      *)
VerifyPageFrom20 ==
  /\ pc = "verify" /\ i < Len(file)
  /\ \E d \in file[i + 1] :
       buffer' = d /\ Enter("run", Read(PageAt(base + i)))
  /\ percentage' = Percent(20)
  /\ UNCHANGED <<flag, fieldVars, fileVars, pc, i, base, file, returned, nodeVars,
                 js, verified>>

VerifyPage ==
  /\ pc = "verify" /\ i < Len(file)
  /\ \E d \in file[i + 1] :
       buffer' = d /\ Enter("run", Read(PageAt(base + i)))
  /\ percentage' = Percent(60)
  /\ UNCHANGED <<flag, fieldVars, fileVars, pc, i, base, file, returned, nodeVars,
                 js, verified>>

(* Fault for the mutation runs: the page read is not compared.             *)
VerifyPageUncompared ==
  /\ pc = "verify" /\ Back("run") /\ Again(Done)
  /\ UNCHANGED <<flag, fieldVars, percentage, fileVars, nodeVars, js, verified>>

VerifyPageBack ==
  /\ pc = "verify" /\ Back("run") /\ Again(Done /\ answer = buffer)
  /\ UNCHANGED <<flag, fieldVars, percentage, fileVars, nodeVars, js, verified>>

VerifyEnd ==
  /\ pc = "verify" /\ caller # "run" /\ i = Len(file)
  /\ percentage' = 100 /\ verified' = TRUE /\ Goto("icap")
  /\ UNCHANGED <<storeVars, flag, fieldVars, fileVars, caller, nodeVars, js>>

(* The IPROG sequence, which reboots the FPGA and its SPI core (calls that  *)
(* fail from then on are among those that Fail), then the return.          *)
Icap ==
  /\ pc = "icap" /\ percentage' = 100 /\ Return("XST_SUCCESS")
  /\ UNCHANGED <<storeVars, flag, fieldVars, fileVars, caller, nodeVars, js, verified>>

-----------------------------------------------------------------------------
(* The pool thread of worker w: Execute.                                   *)

(* send_factor: the message is queued and the main thread signalled.       *)
SendFactor(w, n) ==
  /\ toNode' = [toNode EXCEPT ![w] = Append(@, n)]
  /\ signalled' = [signalled EXCEPT ![w] = TRUE]

At(w, l)   == exec[w] = l
Move(w, l) == exec' = [exec EXCEPT ![w] = l]

Execute(w) ==
  /\ At(w, "queued")
  /\ N' = [N EXCEPT ![w] = 0] /\ SendFactor(w, 0) /\ Move(w, "poll")
  /\ pc' = "init"
  /\ UNCHANGED <<storeVars, flag, fieldVars, percentage, fileVars, locals, caller,
                 returned, last, js, verified>>

(* Fault for the mutation runs: the loop waits for more than 100.          *)
PollPast100(w) ==
  /\ At(w, "poll") /\ percentage # N[w]
  /\ N' = [N EXCEPT ![w] = percentage] /\ SendFactor(w, percentage)
  /\ Move(w, IF percentage > 100 THEN "final" ELSE "poll")
  /\ UNCHANGED <<storeVars, flag, fieldVars, percentage, fileVars, pc, locals, caller,
                 returned, last, js, verified>>

(* A turn of the loop that finds a new percentage.                         *)
Poll(w) ==
  /\ At(w, "poll") /\ percentage # N[w]
  /\ N' = [N EXCEPT ![w] = percentage] /\ SendFactor(w, percentage)
  /\ Move(w, IF percentage = 100 THEN "final" ELSE "poll")
  /\ UNCHANGED <<storeVars, flag, fieldVars, percentage, fileVars, pc, locals, caller,
                 returned, last, js, verified>>

SendFinal(w) ==
  /\ At(w, "final") /\ SendFactor(w, 100) /\ Move(w, "join")
  /\ UNCHANGED <<storeVars, flag, fieldVars, percentage, fileVars, pc, locals, caller,
                 returned, N, last, js, verified>>

(* Fault for the mutation runs: the future is dropped.                     *)
JoinDetached(w) ==
  /\ At(w, "join") /\ Move(w, "complete")
  /\ UNCHANGED <<storeVars, flag, fieldVars, percentage, fileVars, pc, locals, caller,
                 returned, N, toNode, signalled, last, js, verified>>

(* fut.get                                                                 *)
Join(w) ==
  /\ At(w, "join") /\ returned[w] # "no" /\ Move(w, "complete")
  /\ UNCHANGED <<storeVars, flag, fieldVars, percentage, fileVars, pc, locals, caller,
                 returned, N, toNode, signalled, last, js, verified>>

-----------------------------------------------------------------------------
(* The main thread.                                                        *)

(* A worker is created; the image file is in place by then, or is missing. *)
New(w) ==
  /\ js = "idle" /\ AtRest /\ w = Newest + 1
  /\ Move(w, "queued")
  /\ image' \in Images /\ exists' \in BOOLEAN
  /\ UNCHANGED <<storeVars, flag, fieldVars, percentage, pc, locals, caller, returned,
                 N, toNode, signalled, last, js, verified>>

(* drainQueue: every queued message is delivered, in order.                *)
DrainQueue(w) ==
  /\ toNode' = [toNode EXCEPT ![w] = <<>>]
  /\ last' = [last EXCEPT ![w] = IF toNode[w] = <<>> THEN @ ELSE Last(toNode[w])]
  /\ signalled' = [signalled EXCEPT ![w] = FALSE]

HandleProgressCallback(w) ==
  /\ js = "idle" /\ signalled[w] /\ ~At(w, "closed")
  /\ DrainQueue(w)
  /\ UNCHANGED <<storeVars, flag, fieldVars, percentage, fileVars, pc, locals, caller,
                 returned, exec, N, js, verified>>

(* Fault for the mutation runs: the close does not drain the queue.        *)
HandleOKCallbackUndrained(w) ==
  /\ js = "idle" /\ At(w, "complete") /\ Move(w, "closed")
  /\ UNCHANGED <<storeVars, flag, fieldVars, percentage, fileVars, pc, locals, caller,
                 returned, N, toNode, signalled, last, js, verified>>

HandleOKCallback(w) ==
  /\ js = "idle" /\ At(w, "complete") /\ DrainQueue(w) /\ Move(w, "closed")
  /\ UNCHANGED <<storeVars, flag, fieldVars, percentage, fileVars, pc, locals, caller,
                 returned, N, js, verified>>

(* kiflash_icap finds the flag clear, and calls kiflash_init.  (With the   *)
(* flag set it only writes the IPROG sequence.)                            *)
IcapCalled ==
  /\ js = "idle" /\ ~flag /\ (IcapAnyTime \/ AtRest) /\ js' = "init"
  /\ UNCHANGED <<storeVars, flag, fieldVars, percentage, fileVars, pc, locals, caller,
                 returned, nodeVars, verified>>

IcapInit ==
  /\ js = "init" /\ ResetFlashData /\ js' = IF flag THEN "idle" ELSE "startup"
  /\ UNCHANGED <<storeVars, flag, fileVars, pc, locals, caller, returned, nodeVars,
                 verified>>

IcapStartup ==
  /\ js = "startup" /\ Enter("js", StartupJob)
  /\ UNCHANGED <<flag, fieldVars, percentage, fileVars, pc, locals, returned, nodeVars,
                 js, verified>>

IcapStartupBack ==
  /\ js = "startup" /\ Back("js") /\ flag' = (flag \/ Done) /\ js' = "idle"
  /\ UNCHANGED <<fieldVars, percentage, fileVars, pc, locals, returned, nodeVars,
                 verified>>

-----------------------------------------------------------------------------
(* A process starts.                                                       *)
Fresh ==
  /\ flag = FALSE /\ baseAddr = 0 /\ eraseEnd = 0 /\ fileSet = FALSE /\ percentage = 0
  /\ image = <<>> /\ exists = FALSE
  /\ pc = "none" /\ i = 0 /\ base = 0 /\ file = <<>> /\ buffer = AnyData
  /\ caller = "none" /\ returned = [w \in Workers |-> "no"]
  /\ exec = [w \in Workers |-> "none"] /\ N = [w \in Workers |-> -1]
  /\ toNode = [w \in Workers |-> <<>>] /\ signalled = [w \in Workers |-> FALSE]
  /\ last = [w \in Workers |-> -1] /\ js = "idle" /\ verified = FALSE

Init == StoreInit /\ Fresh

ProcessEnd ==
  /\ Fail("none") \/ Rest
  /\ flag' = FALSE /\ baseAddr' = 0 /\ eraseEnd' = 0 /\ fileSet' = FALSE /\ percentage' = 0
  /\ image' = <<>> /\ exists' = FALSE
  /\ pc' = "none" /\ i' = 0 /\ base' = 0 /\ file' = <<>> /\ buffer' = AnyData
  /\ caller' = "none" /\ returned' = [w \in Workers |-> "no"]
  /\ exec' = [w \in Workers |-> "none"] /\ N' = [w \in Workers |-> -1]
  /\ toNode' = [w \in Workers |-> <<>>] /\ signalled' = [w \in Workers |-> FALSE]
  /\ last' = [w \in Workers |-> -1] /\ js' = "idle" /\ verified' = FALSE

FlashStep ==
  /\ Apply \/ Succeed \/ Fail("XST_FAILURE") \/ OrphanEnds
  /\ UNCHANGED <<flag, fieldVars, percentage, fileVars, pc, locals, caller, returned,
                 nodeVars, js, verified>>

RunStep ==
  \/ KiflashInit \/ Startup \/ StartupBack \/ SetFields \/ ProgramUser
  \/ EraseSector \/ EraseSectorBack \/ EraseEnd
  \/ FileMissing \/ Open \/ OpenBack
  \/ ProgramPage \/ ProgramPageBack \/ ProgramEnd
  \/ VerifyPage \/ VerifyPageBack \/ VerifyEnd \/ Icap

ExecuteStep(w) == Execute(w) \/ Poll(w) \/ SendFinal(w) \/ Join(w)

(* What the event loop of the main thread, and icap once called, must do.  *)
MainStep ==
  \/ \E w \in Workers : HandleProgressCallback(w) \/ HandleOKCallback(w)
  \/ IcapInit \/ IcapStartup \/ IcapStartupBack

Next ==
  \/ FlashStep \/ RunStep \/ (\E w \in Workers : ExecuteStep(w)) \/ MainStep
  \/ (\E w \in Workers : New(w)) \/ IcapCalled \/ ProcessEnd

Spec == Init /\ [][Next]_vars

(* Every thread that can run does, and the calls of the flash layer return *)
(* (SpiFlash.tla, CallsReturn).                                            *)
Fairness ==
  /\ WF_vars(FlashStep) /\ WF_vars(RunStep) /\ WF_vars(MainStep)
  /\ \A w \in Workers : WF_vars(ExecuteStep(w))

FairSpec == Spec /\ Fairness

-----------------------------------------------------------------------------
(* The type of every variable.                                             *)
Percentages == 0..100
TypeOK ==
  /\ store \in [Page -> Contents] /\ job \in Job \cup {NoJob} /\ orphan \in Job \cup {NoJob}
  /\ applied \in BOOLEAN /\ answer \in Contents
  /\ result \in {"none", "XST_SUCCESS", "XST_FAILURE"}
  /\ flag \in BOOLEAN /\ fileSet \in BOOLEAN /\ exists \in BOOLEAN /\ verified \in BOOLEAN
  /\ baseAddr \in Nat /\ eraseEnd \in Nat /\ base \in Nat /\ i \in Nat
  /\ percentage \in Percentages /\ buffer \in Data
  /\ image \in Images \cup {<<>>} /\ file \in Images \cup {<<>>}
  /\ pc \in {"none", "init", "startup", "fields", "programUser", "erase", "openProgram",
             "program", "openVerify", "verify", "icap"}
  /\ caller \in {"none", "run", "js"} /\ js \in {"idle", "init", "startup"}
  /\ returned \in [Workers -> {"no", "XST_SUCCESS", "XST_FAILURE"}]
  /\ exec \in [Workers -> {"none", "queued", "poll", "final", "join", "complete", "closed"}]
  /\ N \in [Workers -> Percentages \cup {-1}] /\ last \in [Workers -> Percentages \cup {-1}]
  /\ toNode \in [Workers -> Seq(Percentages)] /\ signalled \in [Workers -> BOOLEAN]

(* When kiflash_program_user has returned success, every page of the image *)
(* is in the flash (up to the bytes after its end), nothing that an        *)
(* earlier call or process left is about to change it, and this stays so   *)
(* until the next run: verification sees what erase errors, page program   *)
(* errors and interruptions have left.                                     *)
SuccessMeansProgrammed ==
  \A w \in Created : (w = Newest /\ returned[w] = "XST_SUCCESS") =>
    /\ orphan = NoJob
    /\ \A k \in 1..Len(image) :
         store[PageAt(Address(UserSector) + k - 1)] \in image[k]

(* No run, however it ends, and nothing it leaves behind changes a page    *)
(* below the user image, or one above it that the image file does not      *)
(* itself reach (nothing checks that the file fits).                       *)
MayChange(p) ==
  /\ p[1] >= UserSector
  /\ \/ p[1] < TimerSector
     \/ \E im \in Images : \E k \in DOMAIN im : p = PageAt(Address(UserSector) + k - 1)

OthersKept == [][\A p \in Page : store'[p] # store[p] => MayChange(p)]_vars

(* While a run is in progress the percentage never decreases, and it       *)
(* reaches 100 only by a verification.                                     *)
PercentageGrows ==
  [][(pc \notin {"none", "init"} /\ exec' # [w \in Workers |-> "none"])
       => percentage' >= percentage /\ (percentage' = 100 => verified')]_vars

(* A worker is told 100 only if a run of this process has verified its     *)
(* image: perhaps not its own run, since the percentage of a former run is *)
(* there to be read until kiflash_init clears it.                          *)
HundredIsEarned ==
  \A w \in Workers : (last[w] = 100 \/ 100 \in ToSet(toNode[w])) => verified

(* The close of a worker comes after everything it was told, the last of   *)
(* which is 100, and after its run.                                        *)
ClosesLast ==
  \A w \in Workers : At(w, "closed") =>
    returned[w] # "no" /\ toNode[w] = <<>> /\ last[w] = 100

(* A run that succeeds has its worker closed, unless the process ends or   *)
(* the next run takes the percentage away before its worker has seen it.   *)
SuccessCloses ==
  \A w \in Workers :
    (returned[w] = "XST_SUCCESS" /\ exec[w] # "none")
      ~> (At(w, "closed") \/ At(w, "none") \/ w # Newest)

(* What the comment of XSpi_Transfer asks of "the higher layer software":  *)
(* that "no two threads are transferring data on the SPI bus at the same   *)
(* time" (xspi.c:625-626).                                                 *)
OneThreadOnBus == ~(caller = "run" /\ js = "startup")
=============================================================================
