----------------------------- MODULE KiflashCmd -----------------------------
(***************************************************************************)
(* The command line program (main of kiflashcmd/src/flash_qspi_rw.c): one  *)
(* thread that reads menu options and carries them out on the flash layer  *)
(* (FlashStore).                                                           *)
(*                                                                         *)
(* An option is a list of tasks.  A task that fails ends the option, or is *)
(* passed over where the code drops its result.  The menu has no exit:     *)
(* the process is killed, which may happen anywhere, and started again.    *)
(***************************************************************************)
EXTENDS FlashStore, Integers, Sequences, FiniteSets

CONSTANTS
  Regions,      (* region -> [file, base, first, last]: the page its image *)
                (* starts at, the first sector it erases and the first     *)
                (* one after                                               *)
  Disks,        (* what a directory may hold: file name -> pages, each the *)
                (* set of pages that fread may leave in the malloc'ed      *)
                (* buffer; a name that is not in it cannot be opened       *)
  FixedFile,    (* the file qspi_program_flash opens, at an absolute path  *)
  EightBytes,   (* a page of which eight bytes are programmed              *)
  Options       (* bound: the menu options that are chosen                 *)

Capacity == Cardinality(Sectors) * Cardinality(Slots)     (* in pages      *)
FirstOf(d) == CHOOSE s \in Sectors : Die[s] = d /\ \A t \in Sectors : Die[t] = d => s <= t

(* An option asks for what is there.                                       *)
InDevice(o) ==
  CASE o.name \in {"flashGeo", "flagStatus", "quadEnable"} -> TRUE
    [] o.name = "reflash"                -> {0, 1, 2, 3} \subseteq Dies
    [] o.name \in {"program", "verify"}  -> o.region \in DOMAIN Regions
    [] o.name = "eraseDie"               -> o.die \in Dies
    [] o.name \in {"blankCheck", "read"} ->
         o.page \in Nat /\ o.pages \in Nat /\ o.page + o.pages <= Capacity
    [] o.name = "programDie"             ->
         /\ FirstOf(o.die) \in Sectors
         /\ \A d \in Disks : FixedFile \in DOMAIN d =>
              FirstOf(o.die) * Cardinality(Slots) + Len(d[FixedFile]) <= Capacity
    [] o.name = "eraseSector"            -> o.sector \in Sectors
    [] o.name = "writeEight"             -> o.page \in Page
    [] OTHER                             -> FALSE

ASSUME CmdAssumption ==
  /\ Cardinality(Sectors) \in Nat /\ Sectors = 0..(Cardinality(Sectors) - 1)
  /\ Cardinality(Slots) \in Nat \ {0} /\ Slots = 0..(Cardinality(Slots) - 1)
  /\ DOMAIN Regions = {"golden", "timer1", "user", "timer2"}
  /\ EightBytes \in Data
  /\ \A d \in Disks : \A n \in DOMAIN d : d[n] \in Seq((SUBSET Data) \ {{}})
  /\ \A r \in DOMAIN Regions :
       /\ DOMAIN Regions[r] = {"file", "base", "first", "last"}
       /\ Regions[r].base \in Nat /\ Regions[r].first \in Nat
       /\ Regions[r].last \in 0..Cardinality(Sectors)
  /\ \A d \in Disks, r \in DOMAIN Regions :  (* no image reaches past the flash *)
       Regions[r].file \in DOMAIN d =>
         Regions[r].base + Len(d[Regions[r].file]) <= Capacity
  /\ \A o \in Options : InDevice(o)

VARIABLES
  phase,    (* "off", "startup" or "menu"                                  *)
  flash,    (* FlashData: file, base, first, last                          *)
  disk,     (* the files of the current directory                          *)
  Status,   (* main's Status                                               *)
  option,   (* the option in progress, or the last one                     *)
  todo,     (* its remaining tasks                                         *)
  k,        (* the loop counter of the task in progress                    *)
  file,     (* the file it has open                                        *)
  buffer,   (* the page read from it                                       *)
  inCall    (* the program is inside a call of the flash layer             *)

taskVars == <<k, file, buffer>>
vars == <<storeVars, phase, flash, disk, Status, option, todo, taskVars, inCall>>

NoOption == [name |-> "none"]
NoFlash  == [file |-> "", base |-> 0, first |-> 0, last |-> 0]
AnyData  == CHOOSE d \in Data : TRUE

SectorPages == Cardinality(Slots)
PageAt(a)   == <<a \div SectorPages, a % SectorPages>>

-----------------------------------------------------------------------------
(* The options.                                                            *)

(* Fault for the mutation runs: golden's first erase address stays.        *)
SetStaleFirst(r) ==
  [do |-> "set", to |-> [Regions[r] EXCEPT !.first = IF r = "timer1" THEN Regions["golden"].first ELSE @]]

(* Tasks: set FlashData; call the flash layer; and the loops of            *)
(* qspi_erase_sector_flash, qspi_program_bin and qspi_program_flash,       *)
(* qspi_verify_bin, Spi_Blank_Check and qspi_read_flash.                   *)
Set(r)     == [do |-> "set", to |-> Regions[r]]
Call(j)    == [do |-> "call", job |-> j, dropped |-> FALSE]
Drop(j)    == [do |-> "call", job |-> j, dropped |-> TRUE]
EraseAll   == [do |-> "erase"]
ProgramBin == [do |-> "program", fixed |-> FALSE]
ProgramDie(d) == [do |-> "program", fixed |-> TRUE, die |-> d]
VerifyBin  == [do |-> "verify", fixed |-> FALSE]
Scan(o)    == [do |-> "scan", page |-> o.page, pages |-> o.pages,
               blank |-> o.name = "blankCheck"]

ProgramAndVerify(r) == <<Set(r), ProgramBin, VerifyBin>>

(* program_golden, program_user and program_timer, with erase              *)
EraseAndProgram(r) == <<Set(r), EraseAll, ProgramBin, VerifyBin>>

(* case 0 of the menu, but for the reboot at its end                       *)
Reflash ==
  <<Call(DieErase(0)), Call(DieErase(1)), Call(DieErase(2)), Call(DieErase(3))>>
  \o EraseAndProgram("timer1") \o EraseAndProgram("timer2")
  \o ProgramAndVerify("golden") \o ProgramAndVerify("user")

(* SpiFlashReadflagstatus and SpiFlashClrflagstatus, as everyone uses them *)
FlagStatus == <<Drop(Plain("SpiFlashReadflagstatus")), Drop(Plain("SpiFlashClrflagstatus"))>>

Tasks(o) ==
  CASE o.name = "reflash"     -> Reflash
    [] o.name = "flashGeo"    -> <<Call(Plain("SpiFlashReadID"))>> \o FlagStatus
                                 \o <<Call(Plain("SpiFlashQuadEnable"))>>
    [] o.name = "program"     -> EraseAndProgram(o.region)
    [] o.name = "eraseDie"    -> <<Call(DieErase(o.die)), Call(Plain("SpiFlashQuadEnable"))>>
    [] o.name = "blankCheck"  -> <<Scan(o)>>
    [] o.name = "programDie"  -> <<ProgramDie(o.die)>>
    [] o.name = "read"        -> <<Scan(o)>>
    [] o.name = "flagStatus"  -> <<Drop(Plain("SpiFlashGetStatusPrint"))>> \o FlagStatus
    [] o.name = "quadEnable"  -> <<Call(Plain("SpiFlashQuadEnable"))>>
    [] o.name = "verify"      -> <<Set(o.region)>> \o
                                 (IF o.region = "timer2" THEN <<>> ELSE <<VerifyBin>>)
    [] o.name = "eraseSector" -> <<Call(SectorErase(o.sector))>>
    [] o.name = "writeEight"  -> <<Call(WriteFile(o.page, EightBytes))>>

(* Fault for the mutation runs: a verification that passes sets no status. *)
StatusUnset(o, r) == IF o.name = "verify" /\ r = "XST_SUCCESS" THEN "none" ELSE r

(* What the end of option o leaves in Status: what its tasks came to, what *)
(* DownloadSerialDataToQSPIFlash always returns, or nothing new.           *)
StatusAfter(o, r) ==
  CASE o.name \in {"reflash", "program", "blankCheck", "quadEnable", "eraseSector",
                   "writeEight"}                  -> r
    [] o.name = "verify" /\ o.region # "timer2"   -> r
    [] o.name = "programDie"                      -> "XST_SUCCESS"
    [] OTHER                                      -> Status

-----------------------------------------------------------------------------
Task     == Head(todo)
Doing(d) == todo # <<>> /\ Task.do = d

(* The tasks todo remain; with none, the option ends.                      *)
Finish(r) ==
  /\ todo' = <<>> /\ Status' = StatusAfter(option, r)
  /\ phase' = IF option.name = "quadEnable" /\ r = "XST_FAILURE" THEN "off" ELSE "menu"

Reset == k' = 0 /\ file' = <<>> /\ buffer' = AnyData

(* Fault for the mutation runs: a failed task does not break the option.   *)
TaskEndsOn(ok) ==
  /\ Reset
  /\ IF Tail(todo) # <<>> THEN todo' = Tail(todo) /\ UNCHANGED <<Status, phase>>
     ELSE Finish(IF ok THEN "XST_SUCCESS" ELSE "XST_FAILURE")

(* The task in progress ends.                                              *)
TaskEnds(ok) ==
  /\ Reset
  /\ IF ok /\ Tail(todo) # <<>> THEN todo' = Tail(todo) /\ UNCHANGED <<Status, phase>>
     ELSE Finish(IF ok THEN "XST_SUCCESS" ELSE "XST_FAILURE")

(* A turn of its loop ends.                                                *)
TurnEnds(ok) ==
  IF ok THEN k' = k + 1 /\ UNCHANGED <<file, buffer, todo, Status, phase>>
  ELSE TaskEnds(FALSE)

Enter(j) ==
  /\ ~inCall /\ Begin(j) /\ inCall' = TRUE
  /\ UNCHANGED <<phase, flash, disk, Status, option, todo>>

Back ==
  /\ inCall /\ job = NoJob /\ inCall' = FALSE
  /\ UNCHANGED <<storeVars, flash, disk, option>>

Done == result = "XST_SUCCESS"

-----------------------------------------------------------------------------
(* main, before the menu: kiflash_init, System_init_startup.               *)
Start ==
  /\ phase = "off" /\ ~inCall
  /\ Begin(Plain("System_init_startup")) /\ inCall' = TRUE
  /\ phase' = "startup" /\ flash' = NoFlash /\ disk' \in Disks
  /\ option' = NoOption /\ Status' = "XST_SUCCESS"
  /\ UNCHANGED <<todo, taskVars>>

StartBack ==
  /\ phase = "startup" /\ Back
  /\ phase' = IF Done THEN "menu" ELSE "off"
  /\ Status' = result
  /\ UNCHANGED <<todo, taskVars>>

Choose(o) ==
  /\ phase = "menu" /\ todo = <<>>
  /\ option' = o /\ todo' = Tasks(o)
  /\ UNCHANGED <<storeVars, phase, flash, disk, Status, taskVars, inCall>>

(* case 2: another directory.  case 3: a name that no other option keeps.  *)
SetPath ==
  /\ phase = "menu" /\ todo = <<>>
  /\ option' = NoOption /\ disk' \in Disks
  /\ UNCHANGED <<storeVars, phase, flash, Status, todo, taskVars, inCall>>

SetFilename(n) ==
  /\ phase = "menu" /\ todo = <<>>
  /\ option' = [name |-> "setFilename", file |-> n]
  /\ flash' = [flash EXCEPT !.file = n]
  /\ UNCHANGED <<storeVars, phase, disk, Status, todo, taskVars, inCall>>

SetRegion ==
  /\ Doing("set")
  /\ flash' = Task.to
  /\ TaskEnds(TRUE)
  /\ UNCHANGED <<storeVars, disk, option, inCall>>

CallFlash == Doing("call") /\ Enter(Task.job) /\ UNCHANGED taskVars

CallBack == Doing("call") /\ Back /\ TaskEnds(Done \/ Task.dropped)

(* qspi_erase_sector_flash                                                 *)
EraseNext ==
  /\ Doing("erase") /\ flash.first + k < flash.last
  /\ Enter(SectorErase(flash.first + k)) /\ UNCHANGED taskVars

EraseBack == Doing("erase") /\ Back /\ TurnEnds(Done)

EraseEnd ==
  /\ Doing("erase") /\ ~inCall /\ flash.first + k >= flash.last
  /\ TaskEnds(TRUE)
  /\ UNCHANGED <<storeVars, flash, disk, option, inCall>>

(* The file of a task, and where its image goes.                           *)
FileName == IF Task.fixed THEN FixedFile ELSE flash.file
Base     == IF Task.fixed THEN FirstOf(Task.die) * SectorPages ELSE flash.base

Looping == Doing("program") \/ Doing("verify")

(* qspi_program_bin, qspi_program_flash, qspi_verify_bin, before the loop: *)
(* the file is opened, the slave selected and the flash write enabled.     *)
FileMissing ==
  /\ Looping /\ ~inCall /\ k = 0 /\ FileName \notin DOMAIN disk
  /\ TaskEnds(FALSE)
  /\ UNCHANGED <<storeVars, flash, disk, option, inCall>>

Open ==
  /\ Looping /\ k = 0 /\ FileName \in DOMAIN disk
  /\ Enter(Plain("SpiFlashWriteEnable"))
  /\ file' = disk[FileName] /\ UNCHANGED <<k, buffer>>

(* The loop over the pages, the opening being its turn 0.  The write       *)
(* enable sent before each page is a part of the call for that page, whose *)
(* first transfer is another one.                                          *)
More == k \in 1..Len(file)

ProgramPage ==
  /\ Doing("program") /\ More
  /\ \E d \in file[k] : Enter(WriteFile(PageAt(Base + k - 1), d))
  /\ UNCHANGED taskVars

VerifyPage ==
  /\ Doing("verify") /\ More
  /\ Enter(Read(PageAt(Base + k - 1)))
  /\ buffer' \in file[k] /\ UNCHANGED <<k, file>>

(* Fault for the mutation runs: the page read is not compared.             *)
PageBackUncompared == Looping /\ Back /\ TurnEnds(Done)

PageBack ==
  /\ Looping /\ Back
  /\ TurnEnds(Done /\ (Doing("verify") /\ k > 0 => answer = buffer))

PagesEnd ==
  /\ Looping /\ ~inCall /\ k = Len(file) + 1
  /\ TaskEnds(TRUE)
  /\ UNCHANGED <<storeVars, flash, disk, option, inCall>>

(* Spi_Blank_Check, qspi_read_flash, page by page                          *)
ScanPage ==
  /\ Doing("scan") /\ k < Task.pages
  /\ Enter(Read(PageAt(Task.page + k))) /\ UNCHANGED taskVars

(* The blank check leaves out some bytes of the page (FlashWindows): a     *)
(* page that is not blank may pass.                                        *)
ScanBack ==
  /\ Doing("scan") /\ Back
  /\ \E seen \in BOOLEAN : TurnEnds(Done /\ ~(Task.blank /\ answer # Blank /\ seen))

ScanEnd ==
  /\ Doing("scan") /\ ~inCall /\ k = Task.pages
  /\ TaskEnds(TRUE)
  /\ UNCHANGED <<storeVars, flash, disk, option, inCall>>

-----------------------------------------------------------------------------
Init ==
  /\ StoreInit
  /\ phase = "off" /\ flash = NoFlash /\ disk \in Disks /\ Status = "XST_SUCCESS"
  /\ option = NoOption /\ todo = <<>> /\ inCall = FALSE
  /\ k = 0 /\ file = <<>> /\ buffer = AnyData

(* The process is killed.                                                  *)
ProcessEnd ==
  /\ Fail("none") \/ Rest
  /\ phase' = "off" /\ option' = NoOption /\ todo' = <<>> /\ inCall' = FALSE /\ Reset
  /\ flash' = NoFlash /\ Status' = "XST_SUCCESS"
  /\ UNCHANGED disk

FlashStep ==
  /\ Apply \/ Succeed \/ Fail("XST_FAILURE") \/ OrphanEnds
  /\ UNCHANGED <<phase, flash, disk, Status, option, todo, taskVars, inCall>>

TaskStep ==
  \/ SetRegion \/ CallFlash \/ CallBack
  \/ EraseNext \/ EraseBack \/ EraseEnd
  \/ FileMissing \/ Open \/ ProgramPage \/ VerifyPage \/ PageBack \/ PagesEnd
  \/ ScanPage \/ ScanBack \/ ScanEnd

FileNames == {Regions[r].file : r \in DOMAIN Regions} \cup {FixedFile}

Next ==
  \/ Start \/ StartBack
  \/ (\E o \in Options : Choose(o))
  \/ SetPath
  \/ SetFilename(FixedFile)
  \/ TaskStep \/ FlashStep \/ ProcessEnd

Spec == Init /\ [][Next]_vars

-----------------------------------------------------------------------------
(* The type of every variable.                                             *)
TypeOK ==
  /\ store \in [Page -> Contents] /\ job \in Job \cup {NoJob} /\ orphan \in Job \cup {NoJob}
  /\ applied \in BOOLEAN /\ answer \in Contents
  /\ result \in {"none", "XST_SUCCESS", "XST_FAILURE"}
  /\ phase \in {"off", "startup", "menu"} /\ inCall \in BOOLEAN
  /\ flash.file \in FileNames \cup {""} /\ flash.base \in Nat
  /\ disk \in Disks /\ Status \in {"XST_SUCCESS", "XST_FAILURE"}
  /\ option.name = "setFilename" \/ option \in Options \cup {NoOption}
  /\ todo # <<>> => phase = "menu" /\ option \in Options
  /\ k \in 0..(Capacity + 1)
  /\ buffer \in Data

(* The image of region r is in the flash, up to the bytes after its end.   *)
Present(r) ==
  /\ Regions[r].file \in DOMAIN disk
  /\ LET image == disk[Regions[r].file]
     IN \A n \in 1..Len(image) : store[PageAt(Regions[r].base + n - 1)] \in image[n]

Ended(name) == todo = <<>> /\ option.name = name /\ Status = "XST_SUCCESS"

(* When the menu has programmed a region, or verified it (which it does    *)
(* not do for timer2), without an error, the image is in the flash, and no *)
(* earlier call, of this process or of one that was killed, is about to    *)
(* change it.                                                              *)
PassedMeansPresent ==
  (Ended("program") \/ (Ended("verify") /\ option.region # "timer2"))
    => Present(option.region) /\ orphan = NoJob

(* The pages an image goes to.                                             *)
ImagePages(name, base) ==
  IF name \in DOMAIN disk THEN {PageAt(base + n - 1) : n \in DOMAIN disk[name]} ELSE {}

(* No image reaches into another one.                                      *)
ImagesApart ==
  \A r, q \in DOMAIN Regions : r # q =>
    ImagePages(Regions[r].file, Regions[r].base) \cap ImagePages(Regions[q].file, Regions[q].base) = {}

(* Erasing timer2's sectors reaches no page of timer1's image, which is in *)
(* place by then.  In the code nearly 128 MB lie between them.             *)
ErasedApart ==
  \A d \in Disks : Regions["timer1"].file \in DOMAIN d =>
    \A n \in 1..Len(d[Regions["timer1"].file]) :
      PageAt(Regions["timer1"].base + n - 1)[1]
        \notin Regions["timer2"].first..(Regions["timer2"].last - 1)

(* "Reflash whole device" programs and verifies four images one after the  *)
(* other, two of them without an erase of their own and two with one that  *)
(* reaches past their images: still, when it ends without an error, all    *)
(* four are there, the first as well as the last.                          *)
ReflashMeansAll == Ended("reflash") /\ ImagesApart => \A r \in DOMAIN Regions : Present(r)

(* The pages an option is there to change.                                 *)
MayChange(o) ==
  CASE o.name = "program"     ->
         {p \in Page : p[1] \in Regions[o.region].first..(Regions[o.region].last - 1)}
         \cup ImagePages(Regions[o.region].file, Regions[o.region].base)
    [] o.name = "programDie"  -> ImagePages(FixedFile, FirstOf(o.die) * SectorPages)
    [] o.name = "eraseDie"    -> {p \in Page : Die[p[1]] = o.die}
    [] o.name = "eraseSector" -> {p \in Page : p[1] = o.sector}
    [] o.name = "writeEight"  -> {o.page}
    [] o.name = "reflash"     -> Page
    [] OTHER                  -> {}

(* An option changes no page but those it is there to change; what a call  *)
(* that failed, or a killed process, has left running changes only the     *)
(* pages of that call.                                                     *)
OthersKept ==
  [][\A p \in Page : store'[p] # store[p] =>
       p \in MayChange(option) \/ (orphan # NoJob /\ p \in Target(orphan))]_vars

=============================================================================
