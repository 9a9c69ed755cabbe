---------------------------- MODULE KiflashProofs ----------------------------
(***************************************************************************)
(* Proofs about Kiflash.tla: what a run that reports success has done, and *)
(* what the client is told, for every flash, image file and number of      *)
(* workers.  Assumed throughout: icap is called only between two runs      *)
(* (OneThreadOnBus shows what happens otherwise).                          *)
(*                                                                         *)
(* The invariant comes in layers, each proved with the help of those above *)
(* it: control flow, whose turn it is, the fields of the run, its calls of *)
(* the flash layer, what has been verified, the percentage, the messages.  *)
(***************************************************************************)
EXTENDS Kiflash, DivisionFacts, FiniteSetTheorems, TLAPS

-----------------------------------------------------------------------------
(* The types of the control variables.                                     *)
Control ==
  /\ flag \in BOOLEAN /\ fileSet \in BOOLEAN /\ exists \in BOOLEAN /\ verified \in BOOLEAN
  /\ pc \in {"none", "init", "startup", "fields", "programUser", "erase", "openProgram",
             "program", "openVerify", "verify", "icap"}
  /\ caller \in {"none", "run", "js"} /\ js \in {"idle", "init", "startup"}
  /\ i \in Nat
  /\ returned \in [Workers -> {"no", "XST_SUCCESS", "XST_FAILURE"}]
  /\ exec \in [Workers -> {"none", "queued", "poll", "final", "join", "complete", "closed"}]

(* One run at a time: only the newest worker's run may be going on, and    *)
(* the main thread is in icap only while none is.                          *)
Turns ==
  /\ Newest \in Nat /\ Created = 1..Newest
  /\ \A w \in Workers : exec[w] = "none" => returned[w] = "no"
  /\ \A w \in Created : w # Newest => returned[w] # "no"
  /\ \A w \in Workers : exec[w] = "queued" => pc = "none" /\ returned[w] = "no"
  /\ pc # "none" => Newest \in Created /\ returned[Newest] = "no"
  /\ js # "idle" => AtRest

(* FlashData and the locals of the run, and who is inside a call.          *)
Fields ==
  /\ image \in Images \cup {<<>>} /\ file \in Images \cup {<<>>}
  /\ baseAddr \in Nat /\ eraseEnd \in Nat /\ base \in Nat
  /\ pc \in {"programUser", "erase", "openProgram", "program", "openVerify", "verify"}
       => fileSet /\ baseAddr = Address(UserSector) /\ eraseEnd = TimerSector
  /\ pc \in {"openProgram", "program", "openVerify", "verify"} => base = Address(UserSector)
  /\ pc \in {"program", "verify", "icap"} => file = image
  /\ pc \notin {"erase", "program", "verify", "icap"} => i = 0
  /\ pc \in {"program", "verify"} => i <= Len(file)
  /\ pc = "icap" => i = Len(file)
  /\ caller = "js" => js = "startup"
  /\ caller = "run" =>
       /\ pc \in {"startup", "erase", "openProgram", "program", "openVerify", "verify"}
       /\ pc = "erase" => i < SectorsToErase
       /\ pc \in {"openProgram", "openVerify"} /\ flag => file = image
       /\ pc \in {"program", "verify"} => i < Len(file)

(* The calls that change the flash: those of a run that erases the user    *)
(* sectors and programs an image.                                          *)
ImagePages == {PageAt(Address(UserSector) + k - 1) : k \in UNION {DOMAIN im : im \in Images}}
RunJobs ==
  {SectorErase(s) : s \in UserSector..(TimerSector - 1)}
  \cup {WriteFile(p, d) : p \in ImagePages, d \in Data}

Calls ==
  /\ store \in [Page -> Contents] /\ answer \in Contents /\ buffer \in Data
  /\ applied \in BOOLEAN /\ result \in {"none", "XST_SUCCESS", "XST_FAILURE"}
  /\ orphan \in RunJobs \cup {NoJob}
  /\ caller = "none" => job = NoJob
  /\ caller = "js" => job \in {StartupJob, NoJob}
  /\ caller = "run" =>
       /\ pc = "startup" => job \in {StartupJob, NoJob}
       /\ pc \in {"openProgram", "openVerify"}
            => job \in {NoJob, IF flag THEN Plain("SpiFlashWriteEnable") ELSE StartupJob}
       /\ pc \in {"erase", "program"} => job \in RunJobs \cup {NoJob}
       /\ pc = "verify" => job \in {Read(PageAt(base + i)), NoJob}

(* How far the verification has come, and what it has seen.                *)
Seen ==
  /\ (caller = "run" /\ pc = "openVerify" /\ flag /\ job = NoJob /\ Done) => orphan = NoJob
  /\ pc \in {"verify", "icap"} =>
       /\ orphan = NoJob
       /\ \A k \in 1..i : store[PageAt(Address(UserSector) + k - 1)] \in image[k]
  /\ (caller = "run" /\ pc = "verify") =>
       /\ buffer \in file[i + 1]
       /\ job = NoJob /\ Done => answer = store[PageAt(base + i)]
  /\ SuccessMeansProgrammed

(* What the percentage can be at each place of the run.                    *)
Part(k)     == (40 * k) \div Len(file)
Upto(first) == IF i = 0 THEN percentage = first
               ELSE percentage \in first..(first + Part(i))
Progress ==
  /\ percentage \in Percentages
  /\ pc \in {"startup", "fields", "programUser"} => percentage = 0
  /\ pc = "erase"       => percentage = 1
  /\ pc = "openProgram" => percentage = 20
  /\ pc = "program"     => Upto(20)
  /\ pc = "openVerify"  => percentage = 60
  /\ pc = "verify"      => Upto(60)
  /\ pc = "icap"        => percentage = 100
  /\ percentage = 100   => verified

(* What is in a worker's queue, and how its messages end.                  *)
Told(w) ==
  /\ 100 \in ToSet(toNode[w]) \/ last[w] = 100 \/ exec[w] = "final" => verified
  /\ exec[w] \in {"join", "complete"} =>
       IF toNode[w] = <<>> THEN last[w] = 100 ELSE toNode[w][Len(toNode[w])] = 100
  /\ exec[w] \in {"complete", "closed"} => returned[w] # "no"
  /\ exec[w] = "closed" => toNode[w] = <<>> /\ last[w] = 100

Messages ==
  /\ N \in [Workers -> Percentages \cup {-1}] /\ last \in [Workers -> Percentages \cup {-1}]
  /\ toNode \in [Workers -> Seq(Percentages)] /\ signalled \in [Workers -> BOOLEAN]
  /\ \A w \in Workers : Told(w)

Inv == Control /\ Turns /\ Fields /\ Calls /\ Seen /\ Progress /\ Messages

(* A step that neither creates a worker nor ends the process.              *)
Ordinary ==
  \/ FlashStep \/ RunStep \/ (\E w \in Workers : ExecuteStep(w)) \/ MainStep
  \/ IcapCalled

-----------------------------------------------------------------------------
(* Control flow, and whose turn it is.                                     *)

(* Control flow keeps its types.                                           *)
LEMMA ControlStep ==
  ASSUME Control, [Next]_vars
  PROVE  Control'
<1>1. CASE FlashStep \/ IcapCalled \/ UNCHANGED vars
  BY <1>1 DEF FlashStep, IcapCalled, vars, Control, fieldVars, fileVars, locals,
     nodeVars
<1>2. CASE RunStep
  <2>1. CASE Startup \/ EraseSector \/ Open \/ ProgramPage \/ VerifyPage
    BY <2>1 DEF Startup, EraseSector, Open, ProgramPage, VerifyPage, Enter,
       Control, fieldVars, fileVars, locals, nodeVars
  <2>2. CASE StartupBack
    BY <2>2 DEF StartupBack, Back, Goto, Return, Control, fieldVars, fileVars,
       locals, nodeVars
  <2>3. CASE OpenBack
    BY <2>3 DEF OpenBack, Back, Goto, Return, Control, fieldVars, fileVars,
       locals, nodeVars
  <2>4. CASE EraseSectorBack \/ ProgramPageBack \/ VerifyPageBack
    BY <2>4 DEF EraseSectorBack, ProgramPageBack, VerifyPageBack, Back, Again,
       Return, Control, fieldVars, fileVars, locals, nodeVars
  <2>5. CASE KiflashInit
    BY <2>5 DEF KiflashInit, ResetFlashData, Goto, Control, fieldVars, fileVars,
       locals, nodeVars
  <2>6. CASE SetFields \/ ProgramUser \/ VerifyEnd
    BY <2>6 DEF SetFields, ProgramUser, VerifyEnd, Goto, Control, fieldVars,
       fileVars, locals, nodeVars
  <2>7. CASE Icap
    BY <2>7 DEF Icap, Return, Control, fieldVars, fileVars, locals, nodeVars
  <2>8. CASE EraseEnd \/ FileMissing \/ ProgramEnd
    BY <2>8 DEF EraseEnd, FileMissing, ProgramEnd, Return, Control, fieldVars,
       fileVars, locals, nodeVars
  <2>9. QED
    BY <1>2, <2>1, <2>2, <2>3, <2>4, <2>5, <2>6, <2>7, <2>8 DEF RunStep
<1>3. ASSUME NEW w \in Workers, ExecuteStep(w) \/ New(w) PROVE Control'
  BY <1>3 DEF ExecuteStep, Execute, Poll, SendFinal, Join, New, At, Move,
     Control, fieldVars, fileVars, locals, nodeVars
<1>4. CASE MainStep
  <2>1. ASSUME NEW w \in Workers, HandleProgressCallback(w) \/ HandleOKCallback(w)
        PROVE  Control'
    BY <2>1 DEF HandleProgressCallback, HandleOKCallback, At, Move, Control,
       fieldVars, fileVars, locals, nodeVars
  <2>2. CASE IcapInit \/ IcapStartup \/ IcapStartupBack
    BY <2>2 DEF IcapInit, IcapStartup, IcapStartupBack, ResetFlashData, Enter,
       Back, Control, fieldVars, fileVars, locals, nodeVars
  <2>3. QED
    BY <1>4, <2>1, <2>2 DEF MainStep
<1>5. CASE ProcessEnd
  BY <1>5 DEF ProcessEnd, Control
<1>6. QED
  BY <1>1, <1>2, <1>3, <1>4, <1>5 DEF Next

(* No worker but those of New comes into being.                            *)
LEMMA CreatedStays ==
  ASSUME Control, [Ordinary]_vars
  PROVE  Created' = Created /\ Newest' = Newest
<1>1. ASSUME NEW w \in Workers, ExecuteStep(w) PROVE Created' = Created
  BY <1>1 DEF ExecuteStep, Execute, Poll, SendFinal, Join, At, Move, Control,
     Created
<1>2. ASSUME NEW w \in Workers, HandleProgressCallback(w) \/ HandleOKCallback(w)
      PROVE  Created' = Created
  BY <1>2 DEF HandleProgressCallback, HandleOKCallback, At, Move, Control,
     Created
<1>3. CASE FlashStep \/ RunStep \/ IcapInit \/ IcapStartup \/ IcapStartupBack \/ IcapCalled
  <2>1. exec' = exec
    BY <1>3 DEF FlashStep, RunStep, KiflashInit, Startup, StartupBack,
       SetFields, ProgramUser, EraseSector, EraseSectorBack, EraseEnd,
       FileMissing, Open, OpenBack, ProgramPage, ProgramPageBack, ProgramEnd,
       VerifyPage, VerifyPageBack, VerifyEnd, Icap, IcapInit, IcapStartup,
       IcapStartupBack, IcapCalled, nodeVars
  <2>2. QED
    BY <2>1 DEF Created, Newest
<1>4. CASE UNCHANGED vars
  BY <1>4 DEF vars, nodeVars, Created, Newest
<1>5. QED
  BY <1>1, <1>2, <1>3, <1>4 DEF Ordinary, MainStep, Newest

(* The size of an interval from 1.                                         *)
LEMMA CountTo ==
  ASSUME NEW n \in Nat
  PROVE  Cardinality(1..n) = n
  BY FS_Interval

(* A run that goes on, or returns, leaves the turns right.                 *)
LEMMA RunTurns ==
  ASSUME Control, Turns, pc # "none", Created \subseteq Workers,
         Created' = Created, Newest' = Newest, exec' = exec, js' = js,
         \/ pc' # "none" /\ returned' = returned
         \/ \E r \in {"XST_SUCCESS", "XST_FAILURE"} :
              pc' = "none" /\ returned' = [returned EXCEPT ![Newest] = r]
  PROVE  Turns'
<1>1. Newest \in Created /\ Newest \in Workers /\ returned[Newest] = "no" /\ js = "idle"
  BY DEF Turns, AtRest
<1>2. CASE pc' # "none" /\ returned' = returned
  BY <1>1, <1>2 DEF Turns, Control
<1>3. ASSUME NEW r \in {"XST_SUCCESS", "XST_FAILURE"}, pc' = "none",
             returned' = [returned EXCEPT ![Newest] = r]
      PROVE  Turns'
  <2>1. \A w \in Workers : returned'[w] = IF w = Newest THEN r ELSE returned[w]
    BY <1>1, <1>3 DEF Control
  <2>2. exec[Newest] # "none" /\ exec[Newest] # "queued"
    BY <1>1 DEF Created, Turns
  <2>3. Newest' \in Nat /\ Created' = 1..Newest'
    BY DEF Turns
  <2>4. \A w \in Workers : exec'[w] = "none" => returned'[w] = "no"
    BY <2>1, <2>2 DEF Turns
  <2>5. \A w \in Created' : w # Newest' => returned'[w] # "no"
    BY <2>1 DEF Turns
  <2>6. \A w \in Workers : exec'[w] = "queued" => pc' = "none" /\ returned'[w] = "no"
    BY <2>1, <2>2, <1>3 DEF Turns
  <2>7. QED
    BY <1>1, <1>3, <2>3, <2>4, <2>5, <2>6 DEF Turns
<1>4. QED
  BY <1>2, <1>3

(* A new worker is the next one, and no run is going on.                   *)
LEMMA NewWorker ==
  ASSUME Control, Turns, NEW w \in Workers, New(w)
  PROVE  /\ Created' = 1..Newest' /\ Newest' = Newest + 1 /\ w = Newest + 1
         /\ w \notin Created /\ returned[w] = "no" /\ pc = "none" /\ Newest \in Nat
<1>1. Created' = Created \cup {w} /\ Newest \in Nat /\ w = Newest + 1
  BY DEF New, Move, Created, Control, Turns
<1>2. Created' = 1..(Newest + 1)
  BY <1>1 DEF Turns
<1>3. Newest' = Newest + 1
  <2>1. Newest' = Cardinality(Created')
    BY DEF Newest
  <2>2. QED
    BY <1>1, <1>2, <2>1, CountTo
<1>4. pc = "none"
  BY DEF New, AtRest, Turns
<1>5. w \notin Created /\ returned[w] = "no"
  BY <1>1 DEF Turns, Created
<1>6. QED
  BY <1>1, <1>2, <1>3, <1>4, <1>5

(* One run at a time stays so.                                             *)
LEMMA TurnsStep ==
  ASSUME ~IcapAnyTime, Control, Control', Turns, [Next]_vars
  PROVE  Turns'
<1>1. CASE [Ordinary]_vars
  <2>1. Created' = Created /\ Newest' = Newest /\ Created \subseteq Workers
    BY <1>1, CreatedStays DEF Created
  <2>2. CASE FlashStep \/ IcapInit \/ IcapStartup \/ IcapStartupBack \/ UNCHANGED vars
    BY <2>1, <2>2 DEF FlashStep, IcapInit, IcapStartup, IcapStartupBack, vars,
       nodeVars, Turns, AtRest
  <2>3. CASE IcapCalled
    BY <2>1, <2>3 DEF IcapCalled, nodeVars, Turns, AtRest
  <2>4. CASE RunStep
    <3>1. pc # "none" /\ exec' = exec /\ js' = js
      BY <2>4 DEF RunStep, KiflashInit, Startup, StartupBack, SetFields,
         ProgramUser, EraseSector, EraseSectorBack, EraseEnd, FileMissing, Open,
         OpenBack, ProgramPage, ProgramPageBack, ProgramEnd, VerifyPage,
         VerifyPageBack, VerifyEnd, Icap, nodeVars
    <3>2. \/ pc' # "none" /\ returned' = returned
          \/ \E r \in {"XST_SUCCESS", "XST_FAILURE"} :
               pc' = "none" /\ returned' = [returned EXCEPT ![Newest] = r]
      BY <2>4 DEF RunStep, KiflashInit, Startup, StartupBack, SetFields,
         ProgramUser, EraseSector, EraseSectorBack, EraseEnd, FileMissing, Open,
         OpenBack, ProgramPage, ProgramPageBack, ProgramEnd, VerifyPage,
         VerifyPageBack, VerifyEnd, Icap, Goto, Again, Return
    <3>3. QED
      BY <2>1, <3>1, <3>2, RunTurns
  <2>5. ASSUME NEW w \in Workers, Execute(w) PROVE Turns'
    BY <2>1, <2>5 DEF Execute, At, Move, Control, Turns, AtRest, Created
  <2>6. ASSUME NEW w \in Workers,
               Poll(w) \/ SendFinal(w) \/ Join(w) \/ HandleProgressCallback(w)
                 \/ HandleOKCallback(w)
        PROVE  Turns'
    BY <2>1, <2>6 DEF Poll, SendFinal, Join, HandleProgressCallback,
       HandleOKCallback, At, Move, Control, Turns, AtRest
  <2>7. QED
    BY <1>1, <2>2, <2>3, <2>4, <2>5, <2>6 DEF Ordinary, ExecuteStep, MainStep
<1>2. ASSUME NEW w \in Workers, New(w) PROVE Turns'
  <2>1. Created' = 1..Newest' /\ Newest' = Newest + 1 /\ w = Newest + 1
        /\ w \notin Created /\ returned[w] = "no" /\ pc = "none" /\ Newest \in Nat
    BY <1>2, NewWorker
  <2>2. exec' = [exec EXCEPT ![w] = "queued"] /\ returned' = returned /\ pc' = pc
        /\ js' = js /\ AtRest /\ js = "idle"
    BY <1>2 DEF New, Move
  <2>3. QED
    BY <1>2, <2>1, <2>2 DEF Control, Turns, AtRest
<1>3. CASE ProcessEnd
  <2>1. Created' = {} /\ Newest' = 0
    BY <1>3, FS_EmptySet DEF ProcessEnd, Created, Newest
  <2>2. QED
    BY <1>3, <2>1 DEF ProcessEnd, Turns, AtRest
<1>4. QED
  BY <1>1, <1>2, <1>3 DEF Next, Ordinary

-----------------------------------------------------------------------------
(* The fields of the run.                                                  *)

(* Not a run and icap at once.                                             *)
LEMMA OneSide ==
  ASSUME Turns
  PROVE  (pc = "none" \/ js = "idle") /\ (AtRest => pc = "none")
  BY DEF Turns, AtRest

(* Where the user image begins is an address.                              *)
LEMMA UserAddress ==
  Address(UserSector) \in Nat /\ TimerSector \in Nat
  BY KiflashAssumption DEF Address, SectorPages

(* The fields and locals stay those of the run.                            *)
LEMMA FieldsStep ==
  ASSUME Control, Control', Turns, Fields, [Next]_vars
  PROVE  Fields'
<1>1. CASE [Ordinary]_vars
  <2>1. Created' = Created /\ Newest' = Newest /\ Created \subseteq Workers
    BY <1>1, CreatedStays DEF Created
  <2>2. CASE FlashStep
    BY <2>2, <2>1, OneSide, KiflashAssumption DEF FlashStep, Control, Fields,
       SectorsToErase, File, Missing, TooMany, storeVars, fieldVars, fileVars,
       locals, nodeVars
  <2>3. CASE KiflashInit
    BY <2>3, <2>1, OneSide, KiflashAssumption DEF KiflashInit, ResetFlashData,
       Goto, Control, Fields, SectorsToErase, File, Missing, TooMany, storeVars,
       fieldVars, fileVars, locals, nodeVars
  <2>4. CASE Startup
    BY <2>4, <2>1, OneSide, KiflashAssumption DEF Startup, Enter, Control,
       Fields, SectorsToErase, File, Missing, TooMany, storeVars, fieldVars,
       fileVars, locals, nodeVars
  <2>5. CASE StartupBack
    BY <2>5, <2>1, OneSide, KiflashAssumption DEF StartupBack, Back, Goto,
       Return, Control, Fields, SectorsToErase, File, Missing, TooMany,
       storeVars, fieldVars, fileVars, locals, nodeVars
  <2>6. CASE SetFields
    BY <2>6, <2>1, OneSide, KiflashAssumption, UserAddress DEF SetFields, Goto,
       Control, Fields, SectorsToErase, File, Missing, TooMany, storeVars,
       fieldVars, fileVars, locals, nodeVars
  <2>7. CASE ProgramUser
    BY <2>7, <2>1, OneSide, KiflashAssumption DEF ProgramUser, Goto, Control,
       Fields, SectorsToErase, File, Missing, TooMany, storeVars, fieldVars,
       fileVars, locals, nodeVars
  <2>8. CASE EraseSector
    BY <2>8, <2>1, OneSide, KiflashAssumption DEF EraseSector, Enter, Control,
       Fields, SectorsToErase, File, Missing, TooMany, storeVars, fieldVars,
       fileVars, locals, nodeVars
  <2>9. CASE EraseSectorBack
    BY <2>9, <2>1, OneSide, KiflashAssumption DEF EraseSectorBack, Back, Again,
       Return, Control, Fields, SectorsToErase, File, Missing, TooMany,
       storeVars, fieldVars, fileVars, locals, nodeVars
  <2>10. CASE EraseEnd
    BY <2>10, <2>1, OneSide, KiflashAssumption DEF EraseEnd, Return, Control,
       Fields, SectorsToErase, File, Missing, TooMany, storeVars, fieldVars,
       fileVars, locals, nodeVars
  <2>11. CASE FileMissing
    BY <2>11, <2>1, OneSide, KiflashAssumption DEF FileMissing, Return, Control,
       Fields, SectorsToErase, File, Missing, TooMany, storeVars, fieldVars,
       fileVars, locals, nodeVars
  <2>12. CASE Open
    BY <2>12, <2>1, OneSide, KiflashAssumption DEF Open, Enter, Control, Fields,
       SectorsToErase, File, Missing, TooMany, storeVars, fieldVars, fileVars,
       locals, nodeVars
  <2>13. CASE OpenBack
    BY <2>13, <2>1, OneSide, KiflashAssumption DEF OpenBack, Back, Goto, Return,
       Control, Fields, SectorsToErase, File, Missing, TooMany, storeVars,
       fieldVars, fileVars, locals, nodeVars
  <2>14. CASE ProgramPage
    BY <2>14, <2>1, OneSide, KiflashAssumption DEF ProgramPage, Enter, Control,
       Fields, SectorsToErase, File, Missing, TooMany, storeVars, fieldVars,
       fileVars, locals, nodeVars
  <2>15. CASE ProgramPageBack
    BY <2>15, <2>1, OneSide, KiflashAssumption DEF ProgramPageBack, Back, Again,
       Return, Control, Fields, SectorsToErase, File, Missing, TooMany,
       storeVars, fieldVars, fileVars, locals, nodeVars
  <2>16. CASE ProgramEnd
    BY <2>16, <2>1, OneSide, KiflashAssumption DEF ProgramEnd, Control, Fields,
       SectorsToErase, File, Missing, TooMany, storeVars, fieldVars, fileVars,
       locals, nodeVars
  <2>17. CASE VerifyPage
    BY <2>17, <2>1, OneSide, KiflashAssumption DEF VerifyPage, Enter, Control,
       Fields, SectorsToErase, File, Missing, TooMany, storeVars, fieldVars,
       fileVars, locals, nodeVars
  <2>18. CASE VerifyPageBack
    BY <2>18, <2>1, OneSide, KiflashAssumption DEF VerifyPageBack, Back, Again,
       Return, Control, Fields, SectorsToErase, File, Missing, TooMany,
       storeVars, fieldVars, fileVars, locals, nodeVars
  <2>19. CASE VerifyEnd
    BY <2>19, <2>1, OneSide, KiflashAssumption DEF VerifyEnd, Goto, Control,
       Fields, SectorsToErase, File, Missing, TooMany, storeVars, fieldVars,
       fileVars, locals, nodeVars
  <2>20. CASE Icap
    BY <2>20, <2>1, OneSide, KiflashAssumption DEF Icap, Return, Control,
       Fields, SectorsToErase, File, Missing, TooMany, storeVars, fieldVars,
       fileVars, locals, nodeVars
  <2>21. ASSUME NEW w \in Workers, Execute(w) PROVE Fields'
    BY <2>21, <2>1, OneSide, KiflashAssumption DEF Execute, At, Move, Turns,
       Control, Fields, SectorsToErase, File, Missing, TooMany, storeVars,
       fieldVars, fileVars, locals, nodeVars
  <2>22. ASSUME NEW w \in Workers, Poll(w) PROVE Fields'
    BY <2>22, <2>1, OneSide, KiflashAssumption DEF Poll, At, Move, Control,
       Fields, SectorsToErase, File, Missing, TooMany, storeVars, fieldVars,
       fileVars, locals, nodeVars
  <2>23. ASSUME NEW w \in Workers, SendFinal(w) PROVE Fields'
    BY <2>23, <2>1, OneSide, KiflashAssumption DEF SendFinal, At, Move, Control,
       Fields, SectorsToErase, File, Missing, TooMany, storeVars, fieldVars,
       fileVars, locals, nodeVars
  <2>24. ASSUME NEW w \in Workers, Join(w) PROVE Fields'
    BY <2>24, <2>1, OneSide, KiflashAssumption DEF Join, At, Move, Control,
       Fields, SectorsToErase, File, Missing, TooMany, storeVars, fieldVars,
       fileVars, locals, nodeVars
  <2>25. ASSUME NEW w \in Workers, HandleProgressCallback(w) PROVE Fields'
    BY <2>25, <2>1, OneSide, KiflashAssumption DEF HandleProgressCallback, At,
       Control, Fields, SectorsToErase, File, Missing, TooMany, storeVars,
       fieldVars, fileVars, locals, nodeVars
  <2>26. ASSUME NEW w \in Workers, HandleOKCallback(w) PROVE Fields'
    BY <2>26, <2>1, OneSide, KiflashAssumption DEF HandleOKCallback, At, Move,
       Control, Fields, SectorsToErase, File, Missing, TooMany, storeVars,
       fieldVars, fileVars, locals, nodeVars
  <2>27. CASE IcapInit
    BY <2>27, <2>1, OneSide, KiflashAssumption DEF IcapInit, ResetFlashData,
       Control, Fields, SectorsToErase, File, Missing, TooMany, storeVars,
       fieldVars, fileVars, locals, nodeVars
  <2>28. CASE IcapStartup
    BY <2>28, <2>1, OneSide, KiflashAssumption DEF IcapStartup, Enter, Control,
       Fields, SectorsToErase, File, Missing, TooMany, storeVars, fieldVars,
       fileVars, locals, nodeVars
  <2>29. CASE IcapStartupBack
    BY <2>29, <2>1, OneSide, KiflashAssumption DEF IcapStartupBack, Back,
       Control, Fields, SectorsToErase, File, Missing, TooMany, storeVars,
       fieldVars, fileVars, locals, nodeVars
  <2>30. CASE IcapCalled
    BY <2>30, <2>1, OneSide, KiflashAssumption DEF IcapCalled, Control, Fields,
       SectorsToErase, File, Missing, TooMany, storeVars, fieldVars, fileVars,
       locals, nodeVars
  <2>31. CASE UNCHANGED vars
    BY <2>31, <2>1, OneSide, KiflashAssumption DEF vars, Control, Fields,
       SectorsToErase, File, Missing, TooMany, storeVars, fieldVars, fileVars,
       locals, nodeVars
  <2>32. QED
    BY <1>1, <2>2, <2>3, <2>4, <2>5, <2>6, <2>7, <2>8, <2>9, <2>10, <2>11,
       <2>12, <2>13, <2>14, <2>15, <2>16, <2>17, <2>18, <2>19, <2>20, <2>21,
       <2>22, <2>23, <2>24, <2>25, <2>26, <2>27, <2>28, <2>29, <2>30, <2>31 DEF
       Ordinary, RunStep, ExecuteStep, MainStep
<1>2. ASSUME NEW w \in Workers, New(w) PROVE Fields'
  BY <1>2, OneSide, KiflashAssumption DEF New, Move, Control, Fields,
     SectorsToErase, File, Missing, TooMany, storeVars, fieldVars, fileVars,
     locals, nodeVars
<1>3. CASE ProcessEnd
  BY <1>3, OneSide, KiflashAssumption DEF ProcessEnd, Control, Fields,
     SectorsToErase, File, Missing, TooMany, storeVars, fieldVars, fileVars,
     locals, nodeVars
<1>4. QED
  BY <1>1, <1>2, <1>3 DEF Next, Ordinary

-----------------------------------------------------------------------------
(* Pages and addresses.                                                    *)

(* An address below the size of the flash has a page of it, and the        *)
(* addresses of the user image on have none below its sector.              *)
LEMMA PageInFlash ==
  ASSUME NEW a \in Nat, a < Cardinality(Sectors) * SectorPages
  PROVE  /\ PageAt(a) \in Page
         /\ a >= Address(UserSector) => PageAt(a)[1] >= UserSector
<1> DEFINE m == SectorPages
           q == a \div m
           n == Cardinality(Sectors)
<1>1. m \in Nat \ {0} /\ n \in Nat /\ UserSector \in Nat
  BY KiflashAssumption DEF SectorPages
<1>2. q \in Nat /\ a % m \in 0..(m - 1) /\ q * m <= a /\ a < (q + 1) * m
  BY <1>1, Division
<1>3. q < n
  <2>1. SUFFICES ASSUME n <= q PROVE FALSE
    BY <1>1, <1>2
  <2>2. n * m <= q * m
    BY <1>1, <1>2, <2>1, TimesMonotonic
  <2>3. QED
    <3> HIDE DEF m, q, n
    <3>1. n * m \in Nat /\ q * m \in Nat
      BY <1>1, <1>2
    <3>2. a < n * m
      BY DEF m, n
    <3>3. QED
      BY <1>1, <1>2, <2>2, <3>1, <3>2
<1>4. a >= UserSector * m => q >= UserSector
  <2>1. SUFFICES ASSUME a >= UserSector * m, q + 1 <= UserSector PROVE FALSE
    BY <1>1, <1>2
  <2>2. (q + 1) * m <= UserSector * m
    BY <1>1, <1>2, <2>1, TimesMonotonic
  <2>3. QED
    <3> HIDE DEF m, q
    <3>1. (q + 1) * m \in Nat /\ UserSector * m \in Nat
      BY <1>1, <1>2
    <3>2. QED
      BY <1>2, <2>1, <2>2, <3>1
<1>5. q \in Sectors
  <2>1. Sectors = 0..(n - 1)
    BY KiflashAssumption
  <2>2. QED
    <3> HIDE DEF q, n
    <3>1. QED
      BY <1>1, <1>2, <1>3, <2>1
<1>6. a % m \in Slots
  BY <1>2, KiflashAssumption DEF SectorPages
<1>7. QED
  BY <1>4, <1>5, <1>6 DEF PageAt, Page, Address

(* The pages of the user image are pages of the flash, from its sector on. *)
LEMMA ImagePageInFlash ==
  ASSUME NEW im \in Images, NEW k \in 1..Len(im)
  PROVE  LET p == PageAt(Address(UserSector) + k - 1)
         IN  p \in Page /\ p[1] >= UserSector /\ p \in ImagePages
<1>1. im \in Seq((SUBSET Data) \ {{}}) /\ Len(im) \in Nat /\ DOMAIN im = 1..Len(im)
  BY KiflashAssumption
<1>2. Address(UserSector) \in Nat
  BY KiflashAssumption DEF Address, SectorPages
<1>3. Address(UserSector) + Len(im) <= Cardinality(Sectors) * SectorPages
  BY KiflashAssumption DEF Address, SectorPages
<1>4. Cardinality(Sectors) * SectorPages \in Nat
  BY KiflashAssumption DEF SectorPages
<1> DEFINE a == Address(UserSector) + k - 1
<1>5. a \in Nat /\ a < Cardinality(Sectors) * SectorPages /\ a >= Address(UserSector)
  BY <1>1, <1>2, <1>3, <1>4
<1>6. PageAt(a) \in Page /\ PageAt(a)[1] >= UserSector
  BY <1>5, PageInFlash
<1>7. PageAt(a) \in ImagePages
  BY <1>1 DEF ImagePages
<1>8. QED
  BY <1>6, <1>7

-----------------------------------------------------------------------------
(* The calls of the flash layer.                                           *)

(* The calls of a run that modify the flash, and the pages they change.    *)
LEMMA RunJobKinds ==
  ASSUME NEW j \in RunJobs
  PROVE  /\ j # NoJob /\ Modifies(j) /\ j \in Job /\ j.name # "SpiFlashRead"
         /\ \A p \in Target(j) : p \in Page /\ MayChange(p)
<1>1. ASSUME NEW s \in UserSector..(TimerSector - 1), j = SectorErase(s)
      PROVE  /\ j # NoJob /\ Modifies(j) /\ j \in Job /\ j.name # "SpiFlashRead"
             /\ \A p \in Target(j) : p \in Page /\ MayChange(p)
  <2>1. s \in Sectors /\ s >= UserSector /\ s < TimerSector
    BY <1>1, KiflashAssumption
  <2>2. j.name = "SpiFlashSectorErase" /\ j.sector = s
    BY <1>1 DEF SectorErase
  <2>3. j # NoJob
    BY <2>2 DEF NoJob, Plain
  <2>4. Modifies(j)
    BY <2>2 DEF Modifies, Erases
  <2>5. j \in Job
    BY <1>1, <2>1 DEF Job
  <2>6. Target(j) = {p \in Page : p[1] = s}
    BY <2>2 DEF Target
  <2>7. QED
    BY <2>1, <2>2, <2>3, <2>4, <2>5, <2>6 DEF MayChange
<1>2. ASSUME NEW p \in ImagePages, NEW d \in Data, j = WriteFile(p, d)
      PROVE  /\ j # NoJob /\ Modifies(j) /\ j \in Job /\ j.name # "SpiFlashRead"
             /\ \A x \in Target(j) : x \in Page /\ MayChange(x)
  <2>1. PICK im \in Images : \E k \in DOMAIN im : p = PageAt(Address(UserSector) + k - 1)
    BY DEF ImagePages
  <2>2. PICK k \in DOMAIN im : p = PageAt(Address(UserSector) + k - 1)
    BY <2>1
  <2>3. k \in 1..Len(im)
    BY <2>2, KiflashAssumption
  <2>4. p \in Page /\ p[1] >= UserSector
    BY <2>2, <2>3, ImagePageInFlash
  <2>5. j.name = "SpiFlashWrite_File" /\ j.page = p
    BY <1>2 DEF WriteFile
  <2>6. j # NoJob
    BY <2>5 DEF NoJob, Plain
  <2>7. Modifies(j)
    BY <2>5 DEF Modifies
  <2>8. j \in Job
    BY <1>2, <2>4 DEF Job
  <2>9. Target(j) = {p}
    BY <2>5 DEF Target
  <2>10. MayChange(p)
    BY <2>2, <2>4 DEF MayChange
  <2>11. QED
    BY <2>4, <2>5, <2>6, <2>7, <2>8, <2>9, <2>10
<1>3. QED
  BY <1>1, <1>2 DEF RunJobs

(* What such a call may leave: a flash of which only those pages changed.  *)
LEMMA RunJobEffect ==
  ASSUME NEW j \in RunJobs, NEW s \in [Page -> Contents],
         NEW t \in After(j, s) \cup Damage(j, s)
  PROVE  /\ t \in [Page -> Contents]
         /\ \A p \in Page : t[p] # s[p] => MayChange(p)
<1>1. \A p \in Target(j) : p \in Page /\ MayChange(p)
  BY RunJobKinds
<1>2. CASE t \in Damage(j, s)
  <2>1. PICK S \in SUBSET Target(j) : t = [p \in Page |-> IF p \in S THEN Junk ELSE s[p]]
    BY <1>2 DEF Damage
  <2>2. QED
    BY <1>1, <2>1 DEF Contents
<1>3. CASE t \in After(j, s) /\ Erases(j)
  <2>1. t = [p \in Page |-> IF p \in Target(j) THEN Blank ELSE s[p]]
    BY <1>3 DEF After
  <2>2. QED
    BY <1>1, <2>1 DEF Contents
<1>4. CASE t \in After(j, s) /\ ~Erases(j)
  <2>1. PICK p \in ImagePages, d \in Data : j = WriteFile(p, d)
    BY <1>4 DEF RunJobs, SectorErase, Erases
  <2>2. j.name = "SpiFlashWrite_File" /\ j.page = p /\ j.data = d
    BY <2>1 DEF WriteFile
  <2>3. Target(j) = {p}
    BY <2>2 DEF Target
  <2>4. Modifies(j)
    BY <2>2 DEF Modifies
  <2>5. PICK x \in Overlays(s[p], d) : t = [s EXCEPT ![p] = x]
    BY <1>4, <2>2, <2>4 DEF After
  <2>6. x \in Contents
    BY <1>1, <2>3, <2>5 DEF Overlays, Contents
  <2>7. QED
    BY <1>1, <2>3, <2>5, <2>6
<1>5. QED
  BY <1>2, <1>3, <1>4

(* The other calls of the program, which leave the flash as it is.         *)
QuietJobs ==
  {StartupJob, Plain("SpiFlashWriteEnable")} \cup {Read(p) : p \in Page}

LEMMA QuietJobKinds ==
  ASSUME NEW j \in QuietJobs
  PROVE  /\ j # NoJob /\ ~Modifies(j) /\ j \in Job /\ Target(j) = {} /\ Waits(j)
         /\ j.name = "SpiFlashRead" => j.page \in Page
<1>1. CASE j = StartupJob
  <2>1. j.name = "System_init_startup"
    BY <1>1 DEF StartupJob, Plain
  <2>2. QED
    BY <1>1, <2>1 DEF StartupJob, Plain, PlainNames, Job, NoJob, Modifies,
       Erases, Target, Waits
<1>2. CASE j = Plain("SpiFlashWriteEnable")
  <2>1. j.name = "SpiFlashWriteEnable"
    BY <1>2 DEF Plain
  <2>2. QED
    BY <1>2, <2>1 DEF Plain, PlainNames, Job, NoJob, Modifies, Erases, Target,
       Waits
<1>3. ASSUME NEW p \in Page, j = Read(p)
      PROVE  /\ j # NoJob /\ ~Modifies(j) /\ j \in Job /\ Target(j) = {} /\ Waits(j)
             /\ j.page \in Page
  <2>1. j.name = "SpiFlashRead" /\ j.page = p
    BY <1>3 DEF Read
  <2>2. QED
    BY <1>3, <2>1 DEF Plain, Job, NoJob, Modifies, Erases, Target, Waits
<1>4. QED
  BY <1>1, <1>2, <1>3 DEF QuietJobs

(* Such a call leaves the flash as it is.                                  *)
LEMMA QuietJobEffect ==
  ASSUME NEW j \in QuietJobs, NEW s \in [Page -> Contents],
         NEW t \in After(j, s) \cup Damage(j, s)
  PROVE  t = s
<1>1. ~Modifies(j) /\ ~Erases(j) /\ Target(j) = {}
  BY QuietJobKinds DEF Modifies
<1>2. CASE t \in After(j, s)
  BY <1>1, <1>2 DEF After
<1>3. CASE t \in Damage(j, s)
  <2>1. PICK S \in SUBSET Target(j) : t = [p \in Page |-> IF p \in S THEN Junk ELSE s[p]]
    BY <1>3 DEF Damage
  <2>2. t = [p \in Page |-> s[p]]
    BY <1>1, <2>1
  <2>3. QED
    BY <2>2
<1>4. QED
  BY <1>2, <1>3

(* The page a run is at is a page of the image, and of the flash.          *)
LEMMA AtImagePage ==
  ASSUME Control, Fields, pc \in {"program", "verify"}, i < Len(file)
  PROVE  /\ image \in Images /\ file = image /\ i + 1 \in 1..Len(image)
         /\ base + i = Address(UserSector) + (i + 1) - 1
         /\ PageAt(base + i) \in Page /\ PageAt(base + i) \in ImagePages
         /\ file[i + 1] \subseteq Data
<1>1. file = image /\ base = Address(UserSector) /\ i \in Nat
  BY DEF Fields, Control
<1>2. image \in Images
  BY <1>1 DEF Fields
<1>3. image \in Seq((SUBSET Data) \ {{}}) /\ i + 1 \in 1..Len(image)
  BY <1>1, <1>2, KiflashAssumption
<1>4. Address(UserSector) \in Nat
  BY KiflashAssumption DEF Address, SectorPages
<1>5. base + i = Address(UserSector) + (i + 1) - 1
  BY <1>1, <1>4
<1>6. PageAt(base + i) \in Page /\ PageAt(base + i) \in ImagePages
  BY <1>2, <1>3, <1>5, ImagePageInFlash
<1>7. QED
  BY <1>1, <1>2, <1>3, <1>5, <1>6

(* The calls the program makes.                                            *)
LEMMA JobKind ==
  ASSUME Control, Fields, Calls
  PROVE  job \in RunJobs \cup QuietJobs \cup {NoJob}
<1>1. CASE caller # "run"
  BY <1>1 DEF Control, Calls, QuietJobs
<1>2. CASE caller = "run" /\ pc # "verify"
  BY <1>2 DEF Fields, Calls, QuietJobs
<1>3. CASE caller = "run" /\ pc = "verify"
  <2>1. PageAt(base + i) \in Page
    BY <1>3, AtImagePage DEF Fields
  <2>2. QED
    BY <1>3, <2>1 DEF Calls, QuietJobs
<1>4. QED
  BY <1>1, <1>2, <1>3

(* What the flash does to a call keeps types and pages below the image.    *)
LEMMA FlashEffect ==
  ASSUME Control, Fields, Calls,
         Apply \/ Succeed \/ Fail("XST_FAILURE") \/ Fail("none") \/ OrphanEnds
  PROVE  /\ store' \in [Page -> Contents] /\ answer' \in Contents /\ applied' \in BOOLEAN
         /\ result' \in {"none", "XST_SUCCESS", "XST_FAILURE"}
         /\ orphan' \in RunJobs \cup {NoJob}
         /\ job' \in {job, NoJob}
         /\ \A p \in Page : store'[p] # store[p] => MayChange(p)
<1> DEFINE Goal ==
      /\ store' \in [Page -> Contents] /\ answer' \in Contents /\ applied' \in BOOLEAN
      /\ result' \in {"none", "XST_SUCCESS", "XST_FAILURE"}
      /\ orphan' \in RunJobs \cup {NoJob}
      /\ job' \in {job, NoJob}
      /\ \A p \in Page : store'[p] # store[p] => MayChange(p)
<1>1. job \in RunJobs \cup QuietJobs \cup {NoJob} /\ store \in [Page -> Contents]
  BY JobKind DEF Calls
<1>2. Blank \in Contents
  BY DEF Contents
<1>3. CASE Apply
  <2>1. job # NoJob /\ store' \in After(job, store) \cup Damage(job, store)
    BY <1>3 DEF Apply, Outcomes
  <2>2. CASE job \in RunJobs
    BY <1>1, <1>3, <2>1, <2>2, RunJobEffect DEF Apply, Calls
  <2>3. CASE job \in QuietJobs
    BY <1>1, <1>3, <2>1, <2>3, QuietJobEffect DEF Apply, Calls
  <2>4. QED
    BY <1>1, <2>1, <2>2, <2>3
<1>4. CASE Succeed
  <2>1. store' = store /\ job' = NoJob /\ job # NoJob /\ applied' = FALSE
        /\ result' = "XST_SUCCESS"
    BY <1>4 DEF Succeed
  <2>2. orphan' \in RunJobs \cup {NoJob}
    <3>1. Erases(job) => job \in RunJobs
      BY <1>1, <2>1, QuietJobKinds DEF Modifies
    <3>2. QED
      BY <1>4, <3>1 DEF Succeed, Calls
  <2>3. answer' \in Contents
    <3>1. job.name = "SpiFlashRead" => job.page \in Page
      BY <1>1, <2>1, RunJobKinds, QuietJobKinds
    <3>2. QED
      BY <1>1, <1>2, <1>4, <3>1 DEF Succeed
  <2>4. QED
    BY <1>1, <2>1, <2>2, <2>3
<1>5. ASSUME NEW r \in {"XST_FAILURE", "none"}, Fail(r) PROVE Goal
  <2>1. Modifies(job) => job \in RunJobs
    BY <1>1, <1>5, QuietJobKinds DEF Fail
  <2>2. orphan' \in RunJobs \cup {NoJob}
    BY <1>5, <2>1 DEF Fail, Calls
  <2>3. QED
    BY <1>1, <1>2, <1>5, <2>2 DEF Fail
<1>6. CASE OrphanEnds
  <2>1. orphan \in RunJobs
    BY <1>6 DEF OrphanEnds, Calls
  <2>2. store' \in [Page -> Contents]
        /\ \A p \in Page : store'[p] # store[p] => MayChange(p)
    BY <1>1, <1>6, <2>1, RunJobEffect DEF OrphanEnds
  <2>3. QED
    BY <1>6, <2>2 DEF OrphanEnds, Calls
<1>7. QED
  BY <1>3, <1>4, <1>5, <1>6

(* What erasing begins with and goes on with are sectors of the image.     *)
LEMMA ErasedSector ==
  ASSUME Control, Fields, pc = "erase", i < SectorsToErase
  PROVE  SectorErase(PageAt(EraseAddress(i))[1]) \in RunJobs
<1> DEFINE x == UserSector + i
           m == SectorPages
           q == (x * m) \div m
<1> HIDE DEF q
<1>1. m \in Nat \ {0} /\ x \in Nat /\ x >= UserSector /\ x <= TimerSector - 1
  <2>1. m \in Nat \ {0}
    BY KiflashAssumption DEF SectorPages
  <2>2. UserSector \in Nat /\ TimerSector \in Nat
    <3>1. Cardinality(Sectors) \in Nat /\ Sectors = 0..(Cardinality(Sectors) - 1)
      BY KiflashAssumption
    <3>2. UserSector \in Sectors /\ TimerSector \in Sectors
      BY KiflashAssumption
    <3>3. QED
      BY <3>1, <3>2
  <2>3. i \in Nat /\ i < TimerSector - UserSector
    BY DEF SectorsToErase, Fields, Control
  <2>4. QED
    BY <2>1, <2>2, <2>3
<1>2. x * m \in Nat
  BY <1>1
<1>3. q \in Nat /\ q * m <= x * m /\ x * m < (q + 1) * m
  BY <1>1, <1>2, Division DEF q
<1>4. q = x
  <2> HIDE DEF x, m
  <2>1. q < x => FALSE
    <3>1. q < x => (q + 1) * m <= x * m
      BY <1>1, <1>3, TimesMonotonic
    <3>2. (q + 1) * m \in Nat
      BY <1>1, <1>3
    <3>3. QED
      BY <1>2, <1>3, <3>1, <3>2
  <2>2. x < q => FALSE
    <3>1. x < q => (x + 1) * m <= q * m
      BY <1>1, <1>3, TimesMonotonic
    <3>2. (x + 1) * m = x * m + m /\ q * m \in Nat
      BY <1>1, <1>3
    <3>3. QED
      BY <1>1, <1>2, <1>3, <3>1, <3>2
  <2>3. QED
    BY <1>1, <1>3, <2>1, <2>2
<1>5. PageAt(EraseAddress(i))[1] = x
  BY <1>4 DEF q, PageAt, EraseAddress, Address
<1>6. x \in UserSector..(TimerSector - 1)
  BY <1>1, KiflashAssumption
<1>7. QED
  BY <1>5, <1>6 DEF RunJobs

(* The caller may program something.                                       *)
LEMMA SomeData ==
  AnyData \in Data
  BY KiflashAssumption DEF AnyData

(* A run makes no other calls.                                             *)
LEMMA CallsStep ==
  ASSUME Control, Control', Turns, Fields, Fields', Calls, [Next]_vars
  PROVE  Calls'
<1>1. CASE [Ordinary]_vars
  <2>1. Created' = Created /\ Newest' = Newest /\ Created \subseteq Workers
    BY <1>1, CreatedStays DEF Created
  <2>2. CASE FlashStep
    <3>1. job' \in {job, NoJob} /\ pc' = pc /\ caller' = caller /\ flag' = flag
          /\ base' = base /\ i' = i /\ buffer' = buffer
      BY <2>2, FlashEffect DEF FlashStep, locals
    <3>2. store' \in [Page -> Contents] /\ answer' \in Contents /\ applied' \in BOOLEAN
          /\ result' \in {"none", "XST_SUCCESS", "XST_FAILURE"}
          /\ orphan' \in RunJobs \cup {NoJob}
      BY <2>2, FlashEffect DEF FlashStep
    <3>3. QED
      BY <3>1, <3>2 DEF Calls
  <2>3. CASE KiflashInit
    BY <2>3, <2>1, OneSide DEF KiflashInit, ResetFlashData, Goto, Control,
       Fields, Calls, storeVars, fieldVars, fileVars, locals, nodeVars
  <2>4. CASE Startup
    BY <2>4, <2>1, OneSide DEF Startup, Enter, Begin, Contents, Control, Fields,
       Calls, storeVars, fieldVars, fileVars, locals, nodeVars
  <2>5. CASE StartupBack
    BY <2>5, <2>1, OneSide, SomeData DEF StartupBack, Back, Goto, Return,
       Control, Fields, Calls, storeVars, fieldVars, fileVars, locals, nodeVars
  <2>6. CASE SetFields
    BY <2>6, <2>1, OneSide DEF SetFields, Goto, Control, Fields, Calls,
       storeVars, fieldVars, fileVars, locals, nodeVars
  <2>7. CASE ProgramUser
    BY <2>7, <2>1, OneSide DEF ProgramUser, Goto, Control, Fields, Calls,
       storeVars, fieldVars, fileVars, locals, nodeVars
  <2>8. CASE EraseSector
    BY <2>8, <2>1, OneSide, ErasedSector DEF EraseSector, Enter, Begin,
       Contents, Control, Fields, Calls, storeVars, fieldVars, fileVars, locals,
       nodeVars
  <2>9. CASE EraseSectorBack
    BY <2>9, <2>1, OneSide, SomeData DEF EraseSectorBack, Back, Again, Return,
       Control, Fields, Calls, storeVars, fieldVars, fileVars, locals, nodeVars
  <2>10. CASE EraseEnd
    BY <2>10, <2>1, OneSide, SomeData DEF EraseEnd, Return, Control, Fields,
       Calls, storeVars, fieldVars, fileVars, locals, nodeVars
  <2>11. CASE FileMissing
    BY <2>11, <2>1, OneSide, SomeData DEF FileMissing, Return, Control, Fields,
       Calls, storeVars, fieldVars, fileVars, locals, nodeVars
  <2>12. CASE Open
    BY <2>12, <2>1, OneSide DEF Open, Enter, Begin, Contents, Control, Fields,
       Calls, storeVars, fieldVars, fileVars, locals, nodeVars
  <2>13. CASE OpenBack
    BY <2>13, <2>1, OneSide, SomeData DEF OpenBack, Back, Goto, Return, Control,
       Fields, Calls, storeVars, fieldVars, fileVars, locals, nodeVars
  <2>14. CASE ProgramPage
    <3>1. PICK d \in file[i + 1] : Enter("run", WriteFile(PageAt(base + i), d))
      BY <2>14 DEF ProgramPage
    <3>2. WriteFile(PageAt(base + i), d) \in RunJobs
      BY <2>14, AtImagePage DEF ProgramPage, RunJobs
    <3>3. job' \in RunJobs /\ caller' = "run" /\ pc' = "program" /\ applied' = FALSE
          /\ result' = "none" /\ answer' = Blank /\ store' = store /\ orphan' = orphan
          /\ buffer' = buffer
      BY <2>14, <3>1, <3>2 DEF ProgramPage, Enter, Begin, locals
    <3>4. QED
      BY <3>3 DEF Calls, Contents
  <2>15. CASE ProgramPageBack
    BY <2>15, <2>1, OneSide, SomeData DEF ProgramPageBack, Back, Again, Return,
       Control, Fields, Calls, storeVars, fieldVars, fileVars, locals, nodeVars
  <2>16. CASE ProgramEnd
    BY <2>16, <2>1, OneSide DEF ProgramEnd, Control, Fields, Calls, storeVars,
       fieldVars, fileVars, locals, nodeVars
  <2>17. CASE VerifyPage
    <3>1. job' = Read(PageAt(base + i)) /\ buffer' \in file[i + 1]
      BY <2>17 DEF VerifyPage, Enter, Begin
    <3>2. buffer' \in Data
      BY <2>17, <3>1, AtImagePage DEF VerifyPage
    <3>3. caller' = "run" /\ pc' = "verify" /\ applied' = FALSE /\ base' = base /\ i' = i
          /\ result' = "none" /\ answer' = Blank /\ store' = store /\ orphan' = orphan
      BY <2>17 DEF VerifyPage, Enter, Begin
    <3>4. QED
      BY <3>1, <3>2, <3>3 DEF Calls, Contents
  <2>18. CASE VerifyPageBack
    BY <2>18, <2>1, OneSide, SomeData DEF VerifyPageBack, Back, Again, Return,
       Control, Fields, Calls, storeVars, fieldVars, fileVars, locals, nodeVars
  <2>19. CASE VerifyEnd
    BY <2>19, <2>1, OneSide DEF VerifyEnd, Goto, Control, Fields, Calls,
       storeVars, fieldVars, fileVars, locals, nodeVars
  <2>20. CASE Icap
    BY <2>20, <2>1, OneSide, SomeData DEF Icap, Return, Control, Fields, Calls,
       storeVars, fieldVars, fileVars, locals, nodeVars
  <2>21. ASSUME NEW w \in Workers, Execute(w) PROVE Calls'
    BY <2>21, <2>1, OneSide DEF Execute, At, Move, Turns, Control, Fields,
       Calls, storeVars, fieldVars, fileVars, locals, nodeVars
  <2>22. ASSUME NEW w \in Workers, Poll(w) PROVE Calls'
    BY <2>22, <2>1, OneSide DEF Poll, At, Move, Control, Fields, Calls,
       storeVars, fieldVars, fileVars, locals, nodeVars
  <2>23. ASSUME NEW w \in Workers, SendFinal(w) PROVE Calls'
    BY <2>23, <2>1, OneSide DEF SendFinal, At, Move, Control, Fields, Calls,
       storeVars, fieldVars, fileVars, locals, nodeVars
  <2>24. ASSUME NEW w \in Workers, Join(w) PROVE Calls'
    BY <2>24, <2>1, OneSide DEF Join, At, Move, Control, Fields, Calls,
       storeVars, fieldVars, fileVars, locals, nodeVars
  <2>25. ASSUME NEW w \in Workers, HandleProgressCallback(w) PROVE Calls'
    BY <2>25, <2>1, OneSide DEF HandleProgressCallback, At, Control, Fields,
       Calls, storeVars, fieldVars, fileVars, locals, nodeVars
  <2>26. ASSUME NEW w \in Workers, HandleOKCallback(w) PROVE Calls'
    BY <2>26, <2>1, OneSide DEF HandleOKCallback, At, Move, Control, Fields,
       Calls, storeVars, fieldVars, fileVars, locals, nodeVars
  <2>27. CASE IcapInit
    BY <2>27, <2>1, OneSide DEF IcapInit, ResetFlashData, Control, Fields,
       Calls, storeVars, fieldVars, fileVars, locals, nodeVars
  <2>28. CASE IcapStartup
    BY <2>28, <2>1, OneSide DEF IcapStartup, Enter, Begin, Contents, Control,
       Fields, Calls, storeVars, fieldVars, fileVars, locals, nodeVars
  <2>29. CASE IcapStartupBack
    BY <2>29, <2>1, OneSide DEF IcapStartupBack, Back, Control, Fields, Calls,
       storeVars, fieldVars, fileVars, locals, nodeVars
  <2>30. CASE IcapCalled
    BY <2>30, <2>1, OneSide DEF IcapCalled, Control, Fields, Calls, storeVars,
       fieldVars, fileVars, locals, nodeVars
  <2>31. CASE UNCHANGED vars
    BY <2>31, <2>1, OneSide DEF vars, Control, Fields, Calls, storeVars,
       fieldVars, fileVars, locals, nodeVars
  <2>32. QED
    BY <1>1, <2>2, <2>3, <2>4, <2>5, <2>6, <2>7, <2>8, <2>9, <2>10, <2>11,
       <2>12, <2>13, <2>14, <2>15, <2>16, <2>17, <2>18, <2>19, <2>20, <2>21,
       <2>22, <2>23, <2>24, <2>25, <2>26, <2>27, <2>28, <2>29, <2>30, <2>31 DEF
       Ordinary, RunStep, ExecuteStep, MainStep
<1>2. ASSUME NEW w \in Workers, New(w) PROVE Calls'
  BY <1>2, OneSide DEF New, Move, Control, Fields, Calls, storeVars, fieldVars,
     fileVars, locals, nodeVars
<1>3. CASE ProcessEnd
  <2>1. caller' = "none" /\ buffer' \in Data /\ pc' = "none" /\ answer' = Blank
        /\ result' = "none" /\ job' = NoJob
    BY <1>3, SomeData DEF ProcessEnd, Fail, Rest
  <2>2. CASE Rest
    BY <2>1, <2>2 DEF Rest, Calls, Contents
  <2>3. CASE Fail("none")
    BY <2>1, <2>3, FlashEffect DEF Fail, Calls
  <2>4. QED
    BY <1>3, <2>2, <2>3 DEF ProcessEnd
<1>4. QED
  BY <1>1, <1>2, <1>3 DEF Next, Ordinary

-----------------------------------------------------------------------------
(* What has been verified.                                                 *)

(* A flash that nothing is about to change stays as it is.                 *)
LEMMA QuietFlash ==
  ASSUME Calls, job \in QuietJobs \cup {NoJob}, orphan = NoJob,
         Apply \/ Succeed \/ Fail("XST_FAILURE") \/ Fail("none") \/ OrphanEnds
  PROVE  store' = store /\ orphan' = NoJob
<1>1. store \in [Page -> Contents]
  BY DEF Calls
<1>2. job \in QuietJobs => ~Modifies(job) /\ ~Erases(job)
  BY QuietJobKinds DEF Modifies
<1>3. CASE Apply
  <2>1. job \in QuietJobs /\ store' \in After(job, store) \cup Damage(job, store)
    BY <1>3 DEF Apply, Outcomes
  <2>2. QED
    BY <1>1, <1>3, <2>1, QuietJobEffect DEF Apply
<1>4. CASE Succeed
  BY <1>2, <1>4 DEF Succeed
<1>5. ASSUME NEW r, Fail(r) PROVE store' = store /\ orphan' = NoJob
  BY <1>2, <1>5 DEF Fail
<1>6. CASE OrphanEnds
  BY <1>6 DEF OrphanEnds
<1>7. QED
  BY <1>3, <1>4, <1>5, <1>6

(* What has been verified stays, and is all of the image in the end.       *)
LEMMA SeenStep ==
  ASSUME Control, Control', Turns, Turns', Fields, Fields', Calls, Calls', Seen,
     [Next]_vars
  PROVE  Seen'
<1>1. CASE [Ordinary]_vars
  <2>1. Created' = Created /\ Newest' = Newest /\ Created \subseteq Workers
    BY <1>1, CreatedStays DEF Created
  <2>2. CASE FlashStep
    <3>1. pc' = pc /\ caller' = caller /\ flag' = flag /\ base' = base /\ i' = i
          /\ buffer' = buffer /\ image' = image /\ file' = file /\ returned' = returned
          /\ (Apply \/ Succeed \/ Fail("XST_FAILURE") \/ OrphanEnds)
      BY <2>2 DEF FlashStep, locals, fileVars
    <3>2. ASSUME orphan = NoJob, job \in QuietJobs \cup {NoJob}
          PROVE  store' = store /\ orphan' = NoJob
      BY <3>1, <3>2, QuietFlash
    <3>3. ASSUME caller = "run", pc = "openVerify", flag, job' = NoJob, Done'
          PROVE  orphan' = NoJob
      <4>1. job \in QuietJobs \cup {NoJob}
        BY <3>3 DEF Calls, QuietJobs
      <4>2. CASE job = NoJob
        BY <3>1, <3>3, <4>2 DEF Apply, Succeed, Fail, OrphanEnds
      <4>3. CASE job \in QuietJobs
        <5>1. Waits(job) /\ ~Modifies(job) /\ ~Erases(job) /\ job # NoJob
          BY <4>3, QuietJobKinds DEF Modifies
        <5>2. QED
          BY <3>1, <3>3, <5>1 DEF Apply, Succeed, Fail, OrphanEnds, Done
      <4>4. QED
        BY <4>1, <4>2, <4>3
    <3>4. ASSUME pc \in {"verify", "icap"}
          PROVE  store' = store /\ orphan' = NoJob
      <4>1. job \in QuietJobs \cup {NoJob}
        BY <3>4, JobKind, AtImagePage DEF Control, Fields, Calls, QuietJobs
      <4>2. QED
        BY <3>2, <3>4, <4>1 DEF Seen
    <3>5. ASSUME caller = "run", pc = "verify", job' = NoJob, Done'
          PROVE  answer' = store'[PageAt(base + i)]
      <4>1. store' = store /\ job \in {Read(PageAt(base + i)), NoJob}
        BY <3>4, <3>5 DEF Calls
      <4>2. CASE job = NoJob
        BY <3>1, <3>5, <4>1, <4>2 DEF Apply, Succeed, Fail, OrphanEnds, Seen,
           Done
      <4>3. CASE job = Read(PageAt(base + i))
        BY <3>1, <3>5, <4>1, <4>3 DEF Apply, Succeed, Fail, OrphanEnds, Done,
           Read, NoJob, Plain
      <4>4. QED
        BY <4>1, <4>2, <4>3
    <3>6. ASSUME NEW w \in Created, w = Newest, returned[w] = "XST_SUCCESS"
          PROVE  store' = store /\ orphan' = NoJob
      <4>1. pc = "none"
        BY <3>6 DEF Turns
      <4>2. job \in QuietJobs \cup {NoJob}
        BY <4>1 DEF Control, Fields, Calls, QuietJobs
      <4>3. QED
        BY <3>2, <3>6, <4>2 DEF Seen, SuccessMeansProgrammed
    <3>7. QED
      BY <2>1, <3>1, <3>3, <3>4, <3>5, <3>6 DEF Seen, SuccessMeansProgrammed
  <2>3. CASE KiflashInit
    BY <2>3, <2>1, OneSide DEF KiflashInit, ResetFlashData, Goto, Control,
       Fields, Turns, Calls, Seen, SuccessMeansProgrammed, Done, storeVars,
       fieldVars, fileVars, locals, nodeVars
  <2>4. CASE Startup
    BY <2>4, <2>1, OneSide DEF Startup, Enter, Begin, Control, Fields, Turns,
       Calls, Seen, SuccessMeansProgrammed, Done, storeVars, fieldVars,
       fileVars, locals, nodeVars
  <2>5. CASE StartupBack
    BY <2>5, <2>1, OneSide DEF StartupBack, Back, Goto, Return, Control, Fields,
       Turns, Calls, Seen, SuccessMeansProgrammed, Done, storeVars, fieldVars,
       fileVars, locals, nodeVars
  <2>6. CASE SetFields
    BY <2>6, <2>1, OneSide DEF SetFields, Goto, Control, Fields, Turns, Calls,
       Seen, SuccessMeansProgrammed, Done, storeVars, fieldVars, fileVars,
       locals, nodeVars
  <2>7. CASE ProgramUser
    BY <2>7, <2>1, OneSide DEF ProgramUser, Goto, Control, Fields, Turns, Calls,
       Seen, SuccessMeansProgrammed, Done, storeVars, fieldVars, fileVars,
       locals, nodeVars
  <2>8. CASE EraseSector
    BY <2>8, <2>1, OneSide DEF EraseSector, Enter, Begin, Control, Fields,
       Turns, Calls, Seen, SuccessMeansProgrammed, Done, storeVars, fieldVars,
       fileVars, locals, nodeVars
  <2>9. CASE EraseSectorBack
    BY <2>9, <2>1, OneSide DEF EraseSectorBack, Back, Again, Return, Control,
       Fields, Turns, Calls, Seen, SuccessMeansProgrammed, Done, storeVars,
       fieldVars, fileVars, locals, nodeVars
  <2>10. CASE EraseEnd
    BY <2>10, <2>1, OneSide DEF EraseEnd, Return, Control, Fields, Turns, Calls,
       Seen, SuccessMeansProgrammed, Done, storeVars, fieldVars, fileVars,
       locals, nodeVars
  <2>11. CASE FileMissing
    BY <2>11, <2>1, OneSide DEF FileMissing, Return, Control, Fields, Turns,
       Calls, Seen, SuccessMeansProgrammed, Done, storeVars, fieldVars,
       fileVars, locals, nodeVars
  <2>12. CASE Open
    BY <2>12, <2>1, OneSide DEF Open, Enter, Begin, Control, Fields, Turns,
       Calls, Seen, SuccessMeansProgrammed, Done, storeVars, fieldVars,
       fileVars, locals, nodeVars
  <2>13. CASE OpenBack
    BY <2>13, <2>1, OneSide DEF OpenBack, Back, Goto, Return, Control, Fields,
       Turns, Calls, Seen, SuccessMeansProgrammed, Done, storeVars, fieldVars,
       fileVars, locals, nodeVars
  <2>14. CASE ProgramPage
    BY <2>14, <2>1, OneSide DEF ProgramPage, Enter, Begin, Control, Fields,
       Turns, Calls, Seen, SuccessMeansProgrammed, Done, storeVars, fieldVars,
       fileVars, locals, nodeVars
  <2>15. CASE ProgramPageBack
    BY <2>15, <2>1, OneSide DEF ProgramPageBack, Back, Again, Return, Control,
       Fields, Turns, Calls, Seen, SuccessMeansProgrammed, Done, storeVars,
       fieldVars, fileVars, locals, nodeVars
  <2>16. CASE ProgramEnd
    BY <2>16, <2>1, OneSide DEF ProgramEnd, Control, Fields, Turns, Calls, Seen,
       SuccessMeansProgrammed, Done, storeVars, fieldVars, fileVars, locals,
       nodeVars
  <2>17. CASE VerifyPage
    BY <2>17, <2>1, OneSide DEF VerifyPage, Enter, Begin, Control, Fields,
       Turns, Calls, Seen, SuccessMeansProgrammed, Done, storeVars, fieldVars,
       fileVars, locals, nodeVars
  <2>18. CASE VerifyPageBack
    BY <2>18, <2>1, OneSide DEF VerifyPageBack, Back, Again, Return, Control,
       Fields, Turns, Calls, Seen, SuccessMeansProgrammed, Done, storeVars,
       fieldVars, fileVars, locals, nodeVars
  <2>19. CASE VerifyEnd
    BY <2>19, <2>1, OneSide DEF VerifyEnd, Goto, Control, Fields, Turns, Calls,
       Seen, SuccessMeansProgrammed, Done, storeVars, fieldVars, fileVars,
       locals, nodeVars
  <2>20. CASE Icap
    BY <2>20, <2>1, OneSide DEF Icap, Return, Control, Fields, Turns, Calls,
       Seen, SuccessMeansProgrammed, Done, storeVars, fieldVars, fileVars,
       locals, nodeVars
  <2>21. ASSUME NEW w \in Workers, Execute(w) PROVE Seen'
    BY <2>21, <2>1, OneSide DEF Execute, At, Move, Control, Fields, Turns,
       Calls, Seen, SuccessMeansProgrammed, Done, storeVars, fieldVars,
       fileVars, locals, nodeVars
  <2>22. ASSUME NEW w \in Workers, Poll(w) PROVE Seen'
    BY <2>22, <2>1, OneSide DEF Poll, At, Move, Control, Fields, Turns, Calls,
       Seen, SuccessMeansProgrammed, Done, storeVars, fieldVars, fileVars,
       locals, nodeVars
  <2>23. ASSUME NEW w \in Workers, SendFinal(w) PROVE Seen'
    BY <2>23, <2>1, OneSide DEF SendFinal, At, Move, Control, Fields, Turns,
       Calls, Seen, SuccessMeansProgrammed, Done, storeVars, fieldVars,
       fileVars, locals, nodeVars
  <2>24. ASSUME NEW w \in Workers, Join(w) PROVE Seen'
    BY <2>24, <2>1, OneSide DEF Join, At, Move, Control, Fields, Turns, Calls,
       Seen, SuccessMeansProgrammed, Done, storeVars, fieldVars, fileVars,
       locals, nodeVars
  <2>25. ASSUME NEW w \in Workers, HandleProgressCallback(w) PROVE Seen'
    BY <2>25, <2>1, OneSide DEF HandleProgressCallback, At, Control, Fields,
       Turns, Calls, Seen, SuccessMeansProgrammed, Done, storeVars, fieldVars,
       fileVars, locals, nodeVars
  <2>26. ASSUME NEW w \in Workers, HandleOKCallback(w) PROVE Seen'
    BY <2>26, <2>1, OneSide DEF HandleOKCallback, At, Move, Control, Fields,
       Turns, Calls, Seen, SuccessMeansProgrammed, Done, storeVars, fieldVars,
       fileVars, locals, nodeVars
  <2>27. CASE IcapInit
    BY <2>27, <2>1, OneSide DEF IcapInit, ResetFlashData, Control, Fields,
       Turns, Calls, Seen, SuccessMeansProgrammed, Done, storeVars, fieldVars,
       fileVars, locals, nodeVars
  <2>28. CASE IcapStartup
    BY <2>28, <2>1, OneSide DEF IcapStartup, Enter, Begin, Control, Fields,
       Turns, Calls, Seen, SuccessMeansProgrammed, Done, storeVars, fieldVars,
       fileVars, locals, nodeVars
  <2>29. CASE IcapStartupBack
    BY <2>29, <2>1, OneSide DEF IcapStartupBack, Back, Control, Fields, Turns,
       Calls, Seen, SuccessMeansProgrammed, Done, storeVars, fieldVars,
       fileVars, locals, nodeVars
  <2>30. CASE IcapCalled
    BY <2>30, <2>1, OneSide DEF IcapCalled, Control, Fields, Turns, Calls, Seen,
       SuccessMeansProgrammed, Done, storeVars, fieldVars, fileVars, locals,
       nodeVars
  <2>31. CASE UNCHANGED vars
    BY <2>31, <2>1, OneSide DEF vars, Control, Fields, Turns, Calls, Seen,
       SuccessMeansProgrammed, Done, storeVars, fieldVars, fileVars, locals,
       nodeVars
  <2>32. QED
    BY <1>1, <2>2, <2>3, <2>4, <2>5, <2>6, <2>7, <2>8, <2>9, <2>10, <2>11,
       <2>12, <2>13, <2>14, <2>15, <2>16, <2>17, <2>18, <2>19, <2>20, <2>21,
       <2>22, <2>23, <2>24, <2>25, <2>26, <2>27, <2>28, <2>29, <2>30, <2>31 DEF
       Ordinary, RunStep, ExecuteStep, MainStep
<1>2. ASSUME NEW w \in Workers, New(w) PROVE Seen'
  <2>1. Newest' = w /\ returned[w] = "no" /\ pc = "none" /\ returned' = returned
        /\ pc' = pc /\ caller' = caller
    BY <1>2, NewWorker DEF New
  <2>2. QED
    BY <1>2, <2>1 DEF New, Control, Fields, Seen, SuccessMeansProgrammed
<1>3. CASE ProcessEnd
  <2>1. Created' = {} /\ pc' = "none" /\ caller' = "none"
    BY <1>3 DEF ProcessEnd, Created
  <2>2. QED
    BY <2>1 DEF Seen, SuccessMeansProgrammed
<1>4. QED
  BY <1>1, <1>2, <1>3 DEF Next, Ordinary

-----------------------------------------------------------------------------
(* The percentage.                                                         *)

(* The part of 40 percent that n pages of the file are.                    *)
LEMMA Share ==
  ASSUME Len(file) \in Nat \ {0}, NEW n \in Nat, n <= Len(file)
  PROVE  /\ Part(n) \in Nat /\ Part(n) <= 40
         /\ n < Len(file) => Part(n) < 40
         /\ Part(n) <= Part(n + 1)
<1> DEFINE l == Len(file)
           q == (40 * n) \div l
           r == (40 * (n + 1)) \div l
<1>1. q \in Nat /\ q * l <= 40 * n /\ 40 * n < (q + 1) * l
  <2>1. 40 * n \in Nat
    OBVIOUS
  <2>2. QED
    BY <2>1, Division
<1>2. r \in Nat /\ r * l <= 40 * (n + 1) /\ 40 * (n + 1) < (r + 1) * l
  <2>1. 40 * (n + 1) \in Nat
    OBVIOUS
  <2>2. QED
    BY <2>1, Division
<1>3. Part(n) = q /\ Part(n + 1) = r /\ l \in Nat \ {0} /\ n <= l
  BY DEF Part
<1> HIDE DEF q, r, l
<1>4. q * l \in Nat /\ (q + 1) * l \in Nat /\ (r + 1) * l \in Nat
  BY <1>1, <1>2, <1>3
<1>5. q <= 40
  <2>1. 41 <= q => 41 * l <= q * l
    BY <1>1, <1>3, TimesMonotonic
  <2>2. QED
    BY <1>1, <1>3, <1>4, <2>1
<1>6. n < l => q < 40
  <2>1. 40 <= q => 40 * l <= q * l
    BY <1>1, <1>3, TimesMonotonic
  <2>2. QED
    BY <1>1, <1>3, <1>4, <2>1
<1>7. q <= r
  <2>1. r + 1 <= q => (r + 1) * l <= q * l
    BY <1>1, <1>2, <1>3, TimesMonotonic
  <2>2. QED
    BY <1>1, <1>2, <1>4, <2>1
<1>8. QED
  BY <1>1, <1>3, <1>5, <1>6, <1>7 DEF l

(* A page's turn of a loop: the percentage stays within its share.         *)
LEMMA PageProgress ==
  ASSUME Control, Fields, NEW first \in {20, 60}, pc \in {"program", "verify"},
         Upto(first), i < Len(file), file' = file
  PROVE  /\ percentage' = Percent(first) /\ i' = i
              => /\ Upto(first)' /\ percentage' >= percentage
                 /\ percentage' \in Nat /\ percentage' < 100
         /\ percentage' = percentage /\ i' = i + 1 => Upto(first)'
<1>1. Len(file) \in Nat \ {0} /\ i \in Nat /\ i + 1 \in Nat /\ i + 1 <= Len(file)
      /\ i <= Len(file)
  BY KiflashAssumption DEF Fields, Control
<1>2. Part(i) \in Nat /\ Part(i) < 40
  BY <1>1, Share
<1>3. Part(i + 1) \in Nat /\ Part(i + 1) <= 40 /\ Part(i) <= Part(i + 1)
  BY <1>1, Share
<1>4. percentage \in first..(first + Part(i)) /\ (i = 0 => percentage = first)
  BY <1>2 DEF Upto
<1>5. ASSUME percentage' = Percent(first), i' = i
      PROVE  /\ Upto(first)' /\ percentage' >= percentage
             /\ percentage' \in Nat /\ percentage' < 100
  <2>1. Part(i)' = Part(i)
    BY <1>5 DEF Part
  <2>2. CASE i = 0
    <3>1. percentage' = first
      BY <1>4, <1>5, <2>2 DEF Percent
    <3>2. QED
      BY <1>4, <1>5, <2>2, <3>1 DEF Upto
  <2>3. CASE i # 0
    <3>1. percentage' = first + Part(i)
      BY <1>5, <2>3 DEF Percent, Part
    <3>2. percentage' \in first..(first + Part(i)) /\ percentage' >= percentage
          /\ percentage' \in Nat /\ percentage' < 100
      BY <1>2, <1>4, <3>1
    <3>3. QED
      BY <1>5, <2>1, <2>3, <3>2 DEF Upto
  <2>4. QED
    BY <2>2, <2>3
<1>6. ASSUME percentage' = percentage, i' = i + 1 PROVE Upto(first)'
  <2>1. Part(i)' = Part(i + 1)
    BY <1>6 DEF Part
  <2>2. percentage' \in first..(first + Part(i + 1)) /\ i' # 0
    BY <1>1, <1>2, <1>3, <1>4, <1>6
  <2>3. QED
    BY <2>1, <2>2 DEF Upto
<1>7. QED
  BY <1>5, <1>6

(* The last page of the first loop leaves at most 60.                      *)
LEMMA LoopProgress ==
  ASSUME Control, Fields, NEW first \in {20, 60}, pc \in {"program", "verify"},
         Upto(first)
  PROVE  percentage \in first..(first + 40)
<1>1. Len(file) \in Nat /\ i \in Nat /\ i <= Len(file)
  BY KiflashAssumption DEF Fields, Control
<1>2. CASE i = 0
  BY <1>2 DEF Upto
<1>3. CASE i # 0
  <2>1. Len(file) \in Nat \ {0}
    BY <1>1, <1>3
  <2>2. Part(i) \in Nat /\ Part(i) <= 40
    BY <1>1, <2>1, Share
  <2>3. percentage \in first..(first + Part(i))
    BY <1>3 DEF Upto
  <2>4. QED
    BY <2>2, <2>3
<1>4. QED
  BY <1>2, <1>3

(* The percentage follows the run.                                         *)
LEMMA ProgressStep ==
  ASSUME Control, Control', Turns, Fields, Fields', Progress, [Next]_vars
  PROVE  Progress'
<1>1. CASE [Ordinary]_vars
  <2>1. Created' = Created /\ Newest' = Newest /\ Created \subseteq Workers
    BY <1>1, CreatedStays DEF Created
  <2>2. CASE FlashStep
    BY <2>2, <2>1, OneSide DEF FlashStep, Control, Fields, Turns, Progress,
       Percentages, Upto, Part, storeVars, fieldVars, fileVars, locals, nodeVars
  <2>3. CASE KiflashInit
    BY <2>3, <2>1, OneSide DEF KiflashInit, ResetFlashData, Goto, Control,
       Fields, Turns, Progress, Percentages, Upto, Part, storeVars, fieldVars,
       fileVars, locals, nodeVars
  <2>4. CASE Startup
    BY <2>4, <2>1, OneSide DEF Startup, Enter, Control, Fields, Turns, Progress,
       Percentages, Upto, Part, storeVars, fieldVars, fileVars, locals, nodeVars
  <2>5. CASE StartupBack
    BY <2>5, <2>1, OneSide DEF StartupBack, Back, Goto, Return, Control, Fields,
       Turns, Progress, Percentages, Upto, Part, storeVars, fieldVars, fileVars,
       locals, nodeVars
  <2>6. CASE SetFields
    BY <2>6, <2>1, OneSide DEF SetFields, Goto, Control, Fields, Turns,
       Progress, Percentages, Upto, Part, storeVars, fieldVars, fileVars,
       locals, nodeVars
  <2>7. CASE ProgramUser
    BY <2>7, <2>1, OneSide DEF ProgramUser, Goto, Control, Fields, Turns,
       Progress, Percentages, Upto, Part, storeVars, fieldVars, fileVars,
       locals, nodeVars
  <2>8. CASE EraseSector
    BY <2>8, <2>1, OneSide DEF EraseSector, Enter, Control, Fields, Turns,
       Progress, Percentages, Upto, Part, storeVars, fieldVars, fileVars,
       locals, nodeVars
  <2>9. CASE EraseSectorBack
    BY <2>9, <2>1, OneSide DEF EraseSectorBack, Back, Again, Return, Control,
       Fields, Turns, Progress, Percentages, Upto, Part, storeVars, fieldVars,
       fileVars, locals, nodeVars
  <2>10. CASE EraseEnd
    BY <2>10, <2>1, OneSide DEF EraseEnd, Return, Control, Fields, Turns,
       Progress, Percentages, Upto, Part, storeVars, fieldVars, fileVars,
       locals, nodeVars
  <2>11. CASE FileMissing
    BY <2>11, <2>1, OneSide DEF FileMissing, Return, Control, Fields, Turns,
       Progress, Percentages, Upto, Part, storeVars, fieldVars, fileVars,
       locals, nodeVars
  <2>12. CASE Open
    BY <2>12, <2>1, OneSide DEF Open, Enter, Control, Fields, Turns, Progress,
       Percentages, Upto, Part, storeVars, fieldVars, fileVars, locals, nodeVars
  <2>13. CASE OpenBack
    BY <2>13, <2>1, OneSide DEF OpenBack, Back, Goto, Return, Control, Fields,
       Turns, Progress, Percentages, Upto, Part, storeVars, fieldVars, fileVars,
       locals, nodeVars
  <2>14. CASE ProgramPage
    <3>1. pc = "program" /\ pc' = "program" /\ i < Len(file) /\ file' = file /\ i' = i
          /\ percentage' = Percent(20) /\ verified' = verified
      BY <2>14 DEF ProgramPage, fieldVars, locals
    <3>2. Upto(20)' /\ percentage' \in Nat /\ percentage' < 100
      BY <3>1, PageProgress DEF Progress
    <3>3. percentage' \in Percentages /\ percentage' # 100
      BY <3>2 DEF Percentages
    <3>4. QED
      BY <3>1, <3>2, <3>3 DEF Progress
  <2>15. CASE ProgramPageBack
    <3>1. pc = "program" /\ i < Len(file) /\ percentage' = percentage
          /\ verified' = verified
      BY <2>15 DEF ProgramPageBack, Back, Fields
    <3>2. CASE pc' = "none"
      BY <3>1, <3>2 DEF Progress
    <3>3. CASE pc' = "program" /\ i' = i + 1 /\ file' = file
      <4>1. Upto(20)'
        BY <3>1, <3>3, PageProgress DEF Progress
      <4>2. QED
        BY <3>1, <3>3, <4>1 DEF Progress
    <3>4. QED
      BY <2>15, <3>1, <3>2, <3>3 DEF ProgramPageBack, Again, Return
  <2>16. CASE ProgramEnd
    BY <2>16, <2>1, OneSide, LoopProgress DEF ProgramEnd, Control, Fields,
       Turns, Progress, Percentages, Upto, Part, storeVars, fieldVars, fileVars,
       locals, nodeVars
  <2>17. CASE VerifyPage
    <3>1. pc = "verify" /\ pc' = "verify" /\ i < Len(file) /\ file' = file /\ i' = i
          /\ percentage' = Percent(60) /\ verified' = verified
      BY <2>17 DEF VerifyPage, fieldVars, locals
    <3>2. Upto(60)' /\ percentage' \in Nat /\ percentage' < 100
      BY <3>1, PageProgress DEF Progress
    <3>3. percentage' \in Percentages /\ percentage' # 100
      BY <3>2 DEF Percentages
    <3>4. QED
      BY <3>1, <3>2, <3>3 DEF Progress
  <2>18. CASE VerifyPageBack
    <3>1. pc = "verify" /\ i < Len(file) /\ percentage' = percentage
          /\ verified' = verified
      BY <2>18 DEF VerifyPageBack, Back, Fields
    <3>2. CASE pc' = "none"
      BY <3>1, <3>2 DEF Progress
    <3>3. CASE pc' = "verify" /\ i' = i + 1 /\ file' = file
      <4>1. Upto(60)'
        BY <3>1, <3>3, PageProgress DEF Progress
      <4>2. QED
        BY <3>1, <3>3, <4>1 DEF Progress
    <3>4. QED
      BY <2>18, <3>1, <3>2, <3>3 DEF VerifyPageBack, Again, Return
  <2>19. CASE VerifyEnd
    BY <2>19, <2>1, OneSide DEF VerifyEnd, Goto, Control, Fields, Turns,
       Progress, Percentages, Upto, Part, storeVars, fieldVars, fileVars,
       locals, nodeVars
  <2>20. CASE Icap
    BY <2>20, <2>1, OneSide DEF Icap, Return, Control, Fields, Turns, Progress,
       Percentages, Upto, Part, storeVars, fieldVars, fileVars, locals, nodeVars
  <2>21. ASSUME NEW w \in Workers, Execute(w) PROVE Progress'
    BY <2>21, <2>1, OneSide DEF Execute, At, Move, Control, Fields, Turns,
       Progress, Percentages, Upto, Part, storeVars, fieldVars, fileVars,
       locals, nodeVars
  <2>22. ASSUME NEW w \in Workers, Poll(w) PROVE Progress'
    BY <2>22, <2>1, OneSide DEF Poll, At, Move, Control, Fields, Turns,
       Progress, Percentages, Upto, Part, storeVars, fieldVars, fileVars,
       locals, nodeVars
  <2>23. ASSUME NEW w \in Workers, SendFinal(w) PROVE Progress'
    BY <2>23, <2>1, OneSide DEF SendFinal, At, Move, Control, Fields, Turns,
       Progress, Percentages, Upto, Part, storeVars, fieldVars, fileVars,
       locals, nodeVars
  <2>24. ASSUME NEW w \in Workers, Join(w) PROVE Progress'
    BY <2>24, <2>1, OneSide DEF Join, At, Move, Control, Fields, Turns,
       Progress, Percentages, Upto, Part, storeVars, fieldVars, fileVars,
       locals, nodeVars
  <2>25. ASSUME NEW w \in Workers, HandleProgressCallback(w) PROVE Progress'
    BY <2>25, <2>1, OneSide DEF HandleProgressCallback, At, Control, Fields,
       Turns, Progress, Percentages, Upto, Part, storeVars, fieldVars, fileVars,
       locals, nodeVars
  <2>26. ASSUME NEW w \in Workers, HandleOKCallback(w) PROVE Progress'
    BY <2>26, <2>1, OneSide DEF HandleOKCallback, At, Move, Control, Fields,
       Turns, Progress, Percentages, Upto, Part, storeVars, fieldVars, fileVars,
       locals, nodeVars
  <2>27. CASE IcapInit
    BY <2>27, <2>1, OneSide DEF IcapInit, ResetFlashData, Control, Fields,
       Turns, Progress, Percentages, Upto, Part, storeVars, fieldVars, fileVars,
       locals, nodeVars
  <2>28. CASE IcapStartup
    BY <2>28, <2>1, OneSide DEF IcapStartup, Enter, Control, Fields, Turns,
       Progress, Percentages, Upto, Part, storeVars, fieldVars, fileVars,
       locals, nodeVars
  <2>29. CASE IcapStartupBack
    BY <2>29, <2>1, OneSide DEF IcapStartupBack, Back, Control, Fields, Turns,
       Progress, Percentages, Upto, Part, storeVars, fieldVars, fileVars,
       locals, nodeVars
  <2>30. CASE IcapCalled
    BY <2>30, <2>1, OneSide DEF IcapCalled, Control, Fields, Turns, Progress,
       Percentages, Upto, Part, storeVars, fieldVars, fileVars, locals, nodeVars
  <2>31. CASE UNCHANGED vars
    BY <2>31, <2>1, OneSide DEF vars, Control, Fields, Turns, Progress,
       Percentages, Upto, Part, storeVars, fieldVars, fileVars, locals, nodeVars
  <2>32. QED
    BY <1>1, <2>2, <2>3, <2>4, <2>5, <2>6, <2>7, <2>8, <2>9, <2>10, <2>11,
       <2>12, <2>13, <2>14, <2>15, <2>16, <2>17, <2>18, <2>19, <2>20, <2>21,
       <2>22, <2>23, <2>24, <2>25, <2>26, <2>27, <2>28, <2>29, <2>30, <2>31 DEF
       Ordinary, RunStep, ExecuteStep, MainStep
<1>2. ASSUME NEW w \in Workers, New(w) PROVE Progress'
  BY <1>2, OneSide DEF New, Move, Control, Fields, Turns, Progress, Percentages,
     Upto, Part, storeVars, fieldVars, fileVars, locals, nodeVars
<1>3. CASE ProcessEnd
  BY <1>3, OneSide DEF ProcessEnd, Control, Fields, Turns, Progress,
     Percentages, Upto, Part, storeVars, fieldVars, fileVars, locals, nodeVars
<1>4. QED
  BY <1>1, <1>2, <1>3 DEF Next, Ordinary

-----------------------------------------------------------------------------
(* The messages.                                                           *)

(* What sending a percentage does to the queues.                           *)
LEMMA Sent ==
  ASSUME Messages, NEW w \in Workers, NEW n \in Percentages, SendFactor(w, n)
  PROVE  /\ toNode' \in [Workers -> Seq(Percentages)] /\ signalled' \in [Workers -> BOOLEAN]
         /\ toNode'[w] # <<>> /\ toNode'[w][Len(toNode'[w])] = n
         /\ 100 \in ToSet(toNode'[w]) => 100 \in ToSet(toNode[w]) \/ n = 100
         /\ \A v \in Workers : v # w => toNode'[v] = toNode[v]
<1> DEFINE q == toNode[w]
<1>1. q \in Seq(Percentages) /\ toNode' = [toNode EXCEPT ![w] = Append(q, n)]
  BY DEF Messages, SendFactor
<1>2. toNode'[w] = Append(q, n)
  BY <1>1 DEF Messages
<1>3. Append(q, n) \in Seq(Percentages) /\ Len(Append(q, n)) = Len(q) + 1
      /\ Append(q, n)[Len(q) + 1] = n /\ Append(q, n) # <<>>
  BY <1>1
<1>4. 100 \in ToSet(Append(q, n)) => 100 \in ToSet(q) \/ n = 100
  <2>1. \A k \in 1..(Len(q) + 1) :
          Append(q, n)[k] = IF k = Len(q) + 1 THEN n ELSE q[k]
    BY <1>1
  <2>2. DOMAIN Append(q, n) = 1..(Len(q) + 1) /\ DOMAIN q = 1..Len(q) /\ Len(q) \in Nat
    BY <1>1
  <2>3. QED
    BY <2>1, <2>2 DEF ToSet
<1>5. QED
  BY <1>1, <1>2, <1>3, <1>4 DEF Messages, SendFactor

(* What delivering the messages of a worker does to its queue.             *)
LEMMA Drained ==
  ASSUME Messages, NEW w \in Workers, DrainQueue(w)
  PROVE  /\ toNode' \in [Workers -> Seq(Percentages)] /\ signalled' \in [Workers -> BOOLEAN]
         /\ last' \in [Workers -> Percentages \cup {-1}]
         /\ toNode'[w] = <<>> /\ 100 \notin ToSet(toNode'[w])
         /\ IF toNode[w] = <<>> THEN last'[w] = last[w]
            ELSE /\ last'[w] = toNode[w][Len(toNode[w])]
                 /\ last'[w] \in ToSet(toNode[w])
         /\ \A v \in Workers : v # w => toNode'[v] = toNode[v] /\ last'[v] = last[v]
<1> DEFINE q == toNode[w]
<1>1. q \in Seq(Percentages)
  BY DEF Messages
<1>2. toNode' = [toNode EXCEPT ![w] = <<>>] /\ signalled' = [signalled EXCEPT ![w] = FALSE]
      /\ last' = [last EXCEPT ![w] = IF q = <<>> THEN last[w] ELSE q[Len(q)]]
  BY DEF DrainQueue, Last
<1>3. ASSUME q # <<>> PROVE q[Len(q)] \in Percentages /\ q[Len(q)] \in ToSet(q)
  <2>1. Len(q) \in 1..Len(q) /\ DOMAIN q = 1..Len(q)
    BY <1>1, <1>3
  <2>2. QED
    BY <1>1, <2>1 DEF ToSet
<1>4. 100 \notin ToSet(<< >>)
  BY DEF ToSet
<1>5. QED
  BY <1>1, <1>2, <1>3, <1>4 DEF Messages

(* No other step touches the queues, or takes a result back.               *)
LEMMA NodeStays ==
  ASSUME Control, Turns,
         FlashStep \/ RunStep \/ IcapInit \/ IcapStartup \/ IcapStartupBack \/ IcapCalled
  PROVE  /\ UNCHANGED nodeVars /\ (verified => verified')
         /\ \A w \in Workers : returned[w] # "no" => returned'[w] # "no"
<1> DEFINE Goal ==
      /\ UNCHANGED nodeVars /\ (verified => verified')
      /\ \A w \in Workers : returned[w] # "no" => returned'[w] # "no"
<1>1. CASE FlashStep \/ IcapInit \/ IcapStartup \/ IcapStartupBack \/ IcapCalled
  BY <1>1 DEF FlashStep, IcapInit, IcapStartup, IcapStartupBack, IcapCalled
<1>2. CASE RunStep
  <2>1. UNCHANGED nodeVars /\ (verified => verified')
    BY <1>2 DEF RunStep, KiflashInit, Startup, StartupBack, SetFields,
       ProgramUser, EraseSector, EraseSectorBack, EraseEnd, FileMissing, Open,
       OpenBack, ProgramPage, ProgramPageBack, ProgramEnd, VerifyPage,
       VerifyPageBack, VerifyEnd, Icap
  <2>2. \/ returned' = returned
        \/ \E r \in {"XST_SUCCESS", "XST_FAILURE"} :
             returned' = [returned EXCEPT ![Newest] = r]
    BY <1>2 DEF RunStep, KiflashInit, Startup, StartupBack, SetFields,
       ProgramUser, EraseSector, EraseSectorBack, EraseEnd, FileMissing, Open,
       OpenBack, ProgramPage, ProgramPageBack, ProgramEnd, VerifyPage,
       VerifyPageBack, VerifyEnd, Icap, Goto, Again, Return
  <2>3. QED
    BY <2>1, <2>2 DEF Control
<1>3. QED
  BY <1>1, <1>2

(* A worker is told what it should be.                                     *)
LEMMA MessagesStep ==
  ASSUME Control, Turns, Progress, Messages, [Next]_vars
  PROVE  Messages'
<1>1. CASE FlashStep \/ RunStep \/ IcapInit \/ IcapStartup \/ IcapStartupBack \/ IcapCalled
  BY <1>1, NodeStays DEF Messages, Told, nodeVars
<1>2. ASSUME NEW w \in Workers, Execute(w) PROVE Messages'
  <2>1. SendFactor(w, 0) /\ 0 \in Percentages /\ exec' = [exec EXCEPT ![w] = "poll"]
        /\ N' = [N EXCEPT ![w] = 0] /\ last' = last /\ returned' = returned
        /\ verified' = verified /\ exec[w] = "queued"
    BY <1>2 DEF Execute, At, Move, Percentages
  <2>2. ASSUME NEW v \in Workers PROVE Told(v)'
    BY <2>1, Sent DEF Messages, Told, Control
  <2>3. QED
    BY <2>1, <2>2, Sent DEF Messages
<1>3. ASSUME NEW w \in Workers, Poll(w) PROVE Messages'
  <2>1. SendFactor(w, percentage) /\ percentage \in Percentages
        /\ exec' = [exec EXCEPT ![w] = IF percentage = 100 THEN "final" ELSE "poll"]
        /\ N' = [N EXCEPT ![w] = percentage] /\ last' = last /\ returned' = returned
        /\ verified' = verified /\ (percentage = 100 => verified) /\ exec[w] = "poll"
    BY <1>3 DEF Poll, At, Move, Progress
  <2>2. ASSUME NEW v \in Workers PROVE Told(v)'
    BY <2>1, Sent DEF Messages, Told, Control
  <2>3. QED
    BY <2>1, <2>2, Sent DEF Messages
<1>4. ASSUME NEW w \in Workers, SendFinal(w) PROVE Messages'
  <2>1. SendFactor(w, 100) /\ 100 \in Percentages /\ exec' = [exec EXCEPT ![w] = "join"]
        /\ N' = N /\ last' = last /\ returned' = returned
        /\ verified' = verified /\ exec[w] = "final"
    BY <1>4 DEF SendFinal, At, Move, Percentages
  <2>2. ASSUME NEW v \in Workers PROVE Told(v)'
    BY <2>1, Sent DEF Messages, Told, Control
  <2>3. QED
    BY <2>1, <2>2, Sent DEF Messages
<1>5. ASSUME NEW w \in Workers, Join(w) PROVE Messages'
  BY <1>5 DEF Join, At, Move, Messages, Told, Control
<1>6. ASSUME NEW w \in Workers, HandleProgressCallback(w) PROVE Messages'
  <2>1. DrainQueue(w) /\ exec' = exec /\ N' = N /\ returned' = returned
        /\ verified' = verified /\ exec[w] # "closed"
    BY <1>6 DEF HandleProgressCallback, At
  <2>2. ASSUME NEW v \in Workers PROVE Told(v)'
    BY <2>1, Drained DEF Messages, Told
  <2>3. QED
    BY <2>1, <2>2, Drained DEF Messages
<1>7. ASSUME NEW w \in Workers, HandleOKCallback(w) PROVE Messages'
  <2>1. DrainQueue(w) /\ exec' = [exec EXCEPT ![w] = "closed"] /\ N' = N
        /\ returned' = returned /\ verified' = verified /\ exec[w] = "complete"
    BY <1>7 DEF HandleOKCallback, At, Move
  <2>2. ASSUME NEW v \in Workers PROVE Told(v)'
    BY <2>1, Drained DEF Messages, Told, Control
  <2>3. QED
    BY <2>1, <2>2, Drained DEF Messages
<1>8. ASSUME NEW w \in Workers, New(w) PROVE Messages'
  BY <1>8 DEF New, Move, Messages, Told, Control
<1>9. CASE ProcessEnd
  <2>1. ASSUME NEW w \in Workers PROVE Told(w)'
    BY <1>9 DEF ProcessEnd, Told, ToSet
  <2>2. QED
    BY <1>9, <2>1 DEF ProcessEnd, Messages
<1>10. CASE UNCHANGED vars
  BY <1>10 DEF vars, nodeVars, Messages, Told
<1>11. QED
  BY <1>1, <1>2, <1>3, <1>4, <1>5, <1>6, <1>7, <1>8, <1>9, <1>10 DEF Next,
     ExecuteStep, MainStep

-----------------------------------------------------------------------------
(* The invariant.                                                          *)

(* A process begins in the invariant.                                      *)
LEMMA InitInv ==
  ASSUME Init
  PROVE  Inv
<1>1. Control
  BY DEF Init, Fresh, Control
<1>2. Created = {} /\ Newest = 0
  <2>1. Created = {}
    BY DEF Init, Fresh, Created
  <2>2. QED
    BY <2>1, FS_EmptySet DEF Newest
<1>3. Turns
  BY <1>2 DEF Init, Fresh, Turns, AtRest
<1>4. Fields
  BY DEF Init, Fresh, Fields
<1>5. Calls
  BY SomeData DEF Init, Fresh, StoreInit, Calls, Contents
<1>6. Seen
  BY <1>2 DEF Init, Fresh, Seen, SuccessMeansProgrammed
<1>7. Progress
  BY DEF Init, Fresh, Progress, Percentages
<1>8. Messages
  <2>1. \A w \in Workers : Told(w)
    BY DEF Init, Fresh, Told, ToSet
  <2>2. QED
    BY <2>1 DEF Init, Fresh, Messages
<1>9. QED
  BY <1>1, <1>3, <1>4, <1>5, <1>6, <1>7, <1>8 DEF Inv

(* Every step keeps the invariant, layer by layer.                         *)
LEMMA InvStep ==
  ASSUME ~IcapAnyTime, Inv, [Next]_vars
  PROVE  Inv'
<1>1. Control'
  BY ControlStep DEF Inv
<1>2. Turns'
  BY <1>1, TurnsStep DEF Inv
<1>3. Fields'
  BY <1>1, FieldsStep DEF Inv
<1>4. Calls'
  BY <1>1, <1>3, CallsStep DEF Inv
<1>5. Seen'
  BY <1>1, <1>2, <1>3, <1>4, SeenStep DEF Inv
<1>6. Progress'
  BY <1>1, <1>3, ProgressStep DEF Inv
<1>7. Messages'
  BY <1>1, MessagesStep DEF Inv
<1>8. QED
  BY <1>1, <1>2, <1>3, <1>4, <1>5, <1>6, <1>7 DEF Inv

-----------------------------------------------------------------------------
(* The invariant holds of every behaviour in which icap is called only     *)
(* between two runs.                                                       *)
THEOREM Invariant ==
  ASSUME ~IcapAnyTime
  PROVE  Spec => []Inv
<1>1. Init => Inv
  BY InitInv
<1>2. Inv /\ [Next]_vars => Inv'
  BY InvStep
<1>3. QED
  BY <1>1, <1>2, PTL DEF Spec

(* The calls of the flash layer are calls it has.                          *)
LEMMA JobTyped ==
  ASSUME Inv
  PROVE  job \in Job \cup {NoJob} /\ orphan \in Job \cup {NoJob}
<1>1. job \in RunJobs \cup QuietJobs \cup {NoJob} /\ orphan \in RunJobs \cup {NoJob}
  BY JobKind DEF Inv, Calls
<1>2. QED
  BY <1>1, RunJobKinds, QuietJobKinds

(* Every variable of the addon, the run and the flash keeps its type: no   *)
(* call names a page outside the flash, and the percentage is one.         *)
THEOREM TypeCorrect ==
  ASSUME ~IcapAnyTime
  PROVE  Spec => []TypeOK
<1>1. Inv => TypeOK
  BY JobTyped DEF Inv, Control, Fields, Calls, Progress, Messages, TypeOK
<1>2. QED
  BY <1>1, Invariant, PTL

(* When kiflash_program_user has returned success, the whole image is in   *)
(* the flash and stays there until the next run, after any history of      *)
(* failures and interruptions.                                             *)
THEOREM SuccessProgrammed ==
  ASSUME ~IcapAnyTime
  PROVE  Spec => []SuccessMeansProgrammed
<1>1. Inv => SuccessMeansProgrammed
  BY DEF Inv, Seen
<1>2. QED
  BY <1>1, Invariant, PTL

(* A client is told 100 only if an image has been verified.                *)
THEOREM HundredEarned ==
  ASSUME ~IcapAnyTime
  PROVE  Spec => []HundredIsEarned
<1>1. Inv => HundredIsEarned
  BY DEF Inv, Messages, Told, HundredIsEarned
<1>2. QED
  BY <1>1, Invariant, PTL

(* A worker is closed after its last message, which is 100, and its run.   *)
THEOREM CloseIsLast ==
  ASSUME ~IcapAnyTime
  PROVE  Spec => []ClosesLast
<1>1. Inv => ClosesLast
  BY DEF Inv, Messages, Told, ClosesLast, At
<1>2. QED
  BY <1>1, Invariant, PTL

(* Only the flash changes the flash, and only pages of the user image.     *)
LEMMA KeepsOthers ==
  ASSUME Inv, [Next]_vars
  PROVE  \A p \in Page : store'[p] # store[p] => MayChange(p)
<1>1. CASE FlashStep \/ ProcessEnd
  <2>1. CASE Rest
    BY <2>1 DEF Rest
  <2>2. CASE Apply \/ Succeed \/ Fail("XST_FAILURE") \/ Fail("none") \/ OrphanEnds
    BY <2>2, FlashEffect DEF Inv
  <2>3. QED
    BY <1>1, <2>1, <2>2 DEF FlashStep, ProcessEnd
<1>2. CASE RunStep
  <2>1. store' = store
    BY <1>2 DEF RunStep, KiflashInit, Startup, StartupBack, SetFields,
       ProgramUser, EraseSector, EraseSectorBack, EraseEnd, FileMissing, Open,
       OpenBack, ProgramPage, ProgramPageBack, ProgramEnd, VerifyPage,
       VerifyPageBack, VerifyEnd, Icap, Enter, Begin, Back, storeVars
  <2>2. QED
    BY <2>1
<1>3. ASSUME NEW w \in Workers,
             ExecuteStep(w) \/ HandleProgressCallback(w) \/ HandleOKCallback(w) \/ New(w)
      PROVE  store' = store
  BY <1>3 DEF ExecuteStep, Execute, Poll, SendFinal, Join,
     HandleProgressCallback, HandleOKCallback, New, storeVars
<1>4. CASE IcapCalled \/ IcapInit \/ IcapStartup \/ IcapStartupBack \/ UNCHANGED vars
  <2>1. store' = store
    BY <1>4 DEF IcapCalled, IcapInit, IcapStartup, IcapStartupBack, Enter,
       Begin, Back, vars, storeVars
  <2>2. QED
    BY <2>1
<1>5. QED
  BY <1>1, <1>2, <1>3, <1>4 DEF Next, MainStep

(* No run, however it ends, and nothing it leaves behind changes a page    *)
(* below the user image, or one above it that no image file reaches.       *)
THEOREM KeepsRest ==
  ASSUME ~IcapAnyTime
  PROVE  Spec => OthersKept
<1>1. Inv /\ [Next]_vars => [\A p \in Page : store'[p] # store[p] => MayChange(p)]_vars
  BY KeepsOthers
<1>2. QED
  BY <1>1, Invariant, PTL DEF Spec, OthersKept

(* While a run is in progress the percentage never decreases.              *)
LEMMA GrowsStep ==
  ASSUME Inv, [Next]_vars, pc \notin {"none", "init"},
         exec' # [w \in Workers |-> "none"]
  PROVE  percentage' >= percentage
<1>1. percentage \in Nat /\ js = "idle" /\ Control /\ Fields /\ Progress
  BY OneSide DEF Inv, Progress, Percentages
<1>2. CASE FlashStep \/ IcapCalled \/ UNCHANGED vars
  BY <1>1, <1>2 DEF FlashStep, IcapCalled, vars
<1>3. ASSUME NEW w \in Workers, ExecuteStep(w) \/ New(w)
      PROVE  percentage' >= percentage
  BY <1>1, <1>3 DEF ExecuteStep, Execute, Poll, SendFinal, Join, New
<1>4. CASE MainStep
  BY <1>1, <1>4 DEF MainStep, HandleProgressCallback, HandleOKCallback,
     IcapInit, IcapStartup, IcapStartupBack
<1>5. CASE RunStep
  <2>1. CASE ProgramPage \/ VerifyPage
    <3>1. CASE ProgramPage
      <4>1. percentage' = Percent(20) /\ i' = i /\ file' = file /\ pc = "program"
            /\ i < Len(file)
        BY <3>1 DEF ProgramPage, locals
      <4>2. QED
        BY <1>1, <4>1, PageProgress DEF Progress
    <3>2. CASE VerifyPage
      <4>1. percentage' = Percent(60) /\ i' = i /\ file' = file /\ pc = "verify"
            /\ i < Len(file)
        BY <3>2 DEF VerifyPage
      <4>2. QED
        BY <1>1, <4>1, PageProgress DEF Progress
    <3>3. QED
      BY <2>1, <3>1, <3>2
  <2>2. CASE ProgramEnd
    <3>1. percentage' = 60 /\ pc = "program"
      BY <2>2 DEF ProgramEnd
    <3>2. percentage \in 20..(20 + 40)
      BY <1>1, <3>1, LoopProgress DEF Progress
    <3>3. QED
      BY <3>1, <3>2
  <2>3. CASE SetFields \/ ProgramUser \/ EraseSectorBack \/ EraseEnd \/ VerifyEnd \/ Icap
    BY <1>1, <2>3 DEF SetFields, ProgramUser, EraseSectorBack, EraseEnd,
       VerifyEnd, Icap, Progress, Percentages
  <2>4. CASE \/ Startup \/ StartupBack \/ EraseSector \/ FileMissing \/ Open \/ OpenBack
             \/ ProgramPageBack \/ VerifyPageBack
    BY <1>1, <2>4 DEF Startup, StartupBack, EraseSector, FileMissing, Open,
       OpenBack, ProgramPageBack, VerifyPageBack
  <2>5. CASE KiflashInit
    BY <2>5 DEF KiflashInit
  <2>6. QED
    BY <1>5, <2>1, <2>2, <2>3, <2>4, <2>5 DEF RunStep
<1>6. CASE ProcessEnd
  BY <1>6 DEF ProcessEnd
<1>7. QED
  BY <1>2, <1>3, <1>4, <1>5, <1>6 DEF Next

(* While a run is in progress the percentage never decreases, and it       *)
(* reaches 100 only by a verification.                                     *)
THEOREM Grows ==
  ASSUME ~IcapAnyTime
  PROVE  Spec => PercentageGrows
<1> DEFINE A == (pc \notin {"none", "init"} /\ exec' # [w \in Workers |-> "none"])
                  => percentage' >= percentage /\ (percentage' = 100 => verified')
<1>1. Inv /\ [Next]_vars => A
  <2>1. SUFFICES ASSUME Inv, [Next]_vars, pc \notin {"none", "init"},
                        exec' # [w \in Workers |-> "none"]
                 PROVE  percentage' >= percentage /\ (percentage' = 100 => verified')
    OBVIOUS
  <2>2. Inv'
    BY <2>1, InvStep
  <2>3. QED
    BY <2>1, <2>2, GrowsStep DEF Inv, Progress
<1>2. Inv /\ [Next]_vars => [A]_vars
  BY <1>1
<1>3. QED
  BY <1>2, Invariant, PTL DEF Spec, PercentageGrows
=============================================================================
