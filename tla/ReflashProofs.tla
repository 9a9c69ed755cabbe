---------------------------- MODULE ReflashProofs ----------------------------
(***************************************************************************)
(* Proofs about KiflashCmd.tla, continued: what it means that "Reflash     *)
(* whole device" ended without an error, for every flash, layout, set of   *)
(* directories and of options, as long as erasing timer2 leaves timer1's   *)
(* image alone.                                                            *)
(*                                                                         *)
(* The option is followed task by task.  Once an image has been verified,  *)
(* nothing is outstanding, and none of the calls that come after it is     *)
(* about one of its pages.                                                 *)
(***************************************************************************)
EXTENDS KiflashCmdProofs

-----------------------------------------------------------------------------
(* How many tasks are left once the image of a region has been verified,   *)
(* and how many tasks a region has.                                        *)
Left  == [timer1 |-> 10, timer2 |-> 6, golden |-> 3, user |-> 0]
Steps == [timer1 |-> 4, timer2 |-> 4, golden |-> 3, user |-> 3]

(* The pages of region r's image, and that call j changes none of them.    *)
Image(r)    == ImagePages(Regions[r].file, Regions[r].base)
Clear(j, r) == j # NoJob => Target(j) \cap Image(r) = {}

(* What is left are the last tasks of Reflash, and FlashData has the       *)
(* region that they are at.                                                *)
Remaining ==
  /\ Len(todo) <= 18
  /\ \A i \in 1..Len(todo) : todo[i] = Reflash[18 - Len(todo) + i]
  /\ \A r \in DOMAIN Regions :
       Len(todo) \in (Left[r] + 1)..(Left[r] + Steps[r] - 1) => flash = Regions[r]

(* The images verified so far are in the flash, and neither the call in    *)
(* progress nor an orphan is about to change them.                         *)
Kept(r) == Present(r) /\ Clear(job, r) /\ Clear(orphan, r)

Verified ==
  ImagesApart /\ (todo # <<>> \/ Status = "XST_SUCCESS") =>
    \A r \in DOMAIN Regions : Len(todo) <= Left[r] => Kept(r)

ReflashInv == option.name = "reflash" => Remaining /\ Verified

-----------------------------------------------------------------------------
(* The tasks of the option.                                                *)
LEMMA RegionNames == DOMAIN Regions = {"golden", "timer1", "user", "timer2"}
BY CmdAssumption

LEMMA ReflashTasks ==
  /\ Len(Reflash) = 18
  /\ \A i \in 1..4 : Reflash[i].do = "call"
  /\ Reflash[5] = Set("timer1") /\ Reflash[9] = Set("timer2")
  /\ Reflash[13] = Set("golden") /\ Reflash[16] = Set("user")
  /\ \A i \in {6, 10} : Reflash[i] = EraseAll
  /\ \A i \in {7, 11, 14, 17} : Reflash[i] = ProgramBin
  /\ \A i \in {8, 12, 15, 18} : Reflash[i] = VerifyBin
<1> DEFINE d0 == Call(DieErase(0))
           d1 == Call(DieErase(1))
           d2 == Call(DieErase(2))
           d3 == Call(DieErase(3))
           T == {d0, d1, d2, d3, EraseAll, ProgramBin, VerifyBin}
                \cup {Set("timer1"), Set("timer2"), Set("golden"), Set("user")}
           dies == <<d0, d1, d2, d3>>
           e1 == EraseAndProgram("timer1")
           e2 == EraseAndProgram("timer2")
           e3 == ProgramAndVerify("golden")
           e4 == ProgramAndVerify("user")
           a == dies \o e1
           b == a \o e2
           c == b \o e3
           R == c \o e4
<1>1. Reflash = R
  BY DEF Reflash
<1>2. d0.do = "call" /\ d1.do = "call" /\ d2.do = "call" /\ d3.do = "call"
  BY DEF Call
<1>3. /\ {d0, d1, d2, d3, EraseAll, ProgramBin, VerifyBin} \subseteq T
      /\ {Set("timer1"), Set("timer2"), Set("golden"), Set("user")} \subseteq T
  OBVIOUS
<1> HIDE DEF d0, d1, d2, d3, T
<1>4. dies \in Seq(T) /\ Len(dies) = 4 /\ \A i \in 1..4 : dies[i].do = "call"
  BY <1>2, <1>3
<1>5. /\ e1 \in Seq(T) /\ Len(e1) = 4 /\ e1[1] = Set("timer1") /\ e1[2] = EraseAll
      /\ e1[3] = ProgramBin /\ e1[4] = VerifyBin
      /\ e2 \in Seq(T) /\ Len(e2) = 4 /\ e2[1] = Set("timer2") /\ e2[2] = EraseAll
      /\ e2[3] = ProgramBin /\ e2[4] = VerifyBin
  BY <1>3 DEF EraseAndProgram
<1>6. /\ e3 \in Seq(T) /\ Len(e3) = 3 /\ e3[1] = Set("golden")
      /\ e3[2] = ProgramBin /\ e3[3] = VerifyBin
      /\ e4 \in Seq(T) /\ Len(e4) = 3 /\ e4[1] = Set("user")
      /\ e4[2] = ProgramBin /\ e4[3] = VerifyBin
  BY <1>3 DEF ProgramAndVerify
<1> HIDE DEF dies, e1, e2, e3, e4
<1>7. /\ a \in Seq(T) /\ Len(a) = 8 /\ (\A i \in 1..4 : a[i] = dies[i])
      /\ \A i \in 1..4 : a[i + 4] = e1[i]
  <2>1. dies \in Seq(T) /\ e1 \in Seq(T)
    BY <1>4, <1>5
  <2>2. /\ a \in Seq(T) /\ Len(a) = Len(dies) + Len(e1)
        /\ \A i \in 1..(Len(dies) + Len(e1)) :
             a[i] = IF i <= Len(dies) THEN dies[i] ELSE e1[i - Len(dies)]
    BY <2>1, ConcatProperties
  <2>3. Len(dies) = 4 /\ Len(e1) = 4
    BY <1>4, <1>5
  <2> HIDE DEF a
  <2>4. \A i \in 1..4 : a[i] = dies[i]
    BY <2>2, <2>3
  <2>5. ASSUME NEW i \in 1..4 PROVE a[i + 4] = e1[i]
    BY <2>2, <2>3
  <2>6. QED
    BY <2>2, <2>3, <2>4, <2>5
<1> HIDE DEF a
<1>8. /\ b \in Seq(T) /\ Len(b) = 12 /\ (\A i \in 1..8 : b[i] = a[i])
      /\ \A i \in 1..4 : b[i + 8] = e2[i]
  <2>1. a \in Seq(T) /\ e2 \in Seq(T)
    BY <1>5, <1>7
  <2>2. /\ b \in Seq(T) /\ Len(b) = Len(a) + Len(e2)
        /\ \A i \in 1..(Len(a) + Len(e2)) :
             b[i] = IF i <= Len(a) THEN a[i] ELSE e2[i - Len(a)]
    BY <2>1, ConcatProperties
  <2>3. Len(a) = 8 /\ Len(e2) = 4
    BY <1>5, <1>7
  <2> HIDE DEF b
  <2>4. \A i \in 1..8 : b[i] = a[i]
    BY <2>2, <2>3
  <2>5. ASSUME NEW i \in 1..4 PROVE b[i + 8] = e2[i]
    BY <2>2, <2>3
  <2>6. QED
    BY <2>2, <2>3, <2>4, <2>5
<1> HIDE DEF b
<1>9. /\ c \in Seq(T) /\ Len(c) = 15 /\ (\A i \in 1..12 : c[i] = b[i])
      /\ \A i \in 1..3 : c[i + 12] = e3[i]
  <2>1. b \in Seq(T) /\ e3 \in Seq(T)
    BY <1>6, <1>8
  <2>2. /\ c \in Seq(T) /\ Len(c) = Len(b) + Len(e3)
        /\ \A i \in 1..(Len(b) + Len(e3)) :
             c[i] = IF i <= Len(b) THEN b[i] ELSE e3[i - Len(b)]
    BY <2>1, ConcatProperties
  <2>3. Len(b) = 12 /\ Len(e3) = 3
    BY <1>6, <1>8
  <2> HIDE DEF c
  <2>4. \A i \in 1..12 : c[i] = b[i]
    BY <2>2, <2>3
  <2>5. ASSUME NEW i \in 1..3 PROVE c[i + 12] = e3[i]
    BY <2>2, <2>3
  <2>6. QED
    BY <2>2, <2>3, <2>4, <2>5
<1> HIDE DEF c
<1>10. /\ R \in Seq(T) /\ Len(R) = 18 /\ (\A i \in 1..15 : R[i] = c[i])
      /\ \A i \in 1..3 : R[i + 15] = e4[i]
  <2>1. c \in Seq(T) /\ e4 \in Seq(T)
    BY <1>6, <1>9
  <2>2. /\ R \in Seq(T) /\ Len(R) = Len(c) + Len(e4)
        /\ \A i \in 1..(Len(c) + Len(e4)) :
             R[i] = IF i <= Len(c) THEN c[i] ELSE e4[i - Len(c)]
    BY <2>1, ConcatProperties
  <2>3. Len(c) = 15 /\ Len(e4) = 3
    BY <1>6, <1>9
  <2> HIDE DEF R
  <2>4. \A i \in 1..15 : R[i] = c[i]
    BY <2>2, <2>3
  <2>5. ASSUME NEW i \in 1..3 PROVE R[i + 15] = e4[i]
    BY <2>2, <2>3
  <2>6. QED
    BY <2>2, <2>3, <2>4, <2>5
<1> HIDE DEF R
<1>11. \A i \in 1..4 : R[i] = dies[i]
  BY <1>7, <1>8, <1>9, <1>10
<1>12. \A i \in 1..4 : R[i + 4] = e1[i]
  BY <1>7, <1>8, <1>9, <1>10
<1>13. \A i \in 1..4 : R[i + 8] = e2[i]
  BY <1>8, <1>9, <1>10
<1>14. \A i \in 1..3 : R[i + 12] = e3[i]
  BY <1>9, <1>10
<1>15. \A i \in 1..3 : R[i + 15] = e4[i]
  BY <1>10
<1>16. /\ R[5] = Set("timer1") /\ R[6] = EraseAll
       /\ R[7] = ProgramBin /\ R[8] = VerifyBin
  <2>1. R[1 + 4] = Set("timer1") /\ R[2 + 4] = EraseAll
        /\ R[3 + 4] = ProgramBin /\ R[4 + 4] = VerifyBin
    BY <1>5, <1>12
  <2>2. QED
    BY <2>1
<1>17. /\ R[9] = Set("timer2") /\ R[10] = EraseAll
       /\ R[11] = ProgramBin /\ R[12] = VerifyBin
  <2>1. R[1 + 8] = Set("timer2") /\ R[2 + 8] = EraseAll
        /\ R[3 + 8] = ProgramBin /\ R[4 + 8] = VerifyBin
    BY <1>5, <1>13
  <2>2. QED
    BY <2>1
<1>18. R[13] = Set("golden") /\ R[14] = ProgramBin /\ R[15] = VerifyBin
  <2>1. R[1 + 12] = Set("golden") /\ R[2 + 12] = ProgramBin
        /\ R[3 + 12] = VerifyBin
    BY <1>6, <1>14
  <2>2. QED
    BY <2>1
<1>19. R[16] = Set("user") /\ R[17] = ProgramBin /\ R[18] = VerifyBin
  <2>1. R[1 + 15] = Set("user") /\ R[2 + 15] = ProgramBin
        /\ R[3 + 15] = VerifyBin
    BY <1>6, <1>15
  <2>2. QED
    BY <2>1
<1>20. \A i \in 1..4 : R[i].do = "call"
  BY <1>4, <1>11
<1>21. QED
  BY <1>1, <1>10, <1>16, <1>17, <1>18, <1>19, <1>20

(* The numbers of the four regions.                                        *)
LEMMA Counts ==
  /\ \A r \in DOMAIN Regions : Left[r] \in 0..10 /\ Steps[r] \in {3, 4}
  /\ \A r, q \in DOMAIN Regions : Left[r] = Left[q] => r = q
  /\ Left["timer1"] = 10 /\ Left["timer2"] = 6 /\ Left["golden"] = 3 /\ Left["user"] = 0
  /\ Steps["timer1"] = 4 /\ Steps["timer2"] = 4 /\ Steps["golden"] = 3 /\ Steps["user"] = 3
BY RegionNames DEF Left, Steps

(* What the task in progress does, by the number of tasks that are left.   *)
LEMMA AtTask ==
  ASSUME Inv, Remaining, todo # <<>>
  PROVE  /\ Len(todo) \in 1..18
         /\ Doing("set") => \E r \in DOMAIN Regions :
              Task.to = Regions[r] /\ Len(todo) = Left[r] + Steps[r]
         /\ \A r \in DOMAIN Regions : Len(todo) = Left[r] + Steps[r] =>
              Doing("set") /\ Task.to = Regions[r]
         /\ Doing("call") => Len(todo) \in 15..18
         /\ Doing("erase") => Len(todo) \in {13, 9}
         /\ Doing("program") => ~Task.fixed
              /\ \E r \in DOMAIN Regions : Len(todo) = Left[r] + 2 /\ flash = Regions[r]
         /\ Doing("verify") => ~Task.fixed
              /\ \E r \in DOMAIN Regions : Len(todo) = Left[r] + 1 /\ flash = Regions[r]
         /\ \A r \in DOMAIN Regions : Len(todo) = Left[r] + 1 => Doing("verify")
<1> DEFINE n == Len(todo)
<1>1. n \in 1..18 /\ Task = todo[1]
  <2>1. Len(todo) \in Nat \ {0} /\ Task = todo[1]
    BY FirstTask DEF Inv
  <2>2. n <= 18
    BY DEF Remaining
  <2>3. n \in Nat \ {0}
    BY <2>1
  <2> HIDE DEF n
  <2>4. n \in 1..18
    BY <2>2, <2>3
  <2>5. QED
    BY <2>1, <2>4
<1>2. Task = Reflash[19 - n]
  <2>1. todo[1] = Reflash[18 - n + 1]
    BY <1>1 DEF Remaining
  <2>2. 18 - n + 1 = 19 - n
    BY <1>1
  <2>3. QED
    BY <1>1, <2>1, <2>2
<1>3. \A r \in DOMAIN Regions :
        n \in (Left[r] + 1)..(Left[r] + Steps[r] - 1) => flash = Regions[r]
  BY DEF Remaining
<1>4. /\ EraseAll.do = "erase" /\ ProgramBin.do = "program" /\ VerifyBin.do = "verify"
      /\ ~ProgramBin.fixed /\ ~VerifyBin.fixed
  BY DEF EraseAll, ProgramBin, VerifyBin
<1>5. \A r : Set(r).do = "set" /\ Set(r).to = Regions[r]
  BY DEF Set
<1>6. Doing("set") <=> Task.do = "set"
  BY DEF Doing
<1>7. Doing("erase") <=> Task.do = "erase"
  BY DEF Doing
<1>8. Doing("program") <=> Task.do = "program"
  BY DEF Doing
<1>9. Doing("verify") <=> Task.do = "verify"
  BY DEF Doing
<1>10. Doing("call") <=> Task.do = "call"
  BY DEF Doing
<1> HIDE DEF n
<1>11. CASE n \in 15..18
  <2>1. 19 - n \in 1..4
    BY <1>11
  <2>2. Task.do = "call"
    BY <1>2, <2>1, ReflashTasks
  <2>3. \A r \in DOMAIN Regions : n # Left[r] + 1 /\ n # Left[r] + Steps[r]
    BY <1>11, Counts, RegionNames
  <2>4. QED
    BY <1>1, <1>6, <1>7, <1>8, <1>9, <1>11, <1>10, <2>2, <2>3 DEF n
<1>12. CASE n \in {14, 10, 6, 3}
  <2>1. PICK r \in DOMAIN Regions : n = Left[r] + Steps[r] /\ Task = Set(r)
    <3>1. CASE n = 14
      <4>1. Task = Set("timer1")
        BY <1>2, <3>1, ReflashTasks
      <4>2. QED
        BY <3>1, <4>1, Counts, RegionNames
    <3>2. CASE n = 10
      <4>1. Task = Set("timer2")
        BY <1>2, <3>2, ReflashTasks
      <4>2. QED
        BY <3>2, <4>1, Counts, RegionNames
    <3>3. CASE n = 6
      <4>1. Task = Set("golden")
        BY <1>2, <3>3, ReflashTasks
      <4>2. QED
        BY <3>3, <4>1, Counts, RegionNames
    <3>4. CASE n = 3
      <4>1. Task = Set("user")
        BY <1>2, <3>4, ReflashTasks
      <4>2. QED
        BY <3>4, <4>1, Counts, RegionNames
    <3>5. QED
      BY <1>12, <3>1, <3>2, <3>3, <3>4
  <2>2. Task.do = "set" /\ Task.to = Regions[r]
    BY <1>5, <2>1
  <2>3. \A q \in DOMAIN Regions :
          n # Left[q] + 1 /\ (n = Left[q] + Steps[q] => q = r)
    BY <1>12, <2>1, Counts, RegionNames
  <2>4. QED
    BY <1>1, <1>6, <1>7, <1>8, <1>9, <1>10, <2>1, <2>2, <2>3 DEF n
<1>13. CASE n \in {13, 9}
  <2>1. 19 - n \in {6, 10}
    BY <1>13
  <2>2. Task.do = "erase"
    BY <1>2, <1>4, <2>1, ReflashTasks
  <2>3. \A q \in DOMAIN Regions : n # Left[q] + 1 /\ n # Left[q] + Steps[q]
    BY <1>13, Counts, RegionNames
  <2>4. QED
    BY <1>1, <1>6, <1>7, <1>8, <1>9, <1>10, <1>13, <2>2, <2>3 DEF n
<1>14. CASE n \in {12, 8, 5, 2}
  <2>1. 19 - n \in {7, 11, 14, 17}
    BY <1>14
  <2>2. Task.do = "program" /\ ~Task.fixed
    BY <1>2, <1>4, <2>1, ReflashTasks
  <2>3. PICK r \in DOMAIN Regions : n = Left[r] + 2
    BY <1>14, Counts, RegionNames
  <2>4. flash = Regions[r]
    BY <1>3, <2>3, Counts
  <2>5. \A q \in DOMAIN Regions : n # Left[q] + 1 /\ n # Left[q] + Steps[q]
    BY <1>14, Counts, RegionNames
  <2>6. QED
    BY <1>1, <1>6, <1>7, <1>8, <1>9, <1>10, <2>2, <2>3, <2>4, <2>5 DEF n
<1>15. CASE n \in {11, 7, 4, 1}
  <2>1. 19 - n \in {8, 12, 15, 18}
    BY <1>15
  <2>2. Task.do = "verify" /\ ~Task.fixed
    BY <1>2, <1>4, <2>1, ReflashTasks
  <2>3. PICK r \in DOMAIN Regions : n = Left[r] + 1
    BY <1>15, Counts, RegionNames
  <2>4. flash = Regions[r]
    BY <1>3, <2>3, Counts
  <2>5. \A q \in DOMAIN Regions : n # Left[q] + Steps[q]
    BY <1>15, Counts, RegionNames
  <2>6. QED
    BY <1>1, <1>6, <1>7, <1>8, <1>9, <1>10, <2>2, <2>3, <2>4, <2>5 DEF n
<1>16. n \in (15..18) \cup {14, 10, 6, 3} \cup {13, 9} \cup {12, 8, 5, 2} \cup {11, 7, 4, 1}
  BY <1>1 DEF n
<1>17. QED
  BY <1>11, <1>12, <1>13, <1>14, <1>15, <1>16

-----------------------------------------------------------------------------
(* The images.                                                             *)

(* Their pages are pages of the flash.                                     *)
LEMMA ImagePlaced ==
  ASSUME Control, NEW r \in DOMAIN Regions, Regions[r].file \in DOMAIN disk
  PROVE  \A n \in 1..Len(disk[Regions[r].file]) :
           PageAt(Regions[r].base + n - 1) \in Page \cap Image(r)
<1> DEFINE image == disk[Regions[r].file]
           b == Regions[r].base
           L == Len(image)
<1>1. disk \in Disks
  BY DEF Control
<1>2. image \in Seq((SUBSET Data) \ {{}}) /\ b \in Nat /\ b + L <= Capacity
  BY <1>1, CmdAssumption
<1>3. L \in Nat /\ DOMAIN image = 1..L
  BY <1>2
<1>4. Image(r) = {PageAt(b + n - 1) : n \in 1..L}
  BY <1>3 DEF Image, ImagePages
<1> HIDE DEF b, L
<1>5. ASSUME NEW n \in 1..L PROVE PageAt(b + n - 1) \in Page \cap Image(r)
  <2>1. b + n - 1 \in Nat /\ b + n - 1 < Capacity
    BY <1>2, <1>3, CapacityIsNat
  <2>2. PageAt(b + n - 1) \in Page
    BY <2>1, PageInFlash
  <2>3. QED
    BY <1>4, <2>2
<1>6. QED
  BY <1>5 DEF b, L

LEMMA SameImages ==
  ASSUME disk' = disk
  PROVE  /\ \A r \in DOMAIN Regions : Image(r)' = Image(r)
         /\ ImagesApart' = ImagesApart
BY DEF Image, ImagePages, ImagesApart

(* What the call in progress and an orphan change is not the image.        *)
LEMMA PresentStays ==
  ASSUME Control, NEW r \in DOMAIN Regions, Kept(r), disk' = disk,
         \A p \in Page : store'[p] # store[p] =>
           (job # NoJob /\ p \in Target(job)) \/ (orphan # NoJob /\ p \in Target(orphan))
  PROVE  Present(r)'
<1>1. Present(r) /\ Clear(job, r) /\ Clear(orphan, r)
  BY DEF Kept
<1>2. Regions[r].file \in DOMAIN disk
  BY <1>1 DEF Present
<1>3. ASSUME NEW n \in 1..Len(disk[Regions[r].file])
      PROVE  store'[PageAt(Regions[r].base + n - 1)] \in disk[Regions[r].file][n]
  <2> DEFINE p == PageAt(Regions[r].base + n - 1)
  <2>1. p \in Page /\ p \in Image(r)
    BY <1>2, ImagePlaced
  <2>2. store[p] \in disk[Regions[r].file][n]
    BY <1>1 DEF Present
  <2> HIDE DEF p
  <2>3. store'[p] = store[p]
    BY <1>1, <2>1 DEF Clear
  <2>4. QED
    BY <2>2, <2>3 DEF p
<1>4. QED
  BY <1>2, <1>3 DEF Present

-----------------------------------------------------------------------------
(* The steps.                                                              *)

(* Nothing that the invariant is about changes.                            *)
LEMMA SameReflash ==
  ASSUME ReflashInv, UNCHANGED <<store, job, orphan, flash, disk, Status, option, todo>>
  PROVE  ReflashInv'
<1>1. Remaining' = Remaining
  BY DEF Remaining
<1>2. \A r \in DOMAIN Regions : Kept(r)' = Kept(r)
  BY DEF Kept, Clear, Image, ImagePages, Present
<1>3. Verified' = Verified
  BY <1>2, SameImages DEF Verified
<1>4. QED
  BY <1>1, <1>3 DEF ReflashInv

(* What the flash does in a call, or to an orphan.                         *)
LEMMA FlashReflash ==
  ASSUME Inv, ReflashInv, FlashStep
  PROVE  ReflashInv'
<1>1. /\ Apply \/ Succeed \/ Fail("XST_FAILURE") \/ OrphanEnds
      /\ UNCHANGED <<phase, flash, disk, Status, option, todo, k, file, buffer, inCall>>
  BY DEF FlashStep, taskVars
<1>2. job' \in {job, NoJob} /\ orphan' \in {orphan, job, NoJob}
  BY <1>1 DEF Apply, Succeed, Fail, OrphanEnds
<1>3. \A p \in Page : store'[p] # store[p] =>
        (job # NoJob /\ p \in Target(job)) \/ (orphan # NoJob /\ p \in Target(orphan))
  BY <1>1, FlashEffect DEF Inv, Calls
<1>4. ASSUME NEW r \in DOMAIN Regions, Kept(r) PROVE Kept(r)'
  <2>1. Present(r)'
    BY <1>1, <1>3, <1>4, PresentStays DEF Inv
  <2>2. Clear(job, r) /\ Clear(orphan, r)
    BY <1>4 DEF Kept
  <2>3. Image(r)' = Image(r)
    BY <1>1, SameImages
  <2>4. Clear(job, r)' /\ Clear(orphan, r)'
    BY <1>2, <2>2, <2>3 DEF Clear, Target
  <2>5. QED
    BY <2>1, <2>4 DEF Kept
<1>5. Remaining' = Remaining
  BY <1>1 DEF Remaining
<1>6. Verified => Verified'
  BY <1>1, <1>4, SameImages DEF Verified
<1>7. QED
  BY <1>1, <1>5, <1>6 DEF ReflashInv

(* A call begins that is about no page of an image verified before.        *)
LEMMA EnterReflash ==
  ASSUME Inv, ReflashInv, NEW j, Enter(j),
         option.name = "reflash" /\ Remaining /\ ImagesApart =>
           \A r \in DOMAIN Regions : Len(todo) <= Left[r] => Target(j) \cap Image(r) = {}
  PROVE  ReflashInv'
<1>1. /\ job' = j /\ UNCHANGED <<store, orphan, flash, disk, Status, option, todo>>
  BY DEF Enter, Begin
<1>2. Remaining' = Remaining
  BY <1>1 DEF Remaining
<1>3. ASSUME NEW r \in DOMAIN Regions, Kept(r), Target(j) \cap Image(r) = {} PROVE Kept(r)'
  <2>1. Image(r)' = Image(r)
    BY <1>1, SameImages
  <2>2. Present(r)'
    BY <1>1, <1>3 DEF Kept, Present
  <2>3. Clear(orphan, r)'
    BY <1>1, <1>3, <2>1 DEF Kept, Clear, Target
  <2>4. Clear(job, r)'
    BY <1>1, <1>3, <2>1 DEF Clear, Target
  <2>5. QED
    BY <2>2, <2>3, <2>4 DEF Kept
<1>4. ASSUME option.name = "reflash", Remaining, Verified PROVE Verified'
  <2>1. SUFFICES ASSUME ImagesApart, todo # <<>> \/ Status = "XST_SUCCESS",
                        NEW r \in DOMAIN Regions, Len(todo) <= Left[r]
                 PROVE  Kept(r)'
    BY <1>1, SameImages DEF Verified
  <2>2. Kept(r)
    BY <1>4, <2>1 DEF Verified
  <2>3. Target(j) \cap Image(r) = {}
    BY <1>4, <2>1
  <2>4. QED
    BY <1>3, <2>2, <2>3
<1>5. QED
  BY <1>1, <1>2, <1>4 DEF ReflashInv

(* A task ends; if it is a verification that passed, its image is there.   *)
LEMMA TaskReflash ==
  ASSUME Inv, ReflashInv, todo # <<>>, NEW ok \in BOOLEAN, TaskEnds(ok), job = NoJob,
         FlashAfter, UNCHANGED <<storeVars, disk, option>>,
         ok /\ Doing("verify") =>
           orphan = NoJob /\ \A r \in DOMAIN Regions : flash = Regions[r] => Present(r)
  PROVE  ReflashInv'
<1>1. /\ UNCHANGED <<store, job, orphan, disk, option>>
      /\ FlashAfter
  BY DEF storeVars
<1> SUFFICES ASSUME option.name = "reflash", Remaining, Verified
             PROVE  Remaining' /\ Verified'
  BY <1>1 DEF ReflashInv
<1>2. CASE ok = FALSE
  <2>1. todo' = <<>> /\ Status' = "XST_FAILURE"
    BY <1>2 DEF TaskEnds, Finish, StatusAfter
  <2>2. Len(todo') = 0
    BY <2>1
  <2>3. \A r \in DOMAIN Regions : 0 \notin (Left[r] + 1)..(Left[r] + Steps[r] - 1)
    BY Counts
  <2>4. Remaining'
    BY <2>2, <2>3 DEF Remaining
  <2>5. Verified'
    BY <2>1 DEF Verified
  <2>6. QED
    BY <2>4, <2>5
<1>3. CASE ok = TRUE
  <2> DEFINE n == Len(todo)
  <2>1. todo' = Tail(todo)
    BY <1>3 DEF TaskEnds, Finish
  <2>2. n \in 1..18
    BY AtTask
  <2>3. Len(todo') = n - 1 /\ \A i \in 1..(n - 1) : todo'[i] = todo[i + 1]
    <3>1. todo \in Seq(TaskSet)
      BY DEF Inv, Plan
    <3>2. QED
      BY <2>1, <2>2, <3>1
  <2>4. ASSUME NEW i \in 1..(n - 1) PROVE todo'[i] = Reflash[18 - (n - 1) + i]
    <3>1. i + 1 \in 1..n /\ 18 - n + (i + 1) = 18 - (n - 1) + i
      BY <2>2
    <3>2. todo[i + 1] = Reflash[18 - n + (i + 1)]
      BY <3>1 DEF Remaining
    <3>3. QED
      BY <2>3, <3>1, <3>2
  <2>5. ASSUME NEW r \in DOMAIN Regions, n - 1 \in (Left[r] + 1)..(Left[r] + Steps[r] - 1)
        PROVE  flash' = Regions[r]
    <3>1. CASE n = Left[r] + Steps[r]
      <4>1. Doing("set") /\ Task.to = Regions[r]
        BY <3>1, AtTask
      <4>2. QED
        BY <1>1, <4>1 DEF FlashAfter
    <3>2. CASE n # Left[r] + Steps[r]
      <4>1. n \in (Left[r] + 1)..(Left[r] + Steps[r] - 1)
        <5> DEFINE a == Left[r]
                   b == Steps[r]
        <5>1. a \in Nat /\ b \in Nat
          BY Counts
        <5>2. n \in Nat /\ n - 1 \in (a + 1)..(a + b - 1) /\ n # a + b
          BY <2>2, <2>5, <3>2
        <5> HIDE DEF n, a, b
        <5>3. n \in (a + 1)..(a + b - 1)
          BY <5>1, <5>2
        <5>4. QED
          BY <5>3 DEF a, b
      <4>2. flash = Regions[r]
        BY <4>1 DEF Remaining
      <4>3. ~Doing("set")
        <5>1. Doing("set") => \E q \in DOMAIN Regions : n = Left[q] + Steps[q]
          BY AtTask
        <5> HIDE DEF n
        <5>2. \A q \in DOMAIN Regions : n # Left[q] + Steps[q]
          BY <2>2, <3>2, <4>1, Counts, RegionNames
        <5>3. QED
          BY <5>1, <5>2
      <4>4. QED
        BY <1>1, <4>2, <4>3 DEF FlashAfter
    <3>3. QED
      BY <3>1, <3>2
  <2>6. Remaining'
    <3>1. n - 1 <= 18
      <4> HIDE DEF n
      <4>1. QED
        BY <2>2
    <3>2. QED
      BY <2>3, <2>4, <2>5, <3>1 DEF Remaining
  <2>7. ASSUME ImagesApart, NEW r \in DOMAIN Regions, n - 1 <= Left[r] PROVE Kept(r)
    <3>1. CASE n <= Left[r]
      BY <2>7, <3>1 DEF Verified
    <3>2. CASE ~(n <= Left[r])
      <4>1. n = Left[r] + 1
        BY <2>2, <2>7, <3>2, Counts
      <4>2. Doing("verify")
        BY <4>1, AtTask
      <4>3. PICK q \in DOMAIN Regions : n = Left[q] + 1 /\ flash = Regions[q]
        BY <4>2, AtTask
      <4>4. q = r
        BY <4>1, <4>3, Counts
      <4>5. Present(r) /\ orphan = NoJob
        BY <1>3, <4>2, <4>3, <4>4
      <4>6. QED
        BY <4>5 DEF Kept, Clear
    <3>3. QED
      BY <3>1, <3>2
  <2>8. Verified'
    <3>1. SUFFICES ASSUME ImagesApart, NEW r \in DOMAIN Regions, n - 1 <= Left[r]
                   PROVE  Kept(r)'
      BY <1>1, <2>3, SameImages DEF Verified
    <3>2. Kept(r)
      BY <2>7, <3>1
    <3>3. QED
      BY <1>1, <3>2 DEF Kept, Present, Clear, Image, ImagePages
  <2>9. QED
    BY <2>6, <2>8
<1>4. QED
  BY <1>2, <1>3

(* Tasks that are no verification.                                         *)
LEMMA OtherTaskReflash ==
  ASSUME Inv, ReflashInv, todo # <<>>, NEW ok \in BOOLEAN, TaskEnds(ok), job = NoJob,
         FlashAfter, UNCHANGED <<storeVars, disk, option>>, ~(ok /\ Doing("verify"))
  PROVE  ReflashInv'
BY TaskReflash

(* A turn of a loop ends.                                                  *)
LEMMA TurnReflash ==
  ASSUME Inv, ReflashInv, NEW ok \in BOOLEAN, TurnEnds(ok), Back,
         todo # <<>>, ~Doing("set")
  PROVE  ReflashInv'
<1>1. job = NoJob /\ UNCHANGED <<storeVars, flash, disk, option>>
  BY DEF Back
<1>2. CASE ok = TRUE
  BY <1>1, <1>2, SameReflash DEF TurnEnds, storeVars
<1>3. CASE ok = FALSE
  <2>1. TaskEnds(FALSE)
    BY <1>3 DEF TurnEnds
  <2>2. FlashAfter
    BY <1>1 DEF FlashAfter
  <2>3. QED
    BY <1>1, <2>1, <2>2, OtherTaskReflash
<1>4. QED
  BY <1>2, <1>3

(* The verification of an image has seen all of it (qspi_verify_bin).      *)
LEMMA PagesEndReflash ==
  ASSUME Inv, ReflashInv, PagesEnd
  PROVE  ReflashInv'
<1>1. /\ Looping /\ todo # <<>> /\ ~Doing("set") /\ inCall = FALSE /\ k = Len(file) + 1
      /\ UNCHANGED <<storeVars, disk, option, flash>> /\ TaskEnds(TRUE)
  BY DEF PagesEnd, Looping, Doing, Inv, Control
<1>2. FlashAfter /\ job = NoJob
  BY <1>1 DEF FlashAfter, Inv, Calls
<1>3. Len(file) \in Nat
  <2> DEFINE U == (SUBSET Data) \ {{}}
  <2>1. file \in Seq(U)
    BY DEF Inv, Control
  <2> HIDE DEF U
  <2>2. QED
    BY <2>1
<1>4. k > 0 /\ k - 1 = Len(file)
  BY <1>1, <1>3
<1>5. FileName \in DOMAIN disk /\ file = disk[FileName]
  BY <1>1, <1>4 DEF Inv, Loop
<1>6. ASSUME Doing("verify")
      PROVE  orphan = NoJob /\ \A r \in DOMAIN Regions : flash = Regions[r] => Present(r)
  <2>1. ~Task.fixed
    BY <1>1, <1>6, FirstTask DEF Inv, Good, Doing
  <2>2. FileName = flash.file /\ Base = flash.base
    BY <2>1 DEF FileName, Base
  <2>3. orphan = NoJob /\ \A n \in 1..(k - 1) : store[PageAt(Base + n - 1)] \in file[n]
    BY <1>4, <1>6 DEF Inv, Seen
  <2>4. QED
    BY <1>4, <1>5, <2>2, <2>3 DEF Present
<1>7. QED
  BY <1>1, <1>2, <1>6, TaskReflash

-----------------------------------------------------------------------------
(* The calls.                                                              *)

(* Those of the first four tasks, the die erases, come before any image.   *)
LEMMA CallFlashReflash ==
  ASSUME Inv, ReflashInv, CallFlash
  PROVE  ReflashInv'
<1>1. Doing("call") /\ todo # <<>> /\ Enter(Task.job)
  BY DEF CallFlash, Doing
<1>2. ASSUME Remaining, NEW r \in DOMAIN Regions PROVE ~(Len(todo) <= Left[r])
  <2> DEFINE n == Len(todo)
  <2>1. n \in 15..18
    BY <1>1, <1>2, AtTask
  <2> HIDE DEF n
  <2>2. ~(n <= Left[r])
    BY <2>1, Counts
  <2>3. QED
    BY <2>2 DEF n
<1>3. QED
  BY <1>1, <1>2, EnterReflash

(* Erasing sectors: timer1's come before any image, timer2's are apart     *)
(* from the one image that is in place (qspi_erase_sector_flash).          *)
LEMMA EraseNextReflash ==
  ASSUME ErasedApart, Inv, ReflashInv, EraseNext
  PROVE  ReflashInv'
<1> DEFINE s == flash.first + k
           j == SectorErase(s)
<1>1. /\ Doing("erase") /\ todo # <<>> /\ Enter(j) /\ s < flash.last
  BY DEF EraseNext, Doing
<1>2. Target(j) = {p \in Page : p[1] = s}
  <2>1. j.name = "SpiFlashSectorErase" /\ j.sector = s
    BY DEF SectorErase
  <2>2. QED
    BY <2>1 DEF Target
<1>3. flash.first \in Nat /\ flash.last \in 0..Cardinality(Sectors) /\ Cardinality(Sectors) \in Nat
      /\ k \in Nat
  BY <1>1, ErasedSector, CmdAssumption DEF Inv, Control
<1>4. s \in flash.first..(flash.last - 1)
  BY <1>1, <1>3
<1> HIDE DEF s, j
<1>5. ASSUME Remaining, NEW r \in DOMAIN Regions, Len(todo) <= Left[r]
      PROVE  Target(j) \cap Image(r) = {}
  <2> DEFINE n == Len(todo)
  <2>1. n = 9 /\ r = "timer1"
    <3>1. n \in {13, 9} /\ n <= Left[r]
      BY <1>1, <1>5, AtTask
    <3> HIDE DEF n
    <3>2. QED
      BY <3>1, Counts, RegionNames
  <2>2. flash = Regions["timer2"]
    <3>1. 9 \in (Left["timer2"] + 1)..(Left["timer2"] + Steps["timer2"] - 1)
      BY Counts
    <3>2. QED
      BY <1>5, <2>1, <3>1, RegionNames DEF Remaining
  <2>3. ASSUME NEW p \in Image(r) PROVE p[1] # s
    <3>1. disk \in Disks
      BY DEF Inv, Control
    <3>2. Regions["timer1"].file \in DOMAIN disk
      BY <2>1, <2>3 DEF Image, ImagePages
    <3>3. disk[Regions["timer1"].file] \in Seq((SUBSET Data) \ {{}})
      BY <3>1, <3>2, RegionNames, CmdAssumption
    <3>4. DOMAIN disk[Regions["timer1"].file] = 1..Len(disk[Regions["timer1"].file])
      BY <3>3
    <3>5. PICK i \in 1..Len(disk[Regions["timer1"].file]) :
            p = PageAt(Regions["timer1"].base + i - 1)
      BY <2>1, <2>3, <3>2, <3>4 DEF Image, ImagePages
    <3>6. p[1] \notin flash.first..(flash.last - 1)
      BY <2>2, <3>1, <3>2, <3>5 DEF ErasedApart
    <3>7. QED
      BY <1>4, <3>6
  <2>4. QED
    BY <1>2, <2>3
<1>6. QED
  BY <1>1, <1>5, EnterReflash

(* Programming an image leaves the others alone, as they are apart.        *)
LEMMA ProgramPageReflash ==
  ASSUME Inv, ReflashInv, ProgramPage
  PROVE  ReflashInv'
<1>1. Looping /\ More /\ todo # <<>> /\ Doing("program")
  BY DEF ProgramPage, Looping, Doing
<1> DEFINE p == PageAt(Base + k - 1)
<1>2. PICK d \in file[k] : Enter(WriteFile(p, d))
  BY DEF ProgramPage
<1>3. Target(WriteFile(p, d)) = {p}
  <2>1. WriteFile(p, d).name = "SpiFlashWrite_File" /\ WriteFile(p, d).page = p
    BY DEF WriteFile
  <2>2. QED
    BY <2>1 DEF Target
<1>4. FileName \in DOMAIN disk /\ file = disk[FileName] /\ k \in 1..Len(file)
  <2>1. k \in 1..Len(file) /\ k > 0
    BY <1>1, AtPage
  <2>2. QED
    BY <1>1, <2>1 DEF Inv, Loop
<1>5. ASSUME Remaining, ImagesApart, NEW r \in DOMAIN Regions, Len(todo) <= Left[r]
      PROVE  p \notin Image(r)
  <2>1. PICK q \in DOMAIN Regions : Len(todo) = Left[q] + 2 /\ flash = Regions[q]
    BY <1>1, <1>5, AtTask
  <2>2. ~Task.fixed
    BY <1>1, <1>5, AtTask
  <2>3. FileName = Regions[q].file /\ Base = Regions[q].base
    BY <2>1, <2>2 DEF FileName, Base
  <2>4. p \in Image(q)
    BY <1>4, <2>3, ImagePlaced DEF Inv
  <2>5. r # q
    BY <1>5, <2>1, Counts
  <2>6. QED
    BY <1>5, <2>4, <2>5 DEF ImagesApart, Image
<1> HIDE DEF p
<1>6. QED
  BY <1>2, <1>3, <1>5, EnterReflash

(* The other calls change nothing.                                         *)
LEMMA NoTarget ==
  /\ Target(Plain("SpiFlashWriteEnable")) = {}
  /\ \A p : Target(Read(p)) = {}
<1>1. Plain("SpiFlashWriteEnable").name = "SpiFlashWriteEnable"
  BY DEF Plain
<1>2. \A p : Read(p).name = "SpiFlashRead"
  BY DEF Read
<1>3. QED
  BY <1>1, <1>2 DEF Target

LEMMA ReadingReflash ==
  ASSUME Inv, ReflashInv, Open \/ VerifyPage \/ ScanPage
  PROVE  ReflashInv'
<1>1. PICK j : Enter(j) /\ Target(j) = {}
  BY NoTarget DEF Open, VerifyPage, ScanPage
<1>2. QED
  BY <1>1, EnterReflash

-----------------------------------------------------------------------------
(* The option is chosen.                                                   *)
LEMMA ChooseReflash ==
  ASSUME ReflashInv, NEW o \in Options, Choose(o)
  PROVE  ReflashInv'
<1>1. option' = o /\ todo' = Tasks(o)
  BY DEF Choose
<1>2. SUFFICES ASSUME o.name = "reflash" PROVE Remaining' /\ Verified'
  BY <1>1 DEF ReflashInv
<1>3. todo' = Reflash /\ Len(todo') = 18
  BY <1>1, <1>2, ReflashTasks DEF Tasks
<1>4. \A r \in DOMAIN Regions :
        18 \notin (Left[r] + 1)..(Left[r] + Steps[r] - 1) /\ ~(18 <= Left[r])
  BY Counts
<1>5. \A i \in 1..18 : 18 - 18 + i = i
  OBVIOUS
<1>6. Remaining'
  BY <1>3, <1>4, <1>5 DEF Remaining
<1>7. Verified'
  BY <1>3, <1>4 DEF Verified
<1>8. QED
  BY <1>6, <1>7

(* Any other option, a start and the end of the process.                   *)
LEMMA OtherReflash ==
  ASSUME Inv, ReflashInv,
         Start \/ StartBack \/ SetPath \/ SetFilename(FixedFile) \/ ProcessEnd
  PROVE  ReflashInv'
<1>1. StartBack => option' = NoOption
  BY DEF StartBack, Back, Inv, Control
<1>2. option' = NoOption \/ option'.name = "setFilename"
  BY <1>1 DEF Start, SetPath, SetFilename, ProcessEnd
<1>3. QED
  BY <1>2 DEF ReflashInv, NoOption

LEMMA TaskStepReflash ==
  ASSUME ErasedApart, Inv, ReflashInv, TaskStep
  PROVE  ReflashInv'
<1>1. CASE SetRegion
  <2>1. todo # <<>> /\ Doing("set") /\ ~Doing("verify")
    BY <1>1 DEF SetRegion, Doing
  <2>2. TaskEnds(TRUE) /\ FlashAfter /\ UNCHANGED <<storeVars, disk, option>>
    BY <1>1, <2>1 DEF SetRegion, FlashAfter
  <2>3. inCall = FALSE /\ job = NoJob
    BY <2>1 DEF Inv, Control, Calls
  <2>4. QED
    BY <2>1, <2>2, <2>3, OtherTaskReflash
<1>2. CASE CallBack
  <2>1. /\ todo # <<>> /\ Doing("call") /\ ~Doing("set") /\ ~Doing("verify")
        /\ job = NoJob /\ UNCHANGED <<storeVars, disk, option, flash>>
        /\ TaskEnds(TRUE) \/ TaskEnds(FALSE)
    BY <1>2 DEF CallBack, Back, Doing, TaskEnds
  <2>2. FlashAfter
    BY <2>1 DEF FlashAfter
  <2>3. QED
    BY <2>1, <2>2, OtherTaskReflash
<1>3. CASE EraseEnd \/ ScanEnd
  <2>1. /\ todo # <<>> /\ ~Doing("set") /\ ~Doing("verify") /\ inCall = FALSE
        /\ UNCHANGED <<storeVars, disk, option, flash>> /\ TaskEnds(TRUE)
    BY <1>3 DEF EraseEnd, ScanEnd, Doing, Inv, Control
  <2>2. FlashAfter /\ job = NoJob
    BY <2>1 DEF FlashAfter, Inv, Calls
  <2>3. QED
    BY <2>1, <2>2, OtherTaskReflash
<1>4. CASE FileMissing
  <2>1. /\ todo # <<>> /\ ~Doing("set") /\ inCall = FALSE
        /\ UNCHANGED <<storeVars, disk, option, flash>> /\ TaskEnds(FALSE)
    BY <1>4 DEF FileMissing, Looping, Doing, Inv, Control
  <2>2. FlashAfter /\ job = NoJob
    BY <2>1 DEF FlashAfter, Inv, Calls
  <2>3. QED
    BY <2>1, <2>2, OtherTaskReflash
<1>5. CASE EraseBack \/ PageBack \/ ScanBack
  <2>1. Back /\ todo # <<>> /\ ~Doing("set") /\ \E ok \in BOOLEAN : TurnEnds(ok)
    BY <1>5 DEF EraseBack, PageBack, ScanBack, Looping, Doing, Done
  <2>2. QED
    BY <2>1, TurnReflash
<1>6. QED
  BY <1>1, <1>2, <1>3, <1>4, <1>5, CallFlashReflash, EraseNextReflash, ProgramPageReflash,
     ReadingReflash, PagesEndReflash DEF TaskStep

LEMMA ReflashStep ==
  ASSUME ErasedApart, Inv, ReflashInv, [Next]_vars
  PROVE  ReflashInv'
<1>1. ASSUME NEW o \in Options, Choose(o) PROVE ReflashInv'
  BY <1>1, ChooseReflash
<1>2. CASE UNCHANGED vars
  BY <1>2, SameReflash DEF vars, storeVars
<1>3. QED
  BY <1>1, <1>2, OtherReflash, TaskStepReflash, FlashReflash DEF Next

(* "Reflash whole device" (case 0 of main's menu) that ended without an    *)
(* error has left all four images in the flash, the one that was written   *)
(* first as well as the last.  The four lie apart, and what is erased once *)
(* the first is in place does not reach it.                                *)
THEOREM ReflashAll ==
  ASSUME ErasedApart
  PROVE  Spec => []ReflashMeansAll
<1>1. Init => ReflashInv
  BY DEF Init, ReflashInv, NoOption
<1>2. Inv /\ ReflashInv /\ [Next]_vars => ReflashInv'
  BY ReflashStep
<1>3. ReflashInv => ReflashMeansAll
  <2> SUFFICES ASSUME ReflashInv, Ended("reflash"), ImagesApart, NEW r \in DOMAIN Regions
               PROVE  Present(r)
    BY DEF ReflashMeansAll
  <2>1. todo = <<>> /\ Status = "XST_SUCCESS" /\ Verified
    BY DEF Ended, ReflashInv
  <2>2. Len(todo) = 0
    BY <2>1
  <2>3. Len(todo) <= Left[r]
    BY <2>2, Counts
  <2>4. QED
    BY <2>1, <2>3 DEF Verified, Kept
<1>4. QED
  BY <1>1, <1>2, <1>3, Invariant, PTL DEF Spec
=============================================================================
