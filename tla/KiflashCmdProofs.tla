--------------------------- MODULE KiflashCmdProofs ---------------------------
(***************************************************************************)
(* Proofs about KiflashCmd.tla: what an option of the menu changes, and    *)
(* what it means that programming or verifying ended without an error, for *)
(* every flash, layout, directory and set of options.                      *)
(*                                                                         *)
(* The tasks of an option are looked at one by one: each is about pages    *)
(* that the option may change, and the ones that use FlashData come after  *)
(* one that sets it.                                                       *)
(***************************************************************************)
EXTENDS KiflashCmd, DivisionFacts, SequenceTheorems, TLAPS

-----------------------------------------------------------------------------
(* The regions option o sets FlashData to.                                 *)
RegionSet(o) ==
  IF o.name = "reflash" THEN {Regions[r] : r \in DOMAIN Regions} ELSE {Regions[o.region]}

(* All tasks there can be.                                                 *)
TaskSet ==
  {Set(r) : r \in DOMAIN Regions} \cup {Call(j) : j \in Job} \cup {Drop(j) : j \in Job}
  \cup {EraseAll, ProgramBin, VerifyBin}
  \cup {ProgramDie(o.die) : o \in {p \in Options : p.name = "programDie"}}
  \cup {Scan(o) : o \in {p \in Options : p.name \in {"blankCheck", "read"}}}

(* Task t has its place in option o.                                       *)
Good(t, o) ==
  /\ t.do = "set"     => t.to \in RegionSet(o)
  /\ t.do = "call"    => t.job \in Job /\ Target(t.job) \subseteq MayChange(o)
  /\ t.do = "erase"   => o.name \in {"reflash", "program"}
  /\ t.do = "program" => IF t.fixed THEN o.name = "programDie" /\ t.die = o.die
                         ELSE o.name \in {"reflash", "program"}
  /\ t.do = "verify"  => ~t.fixed /\ o.name \in {"reflash", "program", "verify"}
  /\ t.do = "scan"    => t.page \in Nat /\ t.pages \in Nat /\ t.page + t.pages <= Capacity

UsesFlashData(t) == t.do \in {"erase", "verify"} \/ (t.do = "program" /\ ~t.fixed)
SetBefore(s, n)  == \E m \in 1..(n - 1) : s[m].do = "set"

(* The options whose success means that an image is in the flash.          *)
Vouches(o) == o.name = "program" \/ (o.name = "verify" /\ o.region # "timer2")

-----------------------------------------------------------------------------
(* The types of the control variables.                                     *)
Control ==
  /\ phase \in {"off", "startup", "menu"} /\ inCall \in BOOLEAN /\ k \in Nat
  /\ Status \in {"XST_SUCCESS", "XST_FAILURE"}
  /\ disk \in Disks /\ file \in Seq((SUBSET Data) \ {{}}) /\ buffer \in Data
  /\ DOMAIN flash = {"file", "base", "first", "last"}
  /\ flash.file \in FileNames \cup {""} /\ flash.base \in Nat
  /\ option.name = "setFilename" \/ option \in Options \cup {NoOption}
  /\ todo # <<>> => phase = "menu" /\ option \in Options
  /\ phase = "startup" => option = NoOption
  /\ inCall => phase = "startup" \/ (todo # <<>> /\ ~Doing("set"))

(* The tasks that are left.                                                *)
Plan ==
  /\ todo \in Seq(TaskSet)
  /\ \A n \in 1..Len(todo) : Good(todo[n], option)
  /\ \A n \in 1..Len(todo) : UsesFlashData(todo[n]) =>
       flash \in RegionSet(option) \/ SetBefore(todo, n)
  /\ todo # <<>> /\ Vouches(option) => todo[Len(todo)] = VerifyBin

(* Where the task in progress is.                                          *)
Loop ==
  /\ todo = <<>> \/ Doing("set") \/ Doing("call") => k = 0
  /\ Doing("erase") =>
       /\ k > 0 => flash.first + k <= flash.last
       /\ inCall => flash.first + k < flash.last
  /\ Doing("scan") => k <= Task.pages /\ (inCall => k < Task.pages)
  /\ Looping =>
       /\ inCall \/ k > 0 => FileName \in DOMAIN disk /\ file = disk[FileName]
       /\ k <= Len(file) + 1 /\ (inCall => k <= Len(file))

(* The calls of the flash layer.                                           *)
StoreTypes ==
  /\ store \in [Page -> Contents] /\ answer \in Contents /\ applied \in BOOLEAN
  /\ result \in {"none", "XST_SUCCESS", "XST_FAILURE"}
  /\ job \in Job \cup {NoJob} /\ orphan \in Job \cup {NoJob}

Calls ==
  /\ StoreTypes
  /\ ~inCall => job = NoJob
  /\ inCall /\ job = NoJob => result # "none"
  /\ job # NoJob => Target(job) \subseteq MayChange(option)
  /\ Doing("verify") /\ job # NoJob =>
       job = IF k = 0 THEN Plain("SpiFlashWriteEnable") ELSE Read(PageAt(Base + k - 1))

(* What a verification has seen.                                           *)
Seen ==
  /\ Doing("verify") /\ inCall /\ k = 0 /\ job = NoJob /\ Done => orphan = NoJob
  /\ Doing("verify") /\ k > 0 =>
       orphan = NoJob /\ \A n \in 1..(k - 1) : store[PageAt(Base + n - 1)] \in file[n]
  /\ Doing("verify") /\ inCall /\ k > 0 =>
       /\ buffer \in file[k]
       /\ job = NoJob /\ Done => answer = store[PageAt(Base + k - 1)]
  /\ PassedMeansPresent

Inv == Control /\ Plan /\ Loop /\ Calls /\ Seen

-----------------------------------------------------------------------------
(* The calls of the flash layer.                                           *)

(* What the calls are about.                                               *)
LEMMA JobKinds ==
  ASSUME NEW j \in Job
  PROVE  /\ j # NoJob /\ Target(j) \subseteq Page
         /\ j.name = "SpiFlashRead" => j.page \in Page
         /\ Modifies(j) /\ ~Erases(j) => \E p \in Page, d \in Data : j = WriteFile(p, d)
<1>1. CASE j \in {Plain(n) : n \in PlainNames}
  <2>1. PICK n \in PlainNames : j = Plain(n)
    BY <1>1
  <2>2. j.name = n
    BY <2>1 DEF Plain
  <2>3. j # NoJob
    BY <2>2 DEF NoJob, Plain, PlainNames
  <2>4. n # "SpiFlashRead" /\ n # "SpiFlashWrite_File" /\ n # "SpiFlashSectorErase"
        /\ n # "SpiFlashDieErase"
    BY DEF PlainNames
  <2>5. QED
    BY <2>2, <2>3, <2>4 DEF Modifies, Target
<1>2. ASSUME NEW s \in Sectors, j = SectorErase(s)
      PROVE  j # NoJob /\ Target(j) \subseteq Page /\ Erases(j) /\ j.name # "SpiFlashRead"
  <2>1. j.name = "SpiFlashSectorErase"
    BY <1>2 DEF SectorErase
  <2>2. QED
    BY <2>1 DEF NoJob, Plain, Target, Erases
<1>3. ASSUME NEW d \in Dies, j = DieErase(d)
      PROVE  j # NoJob /\ Target(j) \subseteq Page /\ Erases(j) /\ j.name # "SpiFlashRead"
  <2>1. j.name = "SpiFlashDieErase"
    BY <1>3 DEF DieErase
  <2>2. QED
    BY <2>1 DEF NoJob, Plain, Target, Erases
<1>4. ASSUME NEW p \in Page, j = Read(p)
      PROVE  j # NoJob /\ Target(j) \subseteq Page /\ ~Modifies(j) /\ j.page \in Page
  <2>1. j.name = "SpiFlashRead" /\ j.page = p
    BY <1>4 DEF Read
  <2>2. QED
    BY <2>1 DEF NoJob, Plain, Target, Modifies, Erases
<1>5. ASSUME NEW p \in Page, NEW d \in Data, j = WriteFile(p, d)
      PROVE  j # NoJob /\ Target(j) \subseteq Page /\ j.name # "SpiFlashRead"
  <2>1. j.name = "SpiFlashWrite_File" /\ j.page = p
    BY <1>5 DEF WriteFile
  <2>2. QED
    BY <2>1 DEF NoJob, Plain, Target
<1>6. QED
  BY <1>1, <1>2, <1>3, <1>4, <1>5 DEF Job

(* A call whose effect takes place, wholly or in part, changes its own     *)
(* pages only.                                                             *)
LEMMA EffectOf ==
  ASSUME NEW j \in Job, NEW s \in [Page -> Contents],
         NEW t \in After(j, s) \cup Damage(j, s)
  PROVE  /\ t \in [Page -> Contents]
         /\ \A p \in Page : t[p] # s[p] => p \in Target(j)
<1>1. Blank \in Contents /\ Junk \in Contents
  BY DEF Contents
<1>2. CASE t \in Damage(j, s)
  <2>1. PICK S \in SUBSET Target(j) : t = [p \in Page |-> IF p \in S THEN Junk ELSE s[p]]
    BY <1>2 DEF Damage
  <2>2. QED
    BY <1>1, <2>1
<1>3. CASE t \in After(j, s) /\ Erases(j)
  <2>1. t = [p \in Page |-> IF p \in Target(j) THEN Blank ELSE s[p]]
    BY <1>3 DEF After
  <2>2. QED
    BY <1>1, <2>1
<1>4. CASE t \in After(j, s) /\ ~Erases(j) /\ Modifies(j)
  <2>1. PICK p \in Page, d \in Data : j = WriteFile(p, d)
    BY <1>4, JobKinds
  <2>2. j.name = "SpiFlashWrite_File" /\ j.page = p /\ j.data = d
    BY <2>1 DEF WriteFile
  <2>3. Target(j) = {p}
    BY <2>2 DEF Target
  <2>4. PICK x \in Overlays(s[p], d) : t = [s EXCEPT ![p] = x]
    BY <1>4, <2>2 DEF After
  <2>5. x \in Contents
    BY <2>4 DEF Overlays, Contents
  <2>6. QED
    BY <2>3, <2>4, <2>5
<1>5. CASE t \in After(j, s) /\ ~Modifies(j)
  BY <1>5 DEF After, Modifies
<1>6. QED
  BY <1>2, <1>3, <1>4, <1>5

(* What the flash does keeps the types, and changes only pages of the call *)
(* in progress or of an orphan.                                            *)
LEMMA FlashEffect ==
  ASSUME StoreTypes,
         Apply \/ Succeed \/ Fail("XST_FAILURE") \/ Fail("none") \/ OrphanEnds
  PROVE  /\ StoreTypes' /\ job' \in {job, NoJob}
         /\ \A p \in Page : store'[p] # store[p] =>
              (job # NoJob /\ p \in Target(job)) \/ (orphan # NoJob /\ p \in Target(orphan))
<1> DEFINE Goal ==
      /\ StoreTypes' /\ job' \in {job, NoJob}
      /\ \A p \in Page : store'[p] # store[p] =>
           (job # NoJob /\ p \in Target(job)) \/ (orphan # NoJob /\ p \in Target(orphan))
<1>1. Blank \in Contents
  BY DEF Contents
<1>2. CASE Apply
  <2>1. job \in Job /\ store' \in After(job, store) \cup Damage(job, store)
    BY <1>2 DEF Apply, Outcomes, StoreTypes
  <2>2. store' \in [Page -> Contents] /\ \A p \in Page : store'[p] # store[p] => p \in Target(job)
    BY <2>1, EffectOf DEF StoreTypes
  <2>3. StoreTypes'
    BY <1>2, <2>2 DEF Apply, StoreTypes
  <2>4. QED
    BY <1>2, <2>2, <2>3 DEF Apply
<1>3. CASE Succeed
  <2>1. job \in Job
    BY <1>3 DEF Succeed, StoreTypes
  <2>2. job.name = "SpiFlashRead" => store[job.page] \in Contents
    BY <2>1, JobKinds DEF StoreTypes
  <2>3. answer' \in Contents
    BY <1>1, <1>3, <2>2 DEF Succeed
  <2>4. orphan' \in Job \cup {NoJob}
    BY <1>3, <2>1 DEF Succeed, StoreTypes
  <2>5. QED
    BY <1>3, <2>3, <2>4 DEF Succeed, StoreTypes
<1>4. ASSUME NEW r \in {"XST_FAILURE", "none"}, Fail(r) PROVE Goal
  BY <1>1, <1>4 DEF Fail, StoreTypes
<1>5. CASE OrphanEnds
  <2>1. orphan \in Job /\ store' \in After(orphan, store) \cup Damage(orphan, store)
    BY <1>5 DEF OrphanEnds, StoreTypes
  <2>2. store' \in [Page -> Contents] /\ \A p \in Page : store'[p] # store[p] => p \in Target(orphan)
    BY <2>1, EffectOf DEF StoreTypes
  <2>3. StoreTypes'
    BY <1>5, <2>2 DEF OrphanEnds, StoreTypes
  <2>4. QED
    BY <1>5, <2>2, <2>3 DEF OrphanEnds
<1>6. QED
  BY <1>2, <1>3, <1>4, <1>5

(* While no orphan is left, a call that modifies nothing leaves the flash  *)
(* as it is, and a read that succeeds answers with its page.               *)
LEMMA QuietFlash ==
  ASSUME StoreTypes, job # NoJob => ~Modifies(job) , orphan = NoJob,
         Apply \/ Succeed \/ Fail("XST_FAILURE") \/ OrphanEnds
  PROVE  /\ store' = store /\ orphan' = NoJob
         /\ job # NoJob /\ job.name = "SpiFlashRead" /\ job' = NoJob /\ result' = "XST_SUCCESS"
              => answer' = store[job.page]
<1>1. job # NoJob => ~Erases(job)
  BY DEF Modifies
<1>2. CASE Apply
  <2>1. job \in Job /\ ~Erases(job) /\ ~Modifies(job)
    BY <1>1, <1>2 DEF Apply, StoreTypes
  <2>2. Target(job) = {}
    BY <2>1 DEF Modifies, Erases, Target
  <2>3. \A p \in Page : store'[p] = store[p]
    BY <1>2, <2>1, <2>2, EffectOf DEF Apply, Outcomes, StoreTypes
  <2>4. store' \in [Page -> Contents]
    BY <1>2, <2>1, EffectOf DEF Apply, Outcomes, StoreTypes
  <2>5. store' = store
    BY <2>3, <2>4 DEF StoreTypes
  <2>6. QED
    BY <1>2, <2>5 DEF Apply
<1>3. CASE Succeed
  BY <1>1, <1>3 DEF Succeed
<1>4. CASE Fail("XST_FAILURE")
  BY <1>4 DEF Fail
<1>5. CASE OrphanEnds
  BY <1>5 DEF OrphanEnds
<1>6. QED
  BY <1>2, <1>3, <1>4, <1>5

-----------------------------------------------------------------------------
(* The options, task by task.                                              *)

(* A list of tasks that has its place in option o, and sets FlashData      *)
(* before it uses it.                                                      *)
Fits(s, o) ==
  /\ s \in Seq(TaskSet)
  /\ \A n \in 1..Len(s) : Good(s[n], o) /\ (UsesFlashData(s[n]) => SetBefore(s, n))

Apt(t, o) == t \in TaskSet /\ Good(t, o)

(* Short lists, of which a first one sets FlashData or none uses it.       *)
LEMMA FitsOne ==
  ASSUME NEW o, NEW t, Apt(t, o), ~UsesFlashData(t)
  PROVE  Fits(<<t>>, o)
<1> DEFINE s == <<t>>
<1>1. s \in Seq(TaskSet) /\ Len(s) = 1 /\ s[1] = t
  BY DEF Apt
<1> HIDE DEF s
<1>2. Fits(s, o)
  <2>1. SUFFICES ASSUME NEW n \in 1..Len(s)
                 PROVE  Good(s[n], o) /\ (UsesFlashData(s[n]) => SetBefore(s, n))
    BY <1>1 DEF Fits
  <2>2. n = 1
    BY <1>1
  <2>3. QED
    BY <1>1, <2>2 DEF Apt
<1>3. QED
  BY <1>2 DEF s

LEMMA FitsTwo ==
  ASSUME NEW o, NEW t, NEW u, Apt(t, o), Apt(u, o), ~UsesFlashData(t),
         t.do = "set" \/ ~UsesFlashData(u)
  PROVE  Fits(<<t, u>>, o)
<1> DEFINE s == <<t, u>>
<1>1. s \in Seq(TaskSet) /\ Len(s) = 2 /\ s[1] = t /\ s[2] = u
  BY DEF Apt
<1> HIDE DEF s
<1>2. Fits(s, o)
  <2>1. SUFFICES ASSUME NEW n \in 1..Len(s)
                 PROVE  Good(s[n], o) /\ (UsesFlashData(s[n]) => SetBefore(s, n))
    BY <1>1 DEF Fits
  <2>2. n \in {1, 2}
    BY <1>1
  <2>3. t.do = "set" => SetBefore(s, 2)
    BY <1>1 DEF SetBefore
  <2>4. QED
    BY <1>1, <2>2, <2>3 DEF Apt
<1>3. QED
  BY <1>2 DEF s

LEMMA FitsThree ==
  ASSUME NEW o, NEW t, NEW u, NEW v, Apt(t, o), Apt(u, o), Apt(v, o), t.do = "set",
         ~UsesFlashData(t)
  PROVE  Fits(<<t, u, v>>, o)
<1> DEFINE s == <<t, u, v>>
<1>1. s \in Seq(TaskSet) /\ Len(s) = 3 /\ s[1] = t /\ s[2] = u /\ s[3] = v
  BY DEF Apt
<1> HIDE DEF s
<1>2. Fits(s, o)
  <2>1. SUFFICES ASSUME NEW n \in 1..Len(s)
                 PROVE  Good(s[n], o) /\ (UsesFlashData(s[n]) => SetBefore(s, n))
    BY <1>1 DEF Fits
  <2>2. n \in {1, 2, 3}
    BY <1>1
  <2>3. SetBefore(s, 2) /\ SetBefore(s, 3)
    BY <1>1 DEF SetBefore
  <2>4. QED
    BY <1>1, <2>2, <2>3 DEF Apt
<1>3. QED
  BY <1>2 DEF s

LEMMA FitsFour ==
  ASSUME NEW o, NEW t, NEW u, NEW v, NEW w, Apt(t, o), Apt(u, o), Apt(v, o), Apt(w, o),
         ~UsesFlashData(t),
         t.do = "set" \/ ~(UsesFlashData(u) \/ UsesFlashData(v) \/ UsesFlashData(w))
  PROVE  Fits(<<t, u, v, w>>, o)
<1> DEFINE s == <<t, u, v, w>>
<1>1. s \in Seq(TaskSet) /\ Len(s) = 4 /\ s[1] = t /\ s[2] = u /\ s[3] = v /\ s[4] = w
  BY DEF Apt
<1> HIDE DEF s
<1>2. Fits(s, o)
  <2>1. SUFFICES ASSUME NEW n \in 1..Len(s)
                 PROVE  Good(s[n], o) /\ (UsesFlashData(s[n]) => SetBefore(s, n))
    BY <1>1 DEF Fits
  <2>2. n \in {1, 2, 3, 4}
    BY <1>1
  <2>3. t.do = "set" => SetBefore(s, 2) /\ SetBefore(s, 3) /\ SetBefore(s, 4)
    BY <1>1 DEF SetBefore
  <2>4. QED
    BY <1>1, <2>2, <2>3 DEF Apt
<1>3. QED
  BY <1>2 DEF s

(* One list after the other.                                               *)
LEMMA FitsJoined ==
  ASSUME NEW o, NEW s, NEW t, Fits(s, o), Fits(t, o)
  PROVE  Fits(s \o t, o)
<1> DEFINE v == s \o t
<1>1. s \in Seq(TaskSet) /\ t \in Seq(TaskSet)
  BY DEF Fits
<1>2. /\ v \in Seq(TaskSet) /\ Len(v) = Len(s) + Len(t)
      /\ \A n \in 1..(Len(s) + Len(t)) : v[n] = IF n <= Len(s) THEN s[n] ELSE t[n - Len(s)]
  BY <1>1, ConcatProperties
<1>3. Len(s) \in Nat /\ Len(t) \in Nat
  BY <1>1
<1> HIDE DEF v
<1>4. SUFFICES ASSUME NEW n \in 1..Len(v)
               PROVE  Good(v[n], o) /\ (UsesFlashData(v[n]) => SetBefore(v, n))
  <2>1. Fits(v, o)
    BY <1>2, <1>4 DEF Fits
  <2>2. QED
    BY <2>1 DEF v
<1>5. CASE n <= Len(s)
  <2>1. n \in 1..Len(s) /\ v[n] = s[n]
    BY <1>2, <1>3, <1>5
  <2>2. Good(s[n], o) /\ (UsesFlashData(s[n]) => SetBefore(s, n))
    BY <2>1 DEF Fits
  <2>3. ASSUME SetBefore(s, n) PROVE SetBefore(v, n)
    <3>1. PICK m \in 1..(n - 1) : s[m].do = "set"
      BY <2>3 DEF SetBefore
    <3>2. v[m] = s[m]
      BY <1>2, <1>3, <2>1, <3>1
    <3>3. QED
      BY <3>1, <3>2 DEF SetBefore
  <2>4. QED
    BY <2>1, <2>2, <2>3
<1>6. CASE n > Len(s)
  <2>1. n - Len(s) \in 1..Len(t) /\ v[n] = t[n - Len(s)]
    BY <1>2, <1>3, <1>6
  <2>2. Good(t[n - Len(s)], o)
        /\ (UsesFlashData(t[n - Len(s)]) => SetBefore(t, n - Len(s)))
    BY <2>1 DEF Fits
  <2>3. ASSUME SetBefore(t, n - Len(s)) PROVE SetBefore(v, n)
    <3>1. PICK m \in 1..(n - Len(s) - 1) : t[m].do = "set"
      BY <2>3 DEF SetBefore
    <3>2. m + Len(s) \in 1..(n - 1) /\ m + Len(s) \in 1..(Len(s) + Len(t))
          /\ ~(m + Len(s) <= Len(s)) /\ (m + Len(s)) - Len(s) = m
      BY <1>2, <1>3, <1>6, <3>1
    <3>3. v[m + Len(s)] = t[m]
      BY <1>2, <3>2
    <3>4. QED
      BY <3>1, <3>2, <3>3 DEF SetBefore
  <2>4. QED
    BY <2>1, <2>2, <2>3
<1>7. QED
  BY <1>2, <1>3, <1>5, <1>6

(* It is empty only when both are, and ends as the second does.            *)
LEMMA EndOfJoined ==
  ASSUME NEW o, NEW s, NEW t, Fits(s, o), Fits(t, o), s # <<>> \/ t # <<>>
  PROVE  /\ s \o t # <<>>
         /\ t # <<>> => (s \o t)[Len(s \o t)] = t[Len(t)]
<1> DEFINE v == s \o t
<1>1. s \in Seq(TaskSet) /\ t \in Seq(TaskSet)
  BY DEF Fits
<1>2. /\ v \in Seq(TaskSet) /\ Len(v) = Len(s) + Len(t)
      /\ \A n \in 1..(Len(s) + Len(t)) : v[n] = IF n <= Len(s) THEN s[n] ELSE t[n - Len(s)]
  BY <1>1, ConcatProperties
<1>3. Len(s) \in Nat /\ Len(t) \in Nat
  BY <1>1
<1>4. (s # <<>> => Len(s) # 0) /\ (t # <<>> => Len(t) # 0)
  BY <1>1
<1> HIDE DEF v
<1>5. v # <<>>
  <2>1. Len(v) # 0
    BY <1>2, <1>3, <1>4
  <2>2. QED
    BY <2>1
<1>6. ASSUME t # <<>> PROVE v[Len(v)] = t[Len(t)]
  <2>1. Len(v) \in 1..(Len(s) + Len(t)) /\ ~(Len(v) <= Len(s)) /\ Len(v) - Len(s) = Len(t)
    BY <1>2, <1>3, <1>4, <1>6
  <2>2. QED
    BY <1>2, <2>1
<1>7. QED
  BY <1>5, <1>6 DEF v

(* The tasks there are.                                                    *)
LEMMA PlainApt ==
  ASSUME NEW o, NEW n \in PlainNames, n # "qspi_ease_entire_flash"
  PROVE  /\ Apt(Call(Plain(n)), o) /\ ~UsesFlashData(Call(Plain(n)))
         /\ Apt(Drop(Plain(n)), o) /\ ~UsesFlashData(Drop(Plain(n)))
<1>1. Plain(n) \in Job
  BY DEF Job
<1>2. Target(Plain(n)) = {}
  <2>1. Plain(n).name = n
    BY DEF Plain
  <2>2. QED
    BY <2>1 DEF Target, PlainNames
<1>3. Call(Plain(n)) \in TaskSet /\ Drop(Plain(n)) \in TaskSet
  BY <1>1 DEF TaskSet
<1>4. Call(Plain(n)).do = "call" /\ Call(Plain(n)).job = Plain(n)
      /\ Drop(Plain(n)).do = "call" /\ Drop(Plain(n)).job = Plain(n)
  BY DEF Call, Drop
<1>5. QED
  BY <1>1, <1>2, <1>3, <1>4 DEF Apt, Good, UsesFlashData

LEMMA CallApt ==
  ASSUME NEW o, NEW j \in Job, Target(j) \subseteq MayChange(o)
  PROVE  Apt(Call(j), o) /\ ~UsesFlashData(Call(j))
<1>1. Call(j) \in TaskSet
  BY DEF TaskSet
<1>2. Call(j).do = "call" /\ Call(j).job = j
  BY DEF Call
<1>3. QED
  BY <1>1, <1>2 DEF Apt, Good, UsesFlashData

LEMMA SetApt ==
  ASSUME NEW o, NEW r \in DOMAIN Regions, Regions[r] \in RegionSet(o)
  PROVE  Apt(Set(r), o) /\ ~UsesFlashData(Set(r)) /\ Set(r).do = "set"
<1>1. Set(r) \in TaskSet
  BY DEF TaskSet
<1>2. Set(r).do = "set" /\ Set(r).to = Regions[r]
  BY DEF Set
<1>3. QED
  BY <1>1, <1>2 DEF Apt, Good, UsesFlashData

LEMMA ImageApt ==
  ASSUME NEW o, o.name \in {"reflash", "program"}
  PROVE  Apt(EraseAll, o) /\ Apt(ProgramBin, o) /\ Apt(VerifyBin, o)
<1>1. EraseAll \in TaskSet /\ ProgramBin \in TaskSet /\ VerifyBin \in TaskSet
  BY DEF TaskSet
<1>2. EraseAll.do = "erase" /\ ProgramBin.do = "program" /\ VerifyBin.do = "verify"
      /\ ~ProgramBin.fixed /\ ~VerifyBin.fixed
  BY DEF EraseAll, ProgramBin, VerifyBin
<1>3. QED
  BY <1>1, <1>2 DEF Apt, Good

LEMMA VerifyApt ==
  ASSUME NEW o, o.name = "verify"
  PROVE  Apt(VerifyBin, o)
<1>1. VerifyBin \in TaskSet
  BY DEF TaskSet
<1>2. VerifyBin.do = "verify" /\ ~VerifyBin.fixed
  BY DEF VerifyBin
<1>3. QED
  BY <1>1, <1>2 DEF Apt, Good

(* What an option plans.                                                   *)
Planned(s, o) ==
  /\ Fits(s, o) /\ s # <<>>
  /\ Vouches(o) => s[Len(s)] = VerifyBin

LEMMA ReflashPlanned ==
  ASSUME NEW o \in Options, o.name = "reflash"
  PROVE  Planned(Tasks(o), o)
<1>1. Tasks(o) = Reflash /\ MayChange(o) = Page /\ ~Vouches(o)
  BY DEF Tasks, MayChange, Vouches
<1>2. \A d \in {0, 1, 2, 3} : DieErase(d) \in Job
  <2>1. InDevice(o)
    BY CmdAssumption
  <2>2. \A d \in {0, 1, 2, 3} : d \in Dies
    BY <2>1 DEF InDevice
  <2>3. QED
    BY <2>2 DEF Job
<1>3. \A d \in {0, 1, 2, 3} : Apt(Call(DieErase(d)), o) /\ ~UsesFlashData(Call(DieErase(d)))
  BY <1>1, <1>2, JobKinds, CallApt
<1>4. \A r \in DOMAIN Regions : Apt(Set(r), o) /\ ~UsesFlashData(Set(r)) /\ Set(r).do = "set"
  BY SetApt DEF RegionSet
<1>5. Apt(EraseAll, o) /\ Apt(ProgramBin, o) /\ Apt(VerifyBin, o)
  BY ImageApt
<1>6. {"golden", "timer1", "user", "timer2"} = DOMAIN Regions
  BY CmdAssumption
<1> DEFINE dies == <<Call(DieErase(0)), Call(DieErase(1)), Call(DieErase(2)), Call(DieErase(3))>>
<1>7. Fits(dies, o)
  BY <1>3, FitsFour
<1>8. \A r \in DOMAIN Regions : Fits(EraseAndProgram(r), o)
  BY <1>4, <1>5, FitsFour DEF EraseAndProgram
<1>9. \A r \in DOMAIN Regions : Fits(ProgramAndVerify(r), o)
  BY <1>4, <1>5, FitsThree DEF ProgramAndVerify
<1> HIDE DEF dies
<1>10. Reflash = (((dies \o EraseAndProgram("timer1")) \o EraseAndProgram("timer2"))
                   \o ProgramAndVerify("golden")) \o ProgramAndVerify("user")
  BY DEF Reflash, dies
<1>11. Fits(dies \o EraseAndProgram("timer1"), o)
  BY <1>6, <1>7, <1>8, FitsJoined
<1>12. Fits((dies \o EraseAndProgram("timer1")) \o EraseAndProgram("timer2"), o)
  BY <1>6, <1>8, <1>11, FitsJoined
<1> DEFINE start == ((dies \o EraseAndProgram("timer1")) \o EraseAndProgram("timer2"))
                     \o ProgramAndVerify("golden")
<1>13. Fits(start, o)
  BY <1>6, <1>9, <1>12, FitsJoined
<1>14. Fits(ProgramAndVerify("user"), o) /\ Reflash = start \o ProgramAndVerify("user")
  BY <1>6, <1>9, <1>10
<1> HIDE DEF start
<1>15. Fits(Reflash, o)
  BY <1>13, <1>14, FitsJoined
<1>16. Reflash # <<>>
  <2>1. Len(ProgramAndVerify("user")) = 3
    BY DEF ProgramAndVerify
  <2>2. ProgramAndVerify("user") # <<>>
    BY <2>1
  <2>3. QED
    BY <1>13, <1>14, <2>2, EndOfJoined
<1>17. QED
  BY <1>1, <1>15, <1>16 DEF Planned

(* Every option plans tasks that are there and have their place in it.     *)
LEMMA TasksPlanned ==
  ASSUME NEW o \in Options
  PROVE  Planned(Tasks(o), o)
<1>1. InDevice(o)
  BY CmdAssumption
<1>2. o.name \in {"flashGeo", "flagStatus", "quadEnable", "reflash", "program", "verify",
                  "eraseDie", "blankCheck", "read", "programDie", "eraseSector", "writeEight"}
  BY <1>1 DEF InDevice
<1>3. CASE o.name = "reflash"
  BY <1>3, ReflashPlanned
<1>4. \A n \in {"SpiFlashReadID", "SpiFlashQuadEnable"} :
        Apt(Call(Plain(n)), o) /\ ~UsesFlashData(Call(Plain(n)))
  BY PlainApt DEF PlainNames
<1>5. \A n \in {"SpiFlashReadflagstatus", "SpiFlashClrflagstatus", "SpiFlashGetStatusPrint"} :
        Apt(Drop(Plain(n)), o) /\ ~UsesFlashData(Drop(Plain(n)))
  BY PlainApt DEF PlainNames
<1>6. Fits(FlagStatus, o)
  BY <1>5, FitsTwo DEF FlagStatus
<1>7. CASE o.name = "flashGeo"
  <2>1. Tasks(o) = <<Call(Plain("SpiFlashReadID"))>> \o FlagStatus
                     \o <<Call(Plain("SpiFlashQuadEnable"))>> /\ ~Vouches(o)
    BY <1>7 DEF Tasks, Vouches
  <2>2. Fits(<<Call(Plain("SpiFlashReadID"))>>, o) /\ Fits(<<Call(Plain("SpiFlashQuadEnable"))>>, o)
    BY <1>4, FitsOne
  <2> DEFINE s == <<Call(Plain("SpiFlashReadID"))>> \o FlagStatus
             t == <<Call(Plain("SpiFlashQuadEnable"))>>
  <2>3. Fits(s, o)
    BY <1>6, <2>2, FitsJoined
  <2>4. Fits(t, o) /\ Len(t) = 1 /\ Tasks(o) = s \o t
    BY <2>1, <2>2
  <2> HIDE DEF s, t
  <2>5. Fits(Tasks(o), o)
    BY <2>3, <2>4, FitsJoined
  <2>6. Tasks(o) # <<>>
    BY <2>3, <2>4, EndOfJoined
  <2>7. QED
    BY <2>1, <2>5, <2>6 DEF Planned
<1>8. CASE o.name = "flagStatus"
  <2>1. Tasks(o) = <<Drop(Plain("SpiFlashGetStatusPrint"))>> \o FlagStatus /\ ~Vouches(o)
    BY <1>8 DEF Tasks, Vouches
  <2> DEFINE s == <<Drop(Plain("SpiFlashGetStatusPrint"))>>
  <2>2. Fits(s, o) /\ Len(s) = 1 /\ Tasks(o) = s \o FlagStatus
    BY <1>5, <2>1, FitsOne
  <2> HIDE DEF s
  <2>3. Fits(Tasks(o), o)
    BY <1>6, <2>2, FitsJoined
  <2>4. Tasks(o) # <<>>
    BY <1>6, <2>2, EndOfJoined
  <2>5. QED
    BY <2>1, <2>3, <2>4 DEF Planned
<1>9. CASE o.name = "quadEnable"
  <2>1. Tasks(o) = <<Call(Plain("SpiFlashQuadEnable"))>> /\ ~Vouches(o)
    BY <1>9 DEF Tasks, Vouches
  <2>2. QED
    BY <1>4, <2>1, FitsOne DEF Planned
<1>10. CASE o.name = "program"
  <2>1. Tasks(o) = <<Set(o.region), EraseAll, ProgramBin, VerifyBin>>
    BY <1>10 DEF Tasks, EraseAndProgram
  <2>2. Apt(Set(o.region), o) /\ ~UsesFlashData(Set(o.region)) /\ Set(o.region).do = "set"
    BY <1>1, <1>10, SetApt DEF InDevice, RegionSet
  <2>3. Fits(Tasks(o), o)
    BY <1>10, <2>1, <2>2, ImageApt, FitsFour
  <2>4. Tasks(o) # <<>> /\ Tasks(o)[Len(Tasks(o))] = VerifyBin
    BY <2>1
  <2>5. QED
    BY <2>3, <2>4 DEF Planned
<1>11. CASE o.name = "verify"
  <2>1. Apt(Set(o.region), o) /\ ~UsesFlashData(Set(o.region)) /\ Set(o.region).do = "set"
    BY <1>1, <1>11, SetApt DEF InDevice, RegionSet
  <2>2. CASE o.region = "timer2"
    <3>1. Tasks(o) = <<Set(o.region)>> \o <<>> /\ ~Vouches(o)
      BY <1>11, <2>2 DEF Tasks, Vouches
    <3>2. Tasks(o) = <<Set(o.region)>>
      BY <3>1
    <3>3. QED
      BY <2>1, <3>1, <3>2, FitsOne DEF Planned
  <2>3. CASE o.region # "timer2"
    <3>1. Tasks(o) = <<Set(o.region)>> \o <<VerifyBin>>
      BY <1>11, <2>3 DEF Tasks
    <3>2. Tasks(o) = <<Set(o.region), VerifyBin>>
      <4> DEFINE u == Set(o.region)
                 w == VerifyBin
      <4> HIDE DEF u, w
      <4>1. <<u>> \in Seq({u, w}) /\ w \in {u, w}
        OBVIOUS
      <4>2. <<u>> \o <<w>> = Append(<<u>>, w)
        BY <4>1, AppendIsConcat
      <4>3. Append(<<u>>, w) = <<u, w>>
        <5> DEFINE a == Append(<<u>>, w)
                   b == <<u, w>>
        <5>1. a \in Seq({u, w}) /\ Len(a) = 2 /\ a[1] = u /\ a[2] = w
          BY <4>1
        <5>2. b \in Seq({u, w}) /\ Len(b) = 2 /\ b[1] = u /\ b[2] = w
          OBVIOUS
        <5> HIDE DEF a, b
        <5>3. \A n \in 1..2 : a[n] = b[n]
          BY <5>1, <5>2
        <5>4. a = b
          BY <5>1, <5>2, <5>3, SeqEqual
        <5>5. QED
          BY <5>4 DEF a, b
      <4>4. QED
        BY <3>1, <4>2, <4>3 DEF u, w
    <3>3. Fits(Tasks(o), o)
      BY <1>11, <2>1, <3>2, VerifyApt, FitsTwo
    <3>4. Tasks(o) # <<>> /\ Tasks(o)[Len(Tasks(o))] = VerifyBin
      BY <3>2
    <3>5. QED
      BY <3>3, <3>4 DEF Planned
  <2>4. QED
    BY <2>2, <2>3
<1>12. CASE o.name = "eraseDie"
  <2>1. Tasks(o) = <<Call(DieErase(o.die)), Call(Plain("SpiFlashQuadEnable"))>> /\ ~Vouches(o)
    BY <1>12 DEF Tasks, Vouches
  <2>2. DieErase(o.die) \in Job
    BY <1>1, <1>12 DEF InDevice, Job
  <2>3. Target(DieErase(o.die)) = MayChange(o)
    <3>1. DieErase(o.die).name = "SpiFlashDieErase" /\ DieErase(o.die).die = o.die
      BY DEF DieErase
    <3>2. QED
      BY <1>12, <3>1 DEF Target, MayChange
  <2>4. Apt(Call(DieErase(o.die)), o) /\ ~UsesFlashData(Call(DieErase(o.die)))
    BY <2>2, <2>3, CallApt
  <2>5. QED
    BY <1>4, <2>1, <2>4, FitsTwo DEF Planned
<1>13. CASE o.name \in {"blankCheck", "read"}
  <2>1. Tasks(o) = <<Scan(o)>> /\ ~Vouches(o)
    BY <1>13 DEF Tasks, Vouches
  <2>2. Scan(o) \in TaskSet
    BY <1>13 DEF TaskSet
  <2>3. Scan(o).do = "scan" /\ Scan(o).page = o.page /\ Scan(o).pages = o.pages
    BY DEF Scan
  <2>4. Apt(Scan(o), o) /\ ~UsesFlashData(Scan(o))
    BY <1>1, <1>13, <2>2, <2>3 DEF InDevice, Apt, Good, UsesFlashData
  <2>5. QED
    BY <2>1, <2>4, FitsOne DEF Planned
<1>14. CASE o.name = "programDie"
  <2>1. Tasks(o) = <<ProgramDie(o.die)>> /\ ~Vouches(o)
    BY <1>14 DEF Tasks, Vouches
  <2>2. ProgramDie(o.die) \in TaskSet
    BY <1>14 DEF TaskSet
  <2>3. ProgramDie(o.die).do = "program" /\ ProgramDie(o.die).fixed /\ ProgramDie(o.die).die = o.die
    BY DEF ProgramDie
  <2>4. Apt(ProgramDie(o.die), o) /\ ~UsesFlashData(ProgramDie(o.die))
    BY <1>14, <2>2, <2>3 DEF Apt, Good, UsesFlashData
  <2>5. QED
    BY <2>1, <2>4, FitsOne DEF Planned
<1>15. CASE o.name = "eraseSector"
  <2>1. Tasks(o) = <<Call(SectorErase(o.sector))>> /\ ~Vouches(o)
    BY <1>15 DEF Tasks, Vouches
  <2>2. SectorErase(o.sector) \in Job
    BY <1>1, <1>15 DEF InDevice, Job
  <2>3. Target(SectorErase(o.sector)) = MayChange(o)
    <3>1. SectorErase(o.sector).name = "SpiFlashSectorErase" /\ SectorErase(o.sector).sector = o.sector
      BY DEF SectorErase
    <3>2. QED
      BY <1>15, <3>1 DEF Target, MayChange
  <2>4. QED
    BY <2>1, <2>2, <2>3, CallApt, FitsOne DEF Planned
<1>16. CASE o.name = "writeEight"
  <2>1. Tasks(o) = <<Call(WriteFile(o.page, EightBytes))>> /\ ~Vouches(o)
    BY <1>16 DEF Tasks, Vouches
  <2>2. WriteFile(o.page, EightBytes) \in Job
    BY <1>1, <1>16, CmdAssumption DEF InDevice, Job
  <2>3. Target(WriteFile(o.page, EightBytes)) = MayChange(o)
    <3>1. WriteFile(o.page, EightBytes).name = "SpiFlashWrite_File"
          /\ WriteFile(o.page, EightBytes).page = o.page
      BY DEF WriteFile
    <3>2. QED
      BY <1>16, <3>1 DEF Target, MayChange
  <2>4. QED
    BY <2>1, <2>2, <2>3, CallApt, FitsOne DEF Planned
<1>17. QED
  BY <1>2, <1>3, <1>7, <1>8, <1>9, <1>10, <1>11, <1>12, <1>13, <1>14, <1>15, <1>16

-----------------------------------------------------------------------------
(* The task in progress.                                                   *)

(* It is the first of those that are left.                                 *)
LEMMA FirstTask ==
  ASSUME Plan, todo # <<>>
  PROVE  /\ Task \in TaskSet /\ Good(Task, option)
         /\ UsesFlashData(Task) => flash \in RegionSet(option)
         /\ Len(todo) \in Nat \ {0} /\ Task = todo[1]
<1>1. todo \in Seq(TaskSet)
  BY DEF Plan
<1>2. Len(todo) \in Nat \ {0} /\ Task = todo[1]
  BY <1>1 DEF Task
<1>3. 1 \in 1..Len(todo)
  BY <1>2
<1>4. todo[1] \in TaskSet
  BY <1>1, <1>3
<1>5. ~SetBefore(todo, 1)
  BY DEF SetBefore
<1>6. Good(todo[1], option) /\ (UsesFlashData(todo[1]) => flash \in RegionSet(option))
  BY <1>3, <1>5 DEF Plan
<1>7. QED
  BY <1>2, <1>4, <1>6

(* What a task does.                                                       *)
LEMMA TaskDoes ==
  ASSUME Plan, todo # <<>>
  PROVE  \E d \in {"set", "call", "erase", "program", "verify", "scan"} : Doing(d)
<1>1. Task \in TaskSet
  BY FirstTask
<1>2. Task.do \in {"set", "call", "erase", "program", "verify", "scan"}
  BY <1>1 DEF TaskSet, Set, Call, Drop, EraseAll, ProgramBin, VerifyBin, ProgramDie, Scan
<1>3. QED
  BY <1>2 DEF Doing

(* When it uses FlashData, FlashData has a region of its option.           *)
LEMMA RegionOf ==
  ASSUME Control, Plan, todo # <<>>, UsesFlashData(Task)
  PROVE  \E r \in DOMAIN Regions :
           flash = Regions[r] /\ (option.name # "reflash" => r = option.region)
<1>1. Good(Task, option) /\ flash \in RegionSet(option)
  BY FirstTask
<1>2. option \in Options
  BY DEF Control
<1>3. option.name \in {"reflash", "program", "verify"}
  BY <1>1 DEF Good, UsesFlashData
<1>4. InDevice(option)
  BY <1>2, CmdAssumption
<1>5. CASE option.name = "reflash"
  BY <1>1, <1>5 DEF RegionSet
<1>6. CASE option.name # "reflash"
  <2>1. option.region \in DOMAIN Regions
    BY <1>3, <1>4, <1>6 DEF InDevice
  <2>2. QED
    BY <1>1, <1>6, <2>1 DEF RegionSet
<1>7. QED
  BY <1>5, <1>6

(* An address below the size of the flash has a page of it.                *)
LEMMA PageInFlash ==
  ASSUME NEW a \in Nat, a < Capacity
  PROVE  PageAt(a) \in Page
<1> DEFINE m == SectorPages
           q == a \div m
           n == Cardinality(Sectors)
<1>1. m \in Nat \ {0} /\ n \in Nat
  BY CmdAssumption DEF SectorPages
<1>2. q \in Nat /\ a % m \in 0..(m - 1) /\ q * m <= a
  BY <1>1, Division
<1>3. q < n
  <2>1. SUFFICES ASSUME n <= q PROVE FALSE
    BY <1>1, <1>2
  <2>2. n * m <= q * m
    BY <1>1, <1>2, <2>1, TimesMonotonic
  <2>3. a < n * m
    BY DEF Capacity, SectorPages
  <2> HIDE DEF m, q, n
  <2>4. n * m \in Nat /\ q * m \in Nat
    BY <1>1, <1>2
  <2>5. QED
    BY <1>2, <2>2, <2>3, <2>4
<1>4. q \in Sectors
  <2>1. Sectors = 0..(n - 1)
    BY CmdAssumption
  <2> HIDE DEF q, n
  <2>2. QED
    BY <1>1, <1>2, <1>3, <2>1
<1>5. a % m \in Slots
  BY <1>2, CmdAssumption DEF SectorPages
<1>6. QED
  BY <1>4, <1>5 DEF PageAt, Page

LEMMA CapacityIsNat == Capacity \in Nat /\ Cardinality(Sectors) <= Capacity
<1> DEFINE m == Cardinality(Slots)
           n == Cardinality(Sectors)
<1>1. m \in Nat \ {0} /\ n \in Nat
  BY CmdAssumption
<1> HIDE DEF m, n
<1>2. 1 * n <= m * n
  BY <1>1, TimesMonotonic
<1>3. m * n = n * m /\ n * m \in Nat /\ 1 * n = n
  BY <1>1
<1>4. n <= n * m
  BY <1>2, <1>3
<1>5. QED
  BY <1>3, <1>4 DEF Capacity, m, n

(* An image lies in the flash, and a task that programs it may change its  *)
(* pages.                                                                  *)
LEMMA ImageFits ==
  ASSUME Control, Plan, Looping, FileName \in DOMAIN disk
  PROVE  /\ Base \in Nat /\ disk[FileName] \in Seq((SUBSET Data) \ {{}})
         /\ Len(disk[FileName]) \in Nat /\ Base + Len(disk[FileName]) <= Capacity
         /\ \A n \in 1..Len(disk[FileName]) :
              /\ PageAt(Base + n - 1) \in Page
              /\ Doing("program") => PageAt(Base + n - 1) \in MayChange(option)
<1> DEFINE L == Len(disk[FileName])
<1>1. todo # <<>> /\ disk \in Disks /\ option \in Options
  BY DEF Looping, Doing, Control
<1>2. Good(Task, option) /\ InDevice(option)
  BY <1>1, FirstTask, CmdAssumption
<1>3. disk[FileName] \in Seq((SUBSET Data) \ {{}})
  BY <1>1, CmdAssumption
<1>4. L \in Nat /\ DOMAIN disk[FileName] = 1..L
  BY <1>3
<1>5. Base \in Nat /\ Base + L <= Capacity
      /\ (Doing("program") =>
            ImagePages(FileName, Base) \subseteq MayChange(option) \/ MayChange(option) = Page)
  <2>1. CASE Task.fixed
    <3>1. Doing("program") /\ option.name = "programDie" /\ Task.die = option.die
      BY <1>2, <2>1 DEF Looping, Doing, Good
    <3>2. FileName = FixedFile /\ Base = FirstOf(option.die) * SectorPages
      BY <2>1, <3>1 DEF FileName, Base
    <3>3. FirstOf(option.die) \in Nat /\ SectorPages \in Nat
      <4>1. FirstOf(option.die) \in Sectors
        BY <1>2, <3>1 DEF InDevice
      <4>2. QED
        BY <4>1, CmdAssumption DEF SectorPages
    <3>4. Base \in Nat
      BY <3>2, <3>3
    <3>5. Base + L <= Capacity
      BY <1>1, <1>2, <3>1, <3>2 DEF InDevice, SectorPages
    <3>6. MayChange(option) = ImagePages(FileName, Base)
      BY <3>1, <3>2 DEF MayChange
    <3>7. QED
      BY <3>4, <3>5, <3>6
  <2>2. CASE ~Task.fixed
    <3>1. UsesFlashData(Task)
      BY <2>2 DEF Looping, Doing, UsesFlashData
    <3>2. PICK r \in DOMAIN Regions :
            flash = Regions[r] /\ (option.name # "reflash" => r = option.region)
      BY <1>1, <3>1, RegionOf
    <3>3. FileName = Regions[r].file /\ Base = Regions[r].base
      BY <2>2, <3>2 DEF FileName, Base
    <3>4. Base \in Nat /\ Base + L <= Capacity
      BY <1>1, <3>3, CmdAssumption
    <3>5. ASSUME Doing("program")
          PROVE  ImagePages(FileName, Base) \subseteq MayChange(option) \/ MayChange(option) = Page
      <4>1. option.name \in {"reflash", "program"}
        BY <1>2, <2>2, <3>5 DEF Doing, Good
      <4>2. CASE option.name = "reflash"
        BY <4>2 DEF MayChange
      <4>3. CASE option.name = "program"
        BY <3>2, <3>3, <4>3 DEF MayChange
      <4>4. QED
        BY <4>1, <4>2, <4>3
    <3>6. QED
      BY <3>4, <3>5
  <2>3. QED
    BY <2>1, <2>2
<1>6. ASSUME NEW n \in 1..L
      PROVE  /\ PageAt(Base + n - 1) \in Page
             /\ Doing("program") => PageAt(Base + n - 1) \in MayChange(option)
  <2>1. Base + n - 1 \in Nat /\ Base + n - 1 < Capacity
    BY <1>4, <1>5, CapacityIsNat
  <2>2. PageAt(Base + n - 1) \in Page
    BY <2>1, PageInFlash
  <2>3. PageAt(Base + n - 1) \in ImagePages(FileName, Base)
    BY <1>4 DEF ImagePages
  <2>4. QED
    BY <1>5, <2>2, <2>3
<1>7. QED
  BY <1>3, <1>4, <1>5, <1>6

(* The next sector of an erase is one the option may change.               *)
LEMMA ErasedSector ==
  ASSUME Control, Plan, Doing("erase")
  PROVE  /\ flash.first \in Nat /\ flash.last \in 0..Cardinality(Sectors)
         /\ flash.first + k < flash.last =>
              LET j == SectorErase(flash.first + k)
              IN  j \in Job /\ Target(j) \subseteq MayChange(option)
<1>1. todo # <<>> /\ k \in Nat /\ UsesFlashData(Task)
  BY DEF Doing, UsesFlashData, Control
<1>2. PICK r \in DOMAIN Regions :
        flash = Regions[r] /\ (option.name # "reflash" => r = option.region)
  BY <1>1, RegionOf
<1>3. flash.first \in Nat /\ flash.last \in 0..Cardinality(Sectors)
  BY <1>2, CmdAssumption
<1>4. option.name \in {"reflash", "program"}
  BY <1>1, FirstTask DEF Doing, Good
<1> DEFINE s == flash.first + k
           j == SectorErase(s)
<1>5. ASSUME s < flash.last PROVE j \in Job /\ Target(j) \subseteq MayChange(option)
  <2>1. Cardinality(Sectors) \in Nat /\ Sectors = 0..(Cardinality(Sectors) - 1)
    BY CmdAssumption
  <2>2. s \in Sectors /\ s \in flash.first..(flash.last - 1)
    BY <1>1, <1>3, <1>5, <2>1
  <2>3. j \in Job
    BY <2>2 DEF Job
  <2>4. Target(j) = {p \in Page : p[1] = s}
    <3>1. j.name = "SpiFlashSectorErase" /\ j.sector = s
      BY DEF SectorErase
    <3>2. QED
      BY <3>1 DEF Target
  <2>5. CASE option.name = "reflash"
    BY <2>3, <2>5, JobKinds DEF MayChange
  <2>6. CASE option.name = "program"
    <3>1. MayChange(option) =
            {p \in Page : p[1] \in flash.first..(flash.last - 1)}
            \cup ImagePages(flash.file, flash.base)
      BY <1>2, <2>6 DEF MayChange
    <3> HIDE DEF s, j
    <3>2. Target(j) \subseteq {p \in Page : p[1] \in flash.first..(flash.last - 1)}
      BY <2>2, <2>4
    <3>3. QED
      BY <2>3, <3>1, <3>2
  <2>7. QED
    BY <1>4, <2>3, <2>5, <2>6
<1>6. QED
  BY <1>3, <1>5

(* When the task in progress ends, the plan of the rest holds.             *)
LEMMA PlanTail ==
  ASSUME Plan, todo # <<>>, todo' = Tail(todo), option' = option, disk' = disk,
         flash' = IF Doing("set") THEN Task.to ELSE flash
  PROVE  Plan'
<1>1. /\ Task \in TaskSet /\ Good(Task, option) /\ Len(todo) \in Nat \ {0} /\ Task = todo[1]
  BY FirstTask
<1>2. todo \in Seq(TaskSet)
  BY DEF Plan
<1>3. /\ todo' \in Seq(TaskSet) /\ Len(todo') = Len(todo) - 1
      /\ \A n \in 1..Len(todo') : todo'[n] = todo[n + 1]
  BY <1>2
<1>4. ASSUME NEW n \in 1..Len(todo')
      PROVE  /\ Good(todo'[n], option')
             /\ UsesFlashData(todo'[n]) => flash' \in RegionSet(option') \/ SetBefore(todo', n)
  <2>1. n + 1 \in 1..Len(todo) /\ todo'[n] = todo[n + 1]
    BY <1>1, <1>3
  <2>2. Good(todo[n + 1], option)
    BY <2>1 DEF Plan
  <2>3. ASSUME UsesFlashData(todo'[n])
        PROVE  flash' \in RegionSet(option') \/ SetBefore(todo', n)
    <3>1. CASE Doing("set")
      <4>1. Task.to \in RegionSet(option)
        BY <1>1, <3>1 DEF Doing, Good
      <4>2. QED
        BY <3>1, <4>1
    <3>2. CASE ~Doing("set") /\ flash \in RegionSet(option)
      BY <3>2
    <3>3. CASE ~Doing("set") /\ SetBefore(todo, n + 1)
      <4>1. PICK m \in 1..(n + 1 - 1) : todo[m].do = "set"
        BY <3>3 DEF SetBefore
      <4>2. m # 1
        BY <1>1, <3>3, <4>1 DEF Doing
      <4>3. m - 1 \in 1..(n - 1) /\ m - 1 \in 1..Len(todo') /\ (m - 1) + 1 = m
        BY <1>1, <1>3, <4>2
      <4>4. todo'[m - 1] = todo[m]
        BY <1>3, <4>3
      <4>5. QED
        BY <4>1, <4>3, <4>4 DEF SetBefore
    <3>4. QED
      BY <2>1, <2>3, <3>1, <3>2, <3>3 DEF Plan
  <2>4. QED
    BY <2>1, <2>2, <2>3
<1>5. ASSUME todo' # <<>>, Vouches(option') PROVE todo'[Len(todo')] = VerifyBin
  <2>1. Len(todo') # 0
    BY <1>3, <1>5
  <2>2. Len(todo') \in 1..Len(todo') /\ Len(todo') + 1 = Len(todo)
    BY <1>1, <1>3, <2>1
  <2>3. todo'[Len(todo')] = todo[Len(todo)]
    BY <1>3, <2>2
  <2>4. QED
    BY <1>5, <2>3 DEF Plan
<1>6. ASSUME NEW n \in 1..Len(todo') PROVE Good(todo[n], option)'
  <2>1. Good(todo'[n], option')
    BY <1>4
  <2>2. MayChange(option)' = MayChange(option)
    BY DEF MayChange, ImagePages
  <2>3. QED
    BY <2>1, <2>2 DEF Good
<1>7. \A n \in 1..Len(todo') :
        UsesFlashData(todo'[n]) => flash' \in RegionSet(option') \/ SetBefore(todo', n)
  BY <1>4
<1>8. todo' \in Seq(TaskSet)
  BY <1>3
<1>9. QED
  BY <1>5, <1>6, <1>7, <1>8 DEF Plan

-----------------------------------------------------------------------------
(* The steps.                                                              *)

LEMMA SameOption ==
  ASSUME UNCHANGED <<disk, option>>
  PROVE  MayChange(option)' = MayChange(option)
BY DEF MayChange, ImagePages

LEMMA SomeData == AnyData \in Data
BY CmdAssumption DEF AnyData

(* What is left to do, the place in it and what has ended stay the same.   *)
LEMMA SamePlan ==
  ASSUME Plan, UNCHANGED <<flash, disk, option, todo>>
  PROVE  Plan'
<1>1. MayChange(option)' = MayChange(option)
  BY SameOption
<1>2. ASSUME NEW n \in 1..Len(todo') PROVE Good(todo[n], option)'
  <2>1. Good(todo[n], option)
    BY <1>2 DEF Plan
  <2>2. QED
    BY <1>1, <2>1 DEF Good
<1>3. \A n \in 1..Len(todo') :
        UsesFlashData(todo'[n]) => flash' \in RegionSet(option') \/ SetBefore(todo', n)
  BY DEF Plan
<1>4. todo' \in Seq(TaskSet) /\ (todo' # <<>> /\ Vouches(option') => todo'[Len(todo')] = VerifyBin)
  BY DEF Plan
<1>5. QED
  BY <1>2, <1>3, <1>4 DEF Plan

(* What the flash does in a call, or to an orphan.                         *)
LEMMA FlashInv ==
  ASSUME Inv, FlashStep
  PROVE  Inv'
<1>1. /\ Apply \/ Succeed \/ Fail("XST_FAILURE") \/ OrphanEnds
      /\ UNCHANGED <<phase, flash, disk, Status, option, todo, k, file, buffer, inCall>>
  BY DEF FlashStep, taskVars
<1>2. StoreTypes /\ StoreTypes' /\ job' \in {job, NoJob}
  BY <1>1, FlashEffect DEF Inv, Calls
<1>3. Control'
  BY <1>1 DEF Inv, Control, Doing, Task
<1>4. Plan'
  BY <1>1, SamePlan DEF Inv
<1>5. Loop'
  BY <1>1 DEF Inv, Loop, Doing, Task, Looping, FileName
<1>6. job # NoJob => job' = job \/ (job' = NoJob /\ result' # "none")
  BY <1>1 DEF Apply, Succeed, Fail, OrphanEnds
<1>7. job = NoJob => job' = NoJob /\ result' = result
  BY <1>1 DEF Apply, Succeed, Fail, OrphanEnds
<1>8. MayChange(option)' = MayChange(option)
  BY <1>1, SameOption
<1>9. Doing("verify")' = Doing("verify") /\ Base' = Base
  BY <1>1 DEF Doing, Task, Base
<1>10. Calls'
  BY <1>1, <1>2, <1>6, <1>7, <1>8, <1>9 DEF Inv, Calls
<1>11. Seen'
  <2>1. ASSUME Doing("verify"), job # NoJob
        PROVE  /\ ~Modifies(job) /\ Waits(job) /\ ~Erases(job)
               /\ k > 0 => job.name = "SpiFlashRead" /\ job.page = PageAt(Base + k - 1)
    <3>1. job = IF k = 0 THEN Plain("SpiFlashWriteEnable") ELSE Read(PageAt(Base + k - 1))
      BY <2>1 DEF Inv, Calls
    <3>2. k > 0 => job.name = "SpiFlashRead" /\ job.page = PageAt(Base + k - 1)
      BY <3>1 DEF Read
    <3>3. k = 0 => job.name = "SpiFlashWriteEnable"
      BY <3>1 DEF Plain
    <3>4. k \in Nat
      BY DEF Inv, Control
    <3>5. job.name \in {"SpiFlashWriteEnable", "SpiFlashRead"}
      BY <3>2, <3>3, <3>4
    <3>6. QED
      BY <3>2, <3>5 DEF Modifies, Erases, Waits
  <2>2. ASSUME Doing("verify"), inCall, k = 0, job' = NoJob, Done'
        PROVE  orphan' = NoJob
    <3>1. CASE job = NoJob
      <4>1. orphan = NoJob
        BY <1>7, <2>2, <3>1 DEF Inv, Seen, Done
      <4>2. QED
        BY <1>1, <3>1, <4>1 DEF Apply, Succeed, Fail, OrphanEnds
    <3>2. CASE job # NoJob
      <4>1. Succeed
        <5>1. job' # job /\ result' = "XST_SUCCESS"
          BY <2>2, <3>2 DEF Done
        <5>2. QED
          BY <1>1, <5>1 DEF Apply, Fail, OrphanEnds
      <4>2. QED
        BY <2>1, <2>2, <3>2, <4>1 DEF Succeed
    <3>3. QED
      BY <3>1, <3>2
  <2>3. ASSUME Doing("verify"), k > 0
        PROVE  /\ store' = store /\ orphan' = NoJob
               /\ job # NoJob /\ job.name = "SpiFlashRead" /\ job' = NoJob /\ result' = "XST_SUCCESS"
                    => answer' = store[job.page]
    <3>1. orphan = NoJob
      BY <2>3 DEF Inv, Seen
    <3>2. QED
      BY <1>1, <1>2, <2>1, <2>3, <3>1, QuietFlash
  <2>4. ASSUME Doing("verify"), inCall, k > 0, job' = NoJob, Done'
        PROVE  answer' = store[PageAt(Base + k - 1)]
    <3>1. CASE job = NoJob
      <4>1. answer = store[PageAt(Base + k - 1)]
        BY <1>7, <2>4, <3>1 DEF Inv, Seen, Done
      <4>2. answer' = answer
        BY <1>1, <3>1 DEF Apply, Succeed, Fail, OrphanEnds
      <4>3. QED
        BY <4>1, <4>2
    <3>2. CASE job # NoJob
      BY <2>1, <2>3, <2>4, <3>2 DEF Done
    <3>3. QED
      BY <3>1, <3>2
  <2>5. PassedMeansPresent'
    <3>1. SUFFICES ASSUME Ended("program") \/ (Ended("verify") /\ option.region # "timer2")
                   PROVE  Present(option.region)' /\ orphan' = NoJob
      BY <1>1 DEF PassedMeansPresent, Ended
    <3>2. Present(option.region) /\ orphan = NoJob
      BY <3>1 DEF Inv, Seen, PassedMeansPresent
    <3>3. job = NoJob
      <4>1. todo = <<>> /\ option # NoOption
        BY <3>1 DEF Ended, NoOption
      <4>2. ~inCall
        BY <4>1 DEF Inv, Control
      <4>3. QED
        BY <4>2 DEF Inv, Calls
    <3>4. store' = store /\ orphan' = NoJob
      BY <1>1, <3>2, <3>3 DEF Apply, Succeed, Fail, OrphanEnds
    <3>5. QED
      BY <1>1, <3>2, <3>4 DEF Present
  <2>6. Doing("verify") /\ k > 0 =>
          \A n \in 1..(k - 1) : store'[PageAt(Base + n - 1)] \in file[n]
    BY <2>3 DEF Inv, Seen
  <2>7. Doing("verify") /\ inCall /\ k > 0 => buffer \in file[k]
    BY DEF Inv, Seen
  <2>8. QED
    BY <1>1, <1>9, <2>2, <2>3, <2>4, <2>5, <2>6, <2>7 DEF Seen, Done
<1>12. QED
  BY <1>3, <1>4, <1>5, <1>10, <1>11 DEF Inv

(* A call of the flash layer begins.                                       *)
LEMMA EnterInv ==
  ASSUME Inv, NEW j \in Job, Enter(j), Target(j) \subseteq MayChange(option),
         todo # <<>>, ~Doing("set"), k' = k,
         file' \in Seq((SUBSET Data) \ {{}}), buffer' \in Data, Loop',
         Doing("verify") =>
           /\ j = IF k = 0 THEN Plain("SpiFlashWriteEnable") ELSE Read(PageAt(Base + k - 1))
           /\ k > 0 => file' = file /\ buffer' \in file[k]
  PROVE  Inv'
<1>1. /\ ~inCall /\ inCall' = TRUE /\ job = NoJob /\ job' = j /\ applied' = FALSE
      /\ result' = "none" /\ answer' = Blank
      /\ UNCHANGED <<store, orphan, phase, flash, disk, Status, option, todo>>
  BY DEF Enter, Begin
<1>2. j # NoJob
  BY JobKinds
<1>3. Doing("verify")' = Doing("verify") /\ Base' = Base /\ Doing("set")' = Doing("set")
  BY <1>1 DEF Doing, Task, Base
<1>4. Control'
  BY <1>1, <1>3 DEF Inv, Control
<1>5. Plan'
  BY <1>1, SamePlan DEF Inv
<1>6. Calls'
  <2>1. StoreTypes'
    BY <1>1 DEF Inv, Calls, StoreTypes, Contents
  <2>2. MayChange(option)' = MayChange(option)
    BY <1>1, SameOption
  <2>3. QED
    BY <1>1, <1>2, <1>3, <2>1, <2>2 DEF Calls
<1>7. Seen'
  <2>1. PassedMeansPresent'
    BY <1>1 DEF PassedMeansPresent, Ended
  <2>2. Doing("verify") /\ k > 0 =>
          orphan = NoJob /\ \A n \in 1..(k - 1) : store[PageAt(Base + n - 1)] \in file'[n]
    BY DEF Inv, Seen
  <2>3. Doing("verify") /\ k > 0 => buffer' \in file'[k]
    OBVIOUS
  <2>4. QED
    BY <1>1, <1>2, <1>3, <2>1, <2>2, <2>3 DEF Seen
<1>8. QED
  BY <1>4, <1>5, <1>6, <1>7 DEF Inv

(* What the end of a task does to FlashData.                               *)
FlashAfter == flash' = IF Doing("set") THEN Task.to ELSE flash

LEMMA FlashAfterTyped ==
  ASSUME Inv, todo # <<>>, FlashAfter
  PROVE  flash'.file \in FileNames \cup {""} /\ flash'.base \in Nat
         /\ DOMAIN flash' = {"file", "base", "first", "last"}
<1>1. CASE Doing("set")
  <2>1. Task \in TaskSet /\ Task.do = "set"
    BY <1>1, FirstTask DEF Inv, Doing
  <2>2. PICK r \in DOMAIN Regions : Task = Set(r)
    BY <2>1 DEF TaskSet, Call, Drop, EraseAll, ProgramBin, VerifyBin, ProgramDie, Scan
  <2>3. flash' = Regions[r]
    BY <1>1, <2>2 DEF FlashAfter, Set
  <2>4. QED
    BY <2>3, CmdAssumption DEF FileNames
<1>2. CASE ~Doing("set")
  BY <1>2 DEF FlashAfter, Inv, Control
<1>3. QED
  BY <1>1, <1>2

(* A task ends, and another one is next.                                   *)
LEMMA NextTaskInv ==
  ASSUME Inv, todo # <<>>, Tail(todo) # <<>>, TaskEnds(TRUE), job = NoJob, FlashAfter,
         UNCHANGED <<storeVars, disk, option>>, inCall' = FALSE
  PROVE  Inv'
<1>1. /\ todo' = Tail(todo) /\ todo' # <<>> /\ k' = 0 /\ file' = <<>> /\ buffer' = AnyData
      /\ UNCHANGED <<Status, phase, store, job, orphan, applied, result, answer, disk, option>>
      /\ inCall' = FALSE
  BY DEF TaskEnds, Reset, storeVars
<1>2. Control'
  <2>1. phase = "menu" /\ option \in Options
    BY DEF Inv, Control
  <2>2. flash'.file \in FileNames \cup {""} /\ flash'.base \in Nat
        /\ DOMAIN flash' = {"file", "base", "first", "last"}
    BY FlashAfterTyped
  <2>3. file' \in Seq((SUBSET Data) \ {{}}) /\ buffer' \in Data
    BY <1>1, SomeData
  <2>4. disk' \in Disks /\ Status' \in {"XST_SUCCESS", "XST_FAILURE"}
    BY <1>1 DEF Inv, Control
  <2>5. QED
    BY <1>1, <2>1, <2>2, <2>3, <2>4 DEF Control
<1>3. Plan'
  BY <1>1, PlanTail DEF Inv, FlashAfter
<1>4. Loop'
  <2>1. Doing("scan")' => Task'.pages \in Nat
    <3>1. todo' \in Seq(TaskSet) /\ \A n \in 1..Len(todo') : Good(todo[n], option)'
      BY <1>3 DEF Plan
    <3>2. 1 \in 1..Len(todo') /\ Task' = todo'[1]
      BY <1>1, <3>1 DEF Task
    <3>3. Good(todo[1], option)'
      BY <3>1, <3>2
    <3>4. QED
      BY <3>2, <3>3 DEF Good, Doing
  <2>2. file' = <<>> /\ Len(file') = 0
    BY <1>1
  <2>3. QED
    BY <1>1, <2>1, <2>2 DEF Loop
<1>5. Calls'
  BY <1>1 DEF Inv, Calls, StoreTypes
<1>6. Seen'
  <2>1. PassedMeansPresent'
    BY <1>1 DEF PassedMeansPresent, Ended
  <2>2. QED
    BY <1>1, <2>1 DEF Seen
<1>7. QED
  BY <1>2, <1>3, <1>4, <1>5, <1>6 DEF Inv

(* The option ends.                                                        *)
LEMMA FinishInv ==
  ASSUME Inv, todo # <<>>, NEW r \in {"XST_SUCCESS", "XST_FAILURE"}, Reset, Finish(r),
         job = NoJob, FlashAfter, UNCHANGED <<storeVars, disk, option>>, inCall' = FALSE,
         r = "XST_SUCCESS" /\ Vouches(option) => Present(option.region) /\ orphan = NoJob
  PROVE  Inv'
<1>1. /\ todo' = <<>> /\ k' = 0 /\ file' = <<>> /\ buffer' = AnyData
      /\ Status' = StatusAfter(option, r)
      /\ UNCHANGED <<store, job, orphan, applied, result, answer, disk, option>>
      /\ inCall' = FALSE
  BY DEF Finish, Reset, storeVars
<1>2. phase' \in {"off", "menu"}
  BY DEF Finish
<1>3. Status' \in {"XST_SUCCESS", "XST_FAILURE"}
  BY <1>1 DEF StatusAfter, Inv, Control
<1>4. Control'
  <2>1. option \in Options
    BY DEF Inv, Control
  <2>2. flash'.file \in FileNames \cup {""} /\ flash'.base \in Nat
        /\ DOMAIN flash' = {"file", "base", "first", "last"}
    BY FlashAfterTyped
  <2>3. file' \in Seq((SUBSET Data) \ {{}}) /\ buffer' \in Data
    BY <1>1, SomeData
  <2>4. disk' \in Disks
    BY <1>1 DEF Inv, Control
  <2>5. QED
    BY <1>1, <1>2, <1>3, <2>1, <2>2, <2>3, <2>4 DEF Control
<1>5. Plan'
  BY <1>1 DEF Plan
<1>6. Loop'
  BY <1>1 DEF Loop, Doing, Looping
<1>7. Calls'
  BY <1>1 DEF Inv, Calls, StoreTypes, Doing
<1>8. PassedMeansPresent'
  <2>1. SUFFICES ASSUME Vouches(option), Status' = "XST_SUCCESS"
                 PROVE  Present(option.region)' /\ orphan' = NoJob
    BY <1>1 DEF PassedMeansPresent, Ended, Vouches
  <2>2. r = "XST_SUCCESS"
    BY <1>1, <2>1 DEF StatusAfter, Vouches
  <2>3. Present(option.region) /\ orphan = NoJob
    BY <2>1, <2>2
  <2>4. QED
    BY <1>1, <2>3 DEF Present
<1>9. Seen'
  BY <1>1, <1>8 DEF Seen, Doing
<1>10. QED
  BY <1>4, <1>5, <1>6, <1>7, <1>9 DEF Inv

(* A task fails.                                                           *)
LEMMA TaskFailsInv ==
  ASSUME Inv, todo # <<>>, TaskEnds(FALSE), job = NoJob, FlashAfter,
         UNCHANGED <<storeVars, disk, option>>, inCall' = FALSE
  PROVE  Inv'
<1>1. Reset /\ Finish("XST_FAILURE")
  BY DEF TaskEnds
<1>2. QED
  BY <1>1, FinishInv

(* A task passes; if it is a verification, it has seen the whole image.    *)
LEMMA TaskPassesInv ==
  ASSUME Inv, todo # <<>>, TaskEnds(TRUE), job = NoJob, FlashAfter,
         UNCHANGED <<storeVars, disk, option>>, inCall' = FALSE,
         Doing("verify") =>
           /\ orphan = NoJob /\ flash.file \in DOMAIN disk
           /\ \A n \in 1..Len(disk[flash.file]) :
                store[PageAt(flash.base + n - 1)] \in disk[flash.file][n]
  PROVE  Inv'
<1>1. CASE Tail(todo) # <<>>
  BY <1>1, NextTaskInv
<1>2. CASE Tail(todo) = <<>>
  <2>1. Reset /\ Finish("XST_SUCCESS")
    BY <1>2 DEF TaskEnds
  <2>2. ASSUME Vouches(option) PROVE Present(option.region) /\ orphan = NoJob
    <3>1. todo \in Seq(TaskSet) /\ todo[Len(todo)] = VerifyBin
      BY <2>2 DEF Inv, Plan
    <3>2. Len(todo) = 1
      <4>1. Len(todo) \in Nat \ {0}
        BY FirstTask DEF Inv
      <4>2. Len(Tail(todo)) = Len(todo) - 1
        BY <3>1, <4>1
      <4> DEFINE rest == Tail(todo)
      <4>3. rest = <<>> /\ Len(rest) = Len(todo) - 1
        BY <1>2, <4>2
      <4> HIDE DEF rest
      <4>4. Len(rest) = 0
        BY <4>3
      <4>5. QED
        BY <4>1, <4>3, <4>4
    <3>3. Task = VerifyBin
      BY <3>1, <3>2, FirstTask DEF Inv
    <3>4. Doing("verify") /\ UsesFlashData(Task)
      BY <3>3 DEF Doing, VerifyBin, UsesFlashData
    <3>5. PICK r \in DOMAIN Regions :
            flash = Regions[r] /\ (option.name # "reflash" => r = option.region)
      BY <3>4, RegionOf DEF Inv
    <3>6. flash = Regions[option.region]
      BY <2>2, <3>5 DEF Vouches
    <3>7. QED
      BY <3>4, <3>6 DEF Present
  <2>3. QED
    BY <2>1, <2>2, FinishInv
<1>3. QED
  BY <1>1, <1>2

(* A turn of a loop passes.                                                *)
LEMMA TurnInv ==
  ASSUME Inv, inCall, job = NoJob, k' = k + 1, inCall' = FALSE,
         Doing("erase") \/ Doing("scan") \/ Looping,
         UNCHANGED <<storeVars, flash, disk, option, file, buffer, todo, Status, phase>>,
         Doing("verify") => Done /\ (k > 0 => answer = buffer)
  PROVE  Inv'
<1>1. /\ UNCHANGED <<store, job, orphan, applied, result, answer>>
      /\ k \in Nat
  BY DEF storeVars, Inv, Control
<1>2. /\ Doing("verify")' = Doing("verify") /\ Doing("erase")' = Doing("erase")
      /\ Doing("scan")' = Doing("scan") /\ Looping' = Looping
      /\ Doing("set")' = Doing("set") /\ Doing("call")' = Doing("call")
      /\ Base' = Base /\ FileName' = FileName /\ Task' = Task
  BY DEF Doing, Task, Looping, Base, FileName
<1>3. todo # <<>> /\ ~Doing("set") /\ ~Doing("call")
  BY DEF Doing, Looping
<1>4. Control'
  <2>1. k' \in Nat
    BY <1>1
  <2>2. Control
    BY DEF Inv
  <2>3. QED
    BY <1>2, <2>1, <2>2 DEF Control
<1>5. Plan'
  BY SamePlan DEF Inv
<1>6. Loop'
  <2>1. Doing("erase") => flash.first \in Nat /\ flash.last \in Nat
    <3>1. Doing("erase") => flash.first \in Nat /\ flash.last \in 0..Cardinality(Sectors)
      BY ErasedSector DEF Inv
    <3>2. Cardinality(Sectors) \in Nat
      BY CmdAssumption
    <3>3. QED
      BY <3>1, <3>2
  <2>2. Doing("erase") => flash.first + k < flash.last
    BY DEF Inv, Loop
  <2>3. Doing("erase") => flash.first + (k + 1) <= flash.last
    BY <1>1, <2>1, <2>2
  <2>4. Doing("scan") => Task.pages \in Nat /\ k < Task.pages
    BY <1>3, FirstTask DEF Inv, Loop, Good, Doing
  <2>5. Doing("scan") => k + 1 <= Task.pages
    BY <1>1, <2>4
  <2>6. Looping => FileName \in DOMAIN disk /\ file = disk[FileName] /\ k <= Len(file)
    BY DEF Inv, Loop
  <2>7. Len(file) \in Nat
    <3> DEFINE U == (SUBSET Data) \ {{}}
    <3>1. file \in Seq(U)
      BY DEF Inv, Control
    <3> HIDE DEF U
    <3>2. QED
      BY <3>1
  <2>8. Looping => k + 1 <= Len(file) + 1
    BY <1>1, <2>6, <2>7
  <2>9. QED
    BY <1>2, <1>3, <2>3, <2>5, <2>6, <2>8 DEF Loop
<1>7. Calls'
  BY <1>1 DEF Inv, Calls, StoreTypes
<1>8. Seen'
  <2>1. PassedMeansPresent'
    BY <1>3 DEF PassedMeansPresent, Ended
  <2>2. ASSUME Doing("verify")
        PROVE  orphan = NoJob /\ \A n \in 1..k : store[PageAt(Base + n - 1)] \in file[n]
    <3>1. orphan = NoJob
      <4>1. CASE k = 0
        BY <2>2, <4>1 DEF Inv, Seen
      <4>2. CASE k > 0
        BY <2>2, <4>2 DEF Inv, Seen
      <4>3. QED
        BY <1>1, <4>1, <4>2
    <3>2. ASSUME NEW n \in 1..k PROVE store[PageAt(Base + n - 1)] \in file[n]
      <4>1. k > 0
        BY <1>1, <3>2
      <4>2. CASE n = k
        BY <2>2, <4>1, <4>2 DEF Inv, Seen
      <4>3. CASE n # k
        <5>1. n \in 1..(k - 1)
          BY <1>1, <3>2, <4>3
        <5>2. QED
          BY <2>2, <4>1, <5>1 DEF Inv, Seen
      <4>4. QED
        BY <4>2, <4>3
    <3>3. QED
      BY <3>1, <3>2
  <2>3. (k + 1) - 1 = k /\ k + 1 > 0
    BY <1>1
  <2>4. Doing("verify") =>
          orphan' = NoJob /\ \A n \in 1..(k' - 1) : store'[PageAt(Base' + n - 1)] \in file'[n]
    BY <1>1, <1>2, <2>2, <2>3
  <2>5. k' # 0
    BY <2>3
  <2>6. QED
    BY <1>2, <2>1, <2>4, <2>5 DEF Seen
<1>9. QED
  BY <1>4, <1>5, <1>6, <1>7, <1>8 DEF Inv

(* The program starts.                                                     *)
LEMMA StartInv ==
  ASSUME Inv, Start
  PROVE  Inv'
<1> DEFINE j == Plain("System_init_startup")
<1>1. /\ ~inCall /\ inCall' = TRUE /\ job = NoJob /\ job' = j /\ applied' = FALSE
      /\ result' = "none" /\ answer' = Blank /\ phase = "off" /\ phase' = "startup"
      /\ flash' = NoFlash /\ disk' \in Disks /\ option' = NoOption /\ Status' = "XST_SUCCESS"
      /\ UNCHANGED <<store, orphan, todo, k, file, buffer>>
  BY DEF Start, Begin, taskVars
<1>2. todo = <<>> /\ todo' = <<>>
  BY <1>1 DEF Inv, Control
<1>3. j \in Job /\ Target(j) = {}
  <2>1. j.name = "System_init_startup"
    BY DEF Plain
  <2>2. QED
    BY <2>1 DEF Job, PlainNames, Target
<1> HIDE DEF j
<1>4. Control'
  <2>1. flash'.file \in FileNames \cup {""} /\ flash'.base \in Nat
        /\ DOMAIN flash' = {"file", "base", "first", "last"}
    BY <1>1 DEF NoFlash
  <2>2. k' \in Nat /\ file' \in Seq((SUBSET Data) \ {{}}) /\ buffer' \in Data
    BY <1>1 DEF Inv, Control
  <2>3. phase' = "startup" /\ inCall' = TRUE /\ option' = NoOption /\ disk' \in Disks
        /\ Status' = "XST_SUCCESS" /\ todo' = <<>>
    BY <1>1, <1>2
  <2>4. QED
    BY <2>1, <2>2, <2>3 DEF Control
<1>5. Plan'
  BY <1>2 DEF Plan
<1>6. Loop'
  BY <1>1, <1>2 DEF Inv, Loop, Doing, Looping
<1>7. Calls'
  <2>1. StoreTypes'
    BY <1>1, <1>3 DEF Inv, Calls, StoreTypes, Contents
  <2>2. Target(job') = {}
    BY <1>1, <1>3
  <2>3. Target(job)' = {}
    BY <2>2 DEF Target
  <2>4. job' # NoJob
    BY <1>1, <1>3, JobKinds
  <2>5. QED
    BY <1>1, <1>2, <2>1, <2>3, <2>4 DEF Calls, Doing
<1>8. Seen'
  BY <1>1, <1>2 DEF Seen, PassedMeansPresent, Ended, Doing, NoOption
<1>9. QED
  BY <1>4, <1>5, <1>6, <1>7, <1>8 DEF Inv

(* The start-up returns.                                                   *)
LEMMA StartBackInv ==
  ASSUME Inv, StartBack
  PROVE  Inv'
<1>1. /\ phase = "startup" /\ phase' \in {"menu", "off"} /\ Status' = result
      /\ inCall /\ job = NoJob /\ inCall' = FALSE
      /\ UNCHANGED <<store, job, orphan, applied, result, answer>>
      /\ UNCHANGED <<flash, disk, option, todo, k, file, buffer>>
  BY DEF StartBack, Back, taskVars, storeVars
<1>2. todo = <<>> /\ todo' = <<>> /\ option' = NoOption
  BY <1>1 DEF Inv, Control
<1>3. Status' \in {"XST_SUCCESS", "XST_FAILURE"}
  BY <1>1 DEF Inv, Calls, StoreTypes
<1>4. Control'
  BY <1>1, <1>2, <1>3 DEF Inv, Control
<1>5. Plan'
  BY <1>2 DEF Plan
<1>6. Loop'
  BY <1>1, <1>2 DEF Inv, Loop, Doing, Looping
<1>7. Calls'
  BY <1>1, <1>2 DEF Inv, Calls, StoreTypes, Doing
<1>8. Seen'
  BY <1>2 DEF Seen, PassedMeansPresent, Ended, Doing, NoOption
<1>9. QED
  BY <1>4, <1>5, <1>6, <1>7, <1>8 DEF Inv

(* An option is chosen.                                                    *)
LEMMA ChooseInv ==
  ASSUME Inv, NEW o \in Options, Choose(o)
  PROVE  Inv'
<1>1. /\ phase = "menu" /\ todo = <<>> /\ option' = o /\ todo' = Tasks(o)
      /\ UNCHANGED <<store, job, orphan, applied, result, answer>>
      /\ UNCHANGED <<phase, flash, disk, Status, k, file, buffer, inCall>>
  BY DEF Choose, taskVars, storeVars
<1>2. Planned(Tasks(o), o)
  BY TasksPlanned
<1>3. todo' # <<>>
  BY <1>1, <1>2 DEF Planned
<1>4. ~inCall /\ job = NoJob /\ k = 0
  BY <1>1 DEF Inv, Control, Calls, Loop
<1>5. Control'
  BY <1>1, <1>4 DEF Inv, Control
<1>6. Plan'
  <2>1. MayChange(o)' = MayChange(o)
    BY <1>1 DEF MayChange, ImagePages
  <2>2. ASSUME NEW n \in 1..Len(todo') PROVE Good(todo[n], option)'
    <3>1. Good(todo'[n], o)
      BY <1>1, <1>2, <2>2 DEF Planned, Fits
    <3>2. MayChange(option)' = MayChange(o)
      BY <1>1 DEF MayChange, ImagePages
    <3>3. QED
      BY <1>1, <3>1, <3>2 DEF Good
  <2>3. \A n \in 1..Len(todo') : UsesFlashData(todo'[n]) => SetBefore(todo', n)
    BY <1>1, <1>2 DEF Planned, Fits
  <2>4. todo' \in Seq(TaskSet) /\ (Vouches(option') => todo'[Len(todo')] = VerifyBin)
    BY <1>1, <1>2 DEF Planned, Fits
  <2>5. QED
    BY <2>2, <2>3, <2>4 DEF Plan
<1>7. Loop'
  <2>1. Doing("scan")' => Task'.pages \in Nat
    <3>1. todo' \in Seq(TaskSet) /\ \A n \in 1..Len(todo') : Good(todo[n], option)'
      BY <1>6 DEF Plan
    <3>2. 1 \in 1..Len(todo') /\ Task' = todo'[1]
      BY <1>3, <3>1 DEF Task
    <3>3. Good(todo[1], option)'
      BY <3>1, <3>2
    <3>4. QED
      BY <3>2, <3>3 DEF Good, Doing
  <2>2. Len(file) \in Nat
    <3> DEFINE U == (SUBSET Data) \ {{}}
    <3>1. file \in Seq(U)
      BY DEF Inv, Control
    <3> HIDE DEF U
    <3>2. QED
      BY <3>1
  <2>3. k' = 0 /\ inCall' = FALSE /\ Len(file') \in Nat
    BY <1>1, <1>4, <2>2 DEF Inv, Control
  <2>4. QED
    BY <2>1, <2>3 DEF Loop
<1>8. Calls'
  BY <1>1, <1>4 DEF Inv, Calls, StoreTypes
<1>9. Seen'
  BY <1>1, <1>3, <1>4 DEF Seen, PassedMeansPresent, Ended
<1>10. QED
  BY <1>5, <1>6, <1>7, <1>8, <1>9 DEF Inv

(* The options that only set a path or a name.                             *)
LEMMA SettingInv ==
  ASSUME Inv, SetPath \/ SetFilename(FixedFile)
  PROVE  Inv'
<1>1. /\ phase = "menu" /\ todo = <<>> /\ todo' = <<>> /\ disk' \in Disks
      /\ option' = NoOption \/ option'.name = "setFilename"
      /\ UNCHANGED <<store, job, orphan, applied, result, answer>>
      /\ UNCHANGED <<phase, Status, k, file, buffer, inCall>>
  <2>1. disk \in Disks
    BY DEF Inv, Control
  <2>2. QED
    BY <2>1 DEF SetPath, SetFilename, taskVars, storeVars
<1>2. ~inCall /\ job = NoJob
  BY <1>1 DEF Inv, Control, Calls
<1>3. flash'.file \in FileNames \cup {""} /\ flash'.base \in Nat
      /\ DOMAIN flash' = {"file", "base", "first", "last"}
  <2>1. flash.file \in FileNames \cup {""} /\ flash.base \in Nat
        /\ DOMAIN flash = {"file", "base", "first", "last"}
    BY DEF Inv, Control
  <2>2. flash' = flash \/ flash' = [flash EXCEPT !.file = FixedFile]
    BY DEF SetPath, SetFilename
  <2>3. FixedFile \in FileNames
    BY DEF FileNames
  <2>4. QED
    BY <2>1, <2>2, <2>3
<1>4. Control'
  BY <1>1, <1>2, <1>3 DEF Inv, Control
<1>5. Plan'
  BY <1>1 DEF Plan
<1>6. Loop'
  BY <1>1 DEF Inv, Loop, Doing, Looping
<1>7. Calls'
  BY <1>1, <1>2 DEF Inv, Calls, StoreTypes, Doing
<1>8. Seen'
  <2>1. option'.name \in {"none", "setFilename"}
    BY <1>1 DEF NoOption
  <2>2. QED
    BY <1>1, <2>1 DEF Seen, PassedMeansPresent, Ended, Doing
<1>9. QED
  BY <1>4, <1>5, <1>6, <1>7, <1>8 DEF Inv

(* The process is killed.                                                  *)
LEMMA ProcessEndInv ==
  ASSUME Inv, ProcessEnd
  PROVE  Inv'
<1>1. /\ phase' = "off" /\ option' = NoOption /\ todo' = <<>> /\ inCall' = FALSE
      /\ k' = 0 /\ file' = <<>> /\ buffer' = AnyData
      /\ flash' = NoFlash /\ Status' = "XST_SUCCESS" /\ disk' = disk
  BY DEF ProcessEnd, Reset
<1>2. StoreTypes' /\ job' = NoJob
  <2>1. CASE Fail("none")
    <3>1. StoreTypes'
      BY <2>1, FlashEffect DEF Inv, Calls
    <3>2. QED
      BY <2>1, <3>1 DEF Fail
  <2>2. CASE Rest
    BY <2>2 DEF Rest, Inv, Calls, StoreTypes, Contents
  <2>3. QED
    BY <2>1, <2>2 DEF ProcessEnd
<1>3. Control'
  <2>1. flash'.file \in FileNames \cup {""} /\ flash'.base \in Nat
        /\ DOMAIN flash' = {"file", "base", "first", "last"}
    BY <1>1 DEF NoFlash
  <2>2. disk \in Disks
    BY DEF Inv, Control
  <2>3. file' \in Seq((SUBSET Data) \ {{}}) /\ buffer' \in Data
    BY <1>1, SomeData
  <2>4. disk' \in Disks /\ phase' = "off" /\ inCall' = FALSE /\ k' = 0 /\ todo' = <<>>
        /\ option' = NoOption /\ Status' = "XST_SUCCESS"
    BY <1>1, <2>2
  <2>5. QED
    BY <2>1, <2>3, <2>4 DEF Control
<1>4. Plan'
  BY <1>1 DEF Plan
<1>5. Loop'
  BY <1>1 DEF Loop, Doing, Looping
<1>6. Calls'
  BY <1>1, <1>2 DEF Calls, Doing
<1>7. Seen'
  BY <1>1 DEF Seen, PassedMeansPresent, Ended, Doing, NoOption
<1>8. QED
  BY <1>3, <1>4, <1>5, <1>6, <1>7 DEF Inv

LEMMA StutterInv ==
  ASSUME Inv, UNCHANGED vars
  PROVE  Inv'
<1>1. /\ UNCHANGED <<store, job, orphan, applied, result, answer>>
      /\ UNCHANGED <<phase, flash, disk, Status, option, todo, k, file, buffer, inCall>>
  BY DEF vars, storeVars, taskVars
<1>2. Doing("verify")' = Doing("verify") /\ Base' = Base
  BY <1>1 DEF Doing, Task, Base
<1>3. Control'
  BY <1>1 DEF Inv, Control, Doing, Task
<1>4. Plan'
  BY <1>1, SamePlan DEF Inv
<1>5. Loop'
  BY <1>1 DEF Inv, Loop, Doing, Task, Looping, FileName
<1>6. MayChange(option)' = MayChange(option)
  BY <1>1, SameOption
<1>7. Calls'
  BY <1>1, <1>2, <1>6 DEF Inv, Calls, StoreTypes
<1>8. PassedMeansPresent'
  BY <1>1 DEF Inv, Seen, PassedMeansPresent, Ended, Present
<1>9. Seen'
  BY <1>1, <1>2, <1>8 DEF Inv, Seen, Done
<1>10. QED
  BY <1>3, <1>4, <1>5, <1>7, <1>9 DEF Inv

(* FlashData is set.                                                       *)
LEMMA SetRegionInv ==
  ASSUME Inv, SetRegion
  PROVE  Inv'
<1>1. todo # <<>> /\ Doing("set") /\ ~Doing("verify")
  BY DEF SetRegion, Doing
<1>2. TaskEnds(TRUE) /\ FlashAfter /\ UNCHANGED <<storeVars, disk, option, inCall>>
  BY <1>1 DEF SetRegion, FlashAfter
<1>3. phase # "startup"
  BY <1>1 DEF Inv, Control
<1>4. inCall = FALSE
  BY <1>1, <1>3 DEF Inv, Control
<1>5. job = NoJob
  BY <1>4 DEF Inv, Calls
<1>6. QED
  BY <1>1, <1>2, <1>4, <1>5, TaskPassesInv

(* A single call.                                                          *)
LEMMA CallFlashInv ==
  ASSUME Inv, CallFlash
  PROVE  Inv'
<1>1. /\ todo # <<>> /\ Doing("call") /\ ~Doing("set") /\ ~Doing("verify")
      /\ UNCHANGED <<k, file, buffer>>
  BY DEF CallFlash, Doing, taskVars
<1>2. Task.job \in Job /\ Target(Task.job) \subseteq MayChange(option)
  BY <1>1, FirstTask DEF Inv, Good, Doing
<1>3. PICK j \in Job : Enter(j) /\ Target(j) \subseteq MayChange(option)
  BY <1>2 DEF CallFlash
<1>4. file' \in Seq((SUBSET Data) \ {{}}) /\ buffer' \in Data
  BY <1>1 DEF Inv, Control
<1>5. Loop'
  <2>1. todo' = todo
    BY <1>3 DEF Enter
  <2>2. Doing("call")' /\ ~Doing("erase")' /\ ~Doing("scan")' /\ ~Looping'
    BY <1>1, <2>1 DEF Doing, Task, Looping
  <2>3. k' = 0
    BY <1>1 DEF Inv, Loop
  <2>4. QED
    BY <2>2, <2>3 DEF Loop
<1>6. QED
  BY <1>1, <1>3, <1>4, <1>5, EnterInv

LEMMA CallBackInv ==
  ASSUME Inv, CallBack
  PROVE  Inv'
<1>1. /\ todo # <<>> /\ Doing("call") /\ ~Doing("set") /\ ~Doing("verify")
      /\ job = NoJob /\ inCall' = FALSE /\ UNCHANGED <<storeVars, disk, option, flash>>
      /\ TaskEnds(TRUE) \/ TaskEnds(FALSE)
  BY DEF CallBack, Back, Doing, TaskEnds
<1>2. FlashAfter
  BY <1>1 DEF FlashAfter
<1>3. QED
  BY <1>1, <1>2, TaskPassesInv, TaskFailsInv

(* The sectors of an erase.                                                *)
LEMMA EraseNextInv ==
  ASSUME Inv, EraseNext
  PROVE  Inv'
<1>1. /\ todo # <<>> /\ Doing("erase") /\ ~Doing("set") /\ ~Doing("verify")
      /\ UNCHANGED <<k, file, buffer>> /\ flash.first + k < flash.last
  BY DEF EraseNext, Doing, taskVars
<1>2. PICK j \in Job : Enter(j) /\ Target(j) \subseteq MayChange(option)
  BY <1>1, ErasedSector DEF EraseNext, Inv
<1>3. file' \in Seq((SUBSET Data) \ {{}}) /\ buffer' \in Data
  BY <1>1 DEF Inv, Control
<1>4. Loop'
  <2>1. todo' = todo /\ flash' = flash /\ inCall' = TRUE
    BY <1>2 DEF Enter
  <2>2. Doing("erase")' /\ ~Doing("call")' /\ ~Doing("set")' /\ ~Doing("scan")' /\ ~Looping'
        /\ todo' # <<>>
    BY <1>1, <2>1 DEF Doing, Task, Looping
  <2>3. k > 0 => flash.first + k <= flash.last
    BY <1>1 DEF Inv, Loop
  <2>4. QED
    BY <1>1, <2>1, <2>2, <2>3 DEF Loop
<1>5. QED
  BY <1>1, <1>2, <1>3, <1>4, EnterInv

LEMMA EraseBackInv ==
  ASSUME Inv, EraseBack
  PROVE  Inv'
<1>1. /\ todo # <<>> /\ Doing("erase") /\ ~Doing("set") /\ ~Doing("verify")
      /\ inCall /\ job = NoJob /\ inCall' = FALSE /\ UNCHANGED <<storeVars, disk, option, flash>>
  BY DEF EraseBack, Back, Doing
<1>2. CASE Done
  BY <1>1, <1>2, TurnInv DEF EraseBack, TurnEnds
<1>3. CASE ~Done
  <2>1. TaskEnds(FALSE)
    BY <1>3 DEF EraseBack, TurnEnds
  <2>2. FlashAfter
    BY <1>1 DEF FlashAfter
  <2>3. QED
    BY <1>1, <2>1, <2>2, TaskFailsInv
<1>4. QED
  BY <1>2, <1>3

LEMMA EraseEndInv ==
  ASSUME Inv, EraseEnd
  PROVE  Inv'
<1>1. /\ todo # <<>> /\ Doing("erase") /\ ~Doing("set") /\ ~Doing("verify") /\ inCall = FALSE
      /\ inCall' = FALSE /\ UNCHANGED <<storeVars, disk, option, flash>> /\ TaskEnds(TRUE)
  BY DEF EraseEnd, Doing, Inv, Control
<1>2. FlashAfter /\ job = NoJob
  BY <1>1 DEF FlashAfter, Inv, Calls
<1>3. QED
  BY <1>1, <1>2, TaskPassesInv

(* An image file.                                                          *)
LEMMA FileMissingInv ==
  ASSUME Inv, FileMissing
  PROVE  Inv'
<1>1. /\ todo # <<>> /\ ~Doing("set") /\ inCall = FALSE
      /\ inCall' = FALSE /\ UNCHANGED <<storeVars, disk, option, flash>> /\ TaskEnds(FALSE)
  BY DEF FileMissing, Looping, Doing, Inv, Control
<1>2. FlashAfter /\ job = NoJob
  BY <1>1 DEF FlashAfter, Inv, Calls
<1>3. QED
  BY <1>1, <1>2, TaskFailsInv

LEMMA OpenInv ==
  ASSUME Inv, Open
  PROVE  Inv'
<1> DEFINE we == Plain("SpiFlashWriteEnable")
<1>1. /\ Looping /\ todo # <<>> /\ ~Doing("set") /\ ~Doing("call") /\ ~Doing("erase")
      /\ ~Doing("scan") /\ FileName \in DOMAIN disk /\ k = 0 /\ k' = k /\ buffer' = buffer
      /\ file' = disk[FileName] /\ Enter(we)
  BY DEF Open, Looping, Doing
<1>2. we \in Job /\ Target(we) = {}
  <2>1. we.name = "SpiFlashWriteEnable"
    BY DEF Plain
  <2>2. QED
    BY <2>1 DEF Job, PlainNames, Target
<1>3. file' \in Seq((SUBSET Data) \ {{}}) /\ buffer' \in Data /\ Len(file') \in Nat
  <2>1. disk[FileName] \in Seq((SUBSET Data) \ {{}}) /\ Len(disk[FileName]) \in Nat
    BY <1>1, ImageFits DEF Inv
  <2>2. buffer \in Data
    BY DEF Inv, Control
  <2>3. QED
    BY <1>1, <2>1, <2>2
<1>4. Loop'
  <2>1. todo' = todo /\ disk' = disk /\ flash' = flash
    BY <1>1 DEF Enter
  <2>2. Looping' /\ ~Doing("call")' /\ ~Doing("set")' /\ ~Doing("erase")' /\ ~Doing("scan")'
        /\ FileName' = FileName
    BY <1>1, <2>1 DEF Doing, Task, Looping, FileName
  <2>3. k' = 0 /\ k' <= Len(file') + 1 /\ k' <= Len(file')
    BY <1>1, <1>3
  <2>4. FileName \in DOMAIN disk /\ file' = disk[FileName]
    BY <1>1
  <2>5. QED
    BY <2>1, <2>2, <2>3, <2>4 DEF Loop
<1> HIDE DEF we
<1>5. Target(we) \subseteq MayChange(option)
  BY <1>2
<1>6. Doing("verify") => we = IF k = 0 THEN Plain("SpiFlashWriteEnable")
                              ELSE Read(PageAt(Base + k - 1))
  BY <1>1 DEF we
<1>7. ~(k > 0)
  BY <1>1
<1>8. QED
  BY <1>1, <1>2, <1>3, <1>4, <1>5, <1>6, <1>7, EnterInv

(* The page a loop is at.                                                  *)
LEMMA AtPage ==
  ASSUME Inv, Looping, More
  PROVE  /\ k \in 1..Len(file) /\ k > 0 /\ file[k] \subseteq Data
         /\ PageAt(Base + k - 1) \in Page
         /\ Doing("program") => PageAt(Base + k - 1) \in MayChange(option)
<1>1. k \in Nat
  BY DEF Inv, Control
<1>2. k \in 1..Len(file)
  BY DEF More
<1>3. k > 0
  <2>1. Len(file) \in Nat
    <3> DEFINE U == (SUBSET Data) \ {{}}
    <3>1. file \in Seq(U)
      BY DEF Inv, Control
    <3> HIDE DEF U
    <3>2. QED
      BY <3>1
  <2>2. QED
    BY <1>2, <2>1
<1>4. FileName \in DOMAIN disk /\ file = disk[FileName]
  BY <1>3 DEF Inv, Loop
<1>5. file \in Seq((SUBSET Data) \ {{}})
  BY DEF Inv, Control
<1>6. file[k] \in (SUBSET Data) \ {{}}
  <2> DEFINE U == (SUBSET Data) \ {{}}
  <2>1. file \in Seq(U)
    BY <1>5
  <2> HIDE DEF U
  <2>2. file[k] \in U
    BY <1>2, <2>1
  <2>3. QED
    BY <2>2 DEF U
<1>7. QED
  BY <1>2, <1>3, <1>4, <1>6, ImageFits DEF Inv

(* A loop over the pages goes on with a call.                              *)
LEMMA PageLoop ==
  ASSUME Inv, Looping, More, UNCHANGED <<k, file, todo, disk, flash>>
  PROVE  Loop'
<1>1. /\ Looping' /\ ~Doing("call")' /\ ~Doing("set")' /\ ~Doing("erase")' /\ ~Doing("scan")'
      /\ FileName' = FileName /\ todo' # <<>>
  BY DEF Doing, Task, Looping, FileName
<1>2. k \in 1..Len(file) /\ k \in Nat /\ Len(file) \in Nat
  <2> DEFINE U == (SUBSET Data) \ {{}}
  <2>1. file \in Seq(U)
    BY DEF Inv, Control
  <2> HIDE DEF U
  <2>2. Len(file) \in Nat
    BY <2>1
  <2>3. QED
    BY <2>2 DEF More, Inv, Control
<1>3. k > 0 /\ k <= Len(file) /\ k <= Len(file) + 1
  BY <1>2
<1>4. FileName \in DOMAIN disk /\ file = disk[FileName]
  BY <1>3 DEF Inv, Loop
<1>5. QED
  BY <1>1, <1>3, <1>4 DEF Loop

LEMMA ProgramPageInv ==
  ASSUME Inv, ProgramPage
  PROVE  Inv'
<1>1. /\ Looping /\ More /\ todo # <<>> /\ Doing("program") /\ ~Doing("set") /\ ~Doing("verify")
      /\ UNCHANGED <<k, file, buffer>>
  BY DEF ProgramPage, Looping, Doing, taskVars
<1>2. PICK d \in file[k] : Enter(WriteFile(PageAt(Base + k - 1), d))
  BY DEF ProgramPage
<1> DEFINE p == PageAt(Base + k - 1)
<1>3. d \in Data /\ p \in Page /\ p \in MayChange(option)
  BY <1>1, AtPage
<1> HIDE DEF p
<1>4. WriteFile(p, d) \in Job
  BY <1>3 DEF Job
<1>5. Target(WriteFile(p, d)) \subseteq MayChange(option)
  <2>1. WriteFile(p, d).name = "SpiFlashWrite_File" /\ WriteFile(p, d).page = p
    BY DEF WriteFile
  <2>2. Target(WriteFile(p, d)) = {p}
    BY <2>1 DEF Target
  <2>3. QED
    BY <1>3, <2>2
<1>6. PICK j \in Job : Enter(j) /\ Target(j) \subseteq MayChange(option)
  BY <1>2, <1>4, <1>5 DEF p
<1>7. file' \in Seq((SUBSET Data) \ {{}}) /\ buffer' \in Data
  BY <1>1 DEF Inv, Control
<1>8. Loop'
  BY <1>1, <1>6, PageLoop DEF Enter
<1>9. QED
  BY <1>1, <1>6, <1>7, <1>8, EnterInv

LEMMA VerifyPageInv ==
  ASSUME Inv, VerifyPage
  PROVE  Inv'
<1> DEFINE j == Read(PageAt(Base + k - 1))
<1>1. /\ Looping /\ More /\ todo # <<>> /\ Doing("verify") /\ ~Doing("set")
      /\ UNCHANGED <<k, file>> /\ Enter(j) /\ buffer' \in file[k]
  BY DEF VerifyPage, Looping, Doing
<1>2. file[k] \subseteq Data /\ k # 0
  <2>1. file[k] \subseteq Data /\ k > 0
    BY <1>1, AtPage
  <2>2. k \in Nat
    BY DEF Inv, Control
  <2>3. QED
    BY <2>1, <2>2
<1>3. j \in Job /\ Target(j) = {}
  <2>1. PageAt(Base + k - 1) \in Page
    BY <1>1, AtPage
  <2>2. j \in Job
    BY <2>1 DEF Job
  <2>3. j.name = "SpiFlashRead"
    BY DEF Read
  <2>4. QED
    BY <2>2, <2>3 DEF Target
<1>4. file' \in Seq((SUBSET Data) \ {{}}) /\ buffer' \in Data
  <2>1. file \in Seq((SUBSET Data) \ {{}})
    BY DEF Inv, Control
  <2>2. QED
    BY <1>1, <1>2, <2>1
<1>5. Loop'
  BY <1>1, PageLoop DEF Enter
<1>6. j = IF k = 0 THEN Plain("SpiFlashWriteEnable") ELSE Read(PageAt(Base + k - 1))
  BY <1>2
<1> HIDE DEF j
<1>7. Target(j) \subseteq MayChange(option)
  BY <1>3
<1>8. QED
  BY <1>1, <1>3, <1>4, <1>5, <1>6, <1>7, EnterInv

LEMMA PageBackInv ==
  ASSUME Inv, PageBack
  PROVE  Inv'
<1>1. /\ Looping /\ todo # <<>> /\ ~Doing("set")
      /\ inCall /\ job = NoJob /\ inCall' = FALSE /\ UNCHANGED <<storeVars, disk, option, flash>>
  BY DEF PageBack, Back, Looping, Doing
<1>2. CASE Done /\ (Doing("verify") /\ k > 0 => answer = buffer)
  <2>1. k' = k + 1 /\ UNCHANGED <<file, buffer, todo, Status, phase>>
    BY <1>2 DEF PageBack, TurnEnds
  <2>2. QED
    BY <1>1, <1>2, <2>1, TurnInv
<1>3. CASE ~(Done /\ (Doing("verify") /\ k > 0 => answer = buffer))
  <2>1. TaskEnds(FALSE)
    BY <1>3 DEF PageBack, TurnEnds
  <2>2. FlashAfter
    BY <1>1 DEF FlashAfter
  <2>3. QED
    BY <1>1, <2>1, <2>2, TaskFailsInv
<1>4. QED
  BY <1>2, <1>3

LEMMA PagesEndInv ==
  ASSUME Inv, PagesEnd
  PROVE  Inv'
<1>1. /\ Looping /\ todo # <<>> /\ ~Doing("set") /\ inCall = FALSE /\ k = Len(file) + 1
      /\ inCall' = FALSE /\ UNCHANGED <<storeVars, disk, option, flash>> /\ TaskEnds(TRUE)
  BY DEF PagesEnd, Looping, Doing, Inv, Control
<1>2. FlashAfter /\ job = NoJob
  BY <1>1 DEF FlashAfter, Inv, Calls
<1>3. Len(file) \in Nat
  <2> DEFINE U == (SUBSET Data) \ {{}}
  <2>1. file \in Seq(U)
    BY DEF Inv, Control
  <2> HIDE DEF U
  <2>2. QED
    BY <2>1
<1>4. k > 0 /\ k - 1 = Len(file)
  BY <1>1, <1>3
<1>5. FileName \in DOMAIN disk /\ file = disk[FileName]
  BY <1>1, <1>4 DEF Inv, Loop
<1>6. ASSUME Doing("verify")
      PROVE  /\ orphan = NoJob /\ flash.file \in DOMAIN disk
             /\ \A n \in 1..Len(disk[flash.file]) :
                  store[PageAt(flash.base + n - 1)] \in disk[flash.file][n]
  <2>1. ~Task.fixed
    BY <1>1, <1>6, FirstTask DEF Inv, Good, Doing
  <2>2. FileName = flash.file /\ Base = flash.base
    BY <2>1 DEF FileName, Base
  <2>3. orphan = NoJob /\ \A n \in 1..(k - 1) : store[PageAt(Base + n - 1)] \in file[n]
    BY <1>4, <1>6 DEF Inv, Seen
  <2>4. QED
    BY <1>4, <1>5, <2>2, <2>3
<1>7. QED
  BY <1>1, <1>2, <1>6, TaskPassesInv

(* The blank check and the read back.                                      *)
LEMMA ScanPageInv ==
  ASSUME Inv, ScanPage
  PROVE  Inv'
<1>1. /\ todo # <<>> /\ Doing("scan") /\ ~Doing("set") /\ ~Doing("verify") /\ k < Task.pages
      /\ UNCHANGED <<k, file, buffer>> /\ Enter(Read(PageAt(Task.page + k)))
  BY DEF ScanPage, Doing, taskVars
<1>2. Task.page \in Nat /\ Task.pages \in Nat /\ Task.page + Task.pages <= Capacity
  BY <1>1, FirstTask DEF Inv, Good, Doing
<1>3. PageAt(Task.page + k) \in Page
  <2>1. k \in Nat
    BY DEF Inv, Control
  <2>2. Task.page + k \in Nat /\ Task.page + k < Capacity
    BY <1>1, <1>2, <2>1, CapacityIsNat
  <2>3. QED
    BY <2>2, PageInFlash
<1>4. PICK j \in Job : Enter(j) /\ Target(j) \subseteq MayChange(option)
  <2> DEFINE r == Read(PageAt(Task.page + k))
  <2>1. r.name = "SpiFlashRead"
    BY DEF Read
  <2>2. r \in Job
    BY <1>3 DEF Job
  <2>3. Target(r) = {}
    BY <2>1 DEF Target
  <2>4. Enter(r)
    BY <1>1
  <2> HIDE DEF r
  <2>5. QED
    BY <2>2, <2>3, <2>4
<1>5. file' \in Seq((SUBSET Data) \ {{}}) /\ buffer' \in Data
  BY <1>1 DEF Inv, Control
<1>6. Loop'
  <2>1. todo' = todo
    BY <1>4 DEF Enter
  <2>2. Doing("scan")' /\ ~Doing("call")' /\ ~Doing("set")' /\ ~Doing("erase")' /\ ~Looping'
        /\ todo' # <<>> /\ Task' = Task
    BY <1>1, <2>1 DEF Doing, Task, Looping
  <2>3. k <= Task.pages
    BY <1>1 DEF Inv, Loop
  <2>4. QED
    BY <1>1, <2>2, <2>3 DEF Loop
<1>7. QED
  BY <1>1, <1>4, <1>5, <1>6, EnterInv

LEMMA ScanBackInv ==
  ASSUME Inv, ScanBack
  PROVE  Inv'
<1>1. /\ todo # <<>> /\ Doing("scan") /\ ~Doing("set") /\ ~Doing("verify")
      /\ inCall /\ job = NoJob /\ inCall' = FALSE /\ UNCHANGED <<storeVars, disk, option, flash>>
  BY DEF ScanBack, Back, Doing
<1>2. \/ k' = k + 1 /\ UNCHANGED <<file, buffer, todo, Status, phase>>
      \/ TaskEnds(FALSE)
  BY DEF ScanBack, TurnEnds
<1>3. FlashAfter
  BY <1>1 DEF FlashAfter
<1>4. QED
  BY <1>1, <1>2, <1>3, TurnInv, TaskFailsInv

LEMMA ScanEndInv ==
  ASSUME Inv, ScanEnd
  PROVE  Inv'
<1>1. /\ todo # <<>> /\ Doing("scan") /\ ~Doing("set") /\ ~Doing("verify") /\ inCall = FALSE
      /\ inCall' = FALSE /\ UNCHANGED <<storeVars, disk, option, flash>> /\ TaskEnds(TRUE)
  BY DEF ScanEnd, Doing, Inv, Control
<1>2. FlashAfter /\ job = NoJob
  BY <1>1 DEF FlashAfter, Inv, Calls
<1>3. QED
  BY <1>1, <1>2, TaskPassesInv

-----------------------------------------------------------------------------
(* The initial states.                                                     *)
LEMMA InitInv == Init => Inv
<1> SUFFICES ASSUME Init PROVE Inv
  OBVIOUS
<1>1. /\ phase = "off" /\ flash = NoFlash /\ disk \in Disks /\ Status = "XST_SUCCESS"
      /\ option = NoOption /\ todo = <<>> /\ inCall = FALSE
      /\ k = 0 /\ file = <<>> /\ buffer = AnyData
  BY DEF Init
<1>2. /\ store \in [Page -> Contents] /\ job = NoJob /\ applied = FALSE /\ orphan = NoJob
      /\ result = "none" /\ answer = Blank
  BY DEF Init, StoreInit
<1>3. Control
  <2>1. flash.file \in FileNames \cup {""} /\ flash.base \in Nat
        /\ DOMAIN flash = {"file", "base", "first", "last"}
    BY <1>1 DEF NoFlash
  <2>2. file \in Seq((SUBSET Data) \ {{}}) /\ buffer \in Data
    BY <1>1, SomeData
  <2>3. phase = "off" /\ disk \in Disks /\ Status = "XST_SUCCESS" /\ option = NoOption
        /\ todo = <<>> /\ inCall = FALSE /\ k = 0
    BY <1>1
  <2>4. QED
    BY <2>1, <2>2, <2>3 DEF Control
<1>4. Plan
  BY <1>1 DEF Plan
<1>5. Loop
  BY <1>1 DEF Loop, Doing, Looping
<1>6. Calls
  BY <1>1, <1>2 DEF Calls, StoreTypes, Doing, Contents
<1>7. Seen
  BY <1>1 DEF Seen, PassedMeansPresent, Ended, Doing, NoOption
<1>8. QED
  BY <1>3, <1>4, <1>5, <1>6, <1>7 DEF Inv

(* Every step keeps the invariant.                                         *)
LEMMA InvStep ==
  ASSUME Inv, [Next]_vars
  PROVE  Inv'
<1>1. ASSUME NEW o \in Options, Choose(o) PROVE Inv'
  BY <1>1, ChooseInv
<1>2. CASE TaskStep
  BY <1>2, SetRegionInv, CallFlashInv, CallBackInv, EraseNextInv, EraseBackInv, EraseEndInv,
     FileMissingInv, OpenInv, ProgramPageInv, VerifyPageInv, PageBackInv, PagesEndInv,
     ScanPageInv, ScanBackInv, ScanEndInv DEF TaskStep
<1>3. QED
  BY <1>1, <1>2, StartInv, StartBackInv, SettingInv, FlashInv, ProcessEndInv, StutterInv
     DEF Next

THEOREM Invariant == Spec => []Inv
<1>1. Inv /\ [Next]_vars => Inv'
  BY InvStep
<1>2. QED
  BY InitInv, <1>1, PTL DEF Spec

-----------------------------------------------------------------------------
(* How far a loop may have come.                                           *)
LEMMA CounterBounded ==
  ASSUME Inv
  PROVE  k \in 0..(Capacity + 1)
<1>1. k \in Nat /\ Capacity \in Nat /\ Cardinality(Sectors) <= Capacity
  BY CapacityIsNat DEF Inv, Control
<1>2. CASE todo = <<>> \/ Doing("set") \/ Doing("call")
  BY <1>1, <1>2 DEF Inv, Loop
<1>3. CASE Doing("erase")
  <2>1. flash.first \in Nat /\ flash.last \in 0..Cardinality(Sectors)
    BY <1>3, ErasedSector DEF Inv
  <2>2. k > 0 => flash.first + k <= flash.last
    BY <1>3 DEF Inv, Loop
  <2>3. Cardinality(Sectors) \in Nat
    BY CmdAssumption
  <2>4. QED
    BY <1>1, <2>1, <2>2, <2>3
<1>4. CASE Doing("scan")
  <2>1. Task.page \in Nat /\ Task.pages \in Nat /\ Task.page + Task.pages <= Capacity
    BY <1>4, FirstTask DEF Inv, Good, Doing
  <2>2. k <= Task.pages
    BY <1>4 DEF Inv, Loop
  <2>3. QED
    BY <1>1, <2>1, <2>2
<1>5. CASE Looping /\ k > 0
  <2>1. FileName \in DOMAIN disk /\ file = disk[FileName] /\ k <= Len(file) + 1
    BY <1>5 DEF Inv, Loop
  <2>2. Base \in Nat /\ Len(file) \in Nat /\ Base + Len(file) <= Capacity
    BY <1>5, <2>1, ImageFits DEF Inv
  <2>3. QED
    BY <1>1, <2>1, <2>2
<1>6. CASE ~(k > 0)
  BY <1>1, <1>6
<1>7. todo # <<>> => \E d \in {"set", "call", "erase", "program", "verify", "scan"} : Doing(d)
  BY TaskDoes DEF Inv
<1>8. QED
  BY <1>2, <1>3, <1>4, <1>5, <1>6, <1>7 DEF Looping

(* Every variable of the menu keeps its type, the loop counter within the  *)
(* flash: no option is led past it.                                        *)
THEOREM TypeCorrect == Spec => []TypeOK
<1>1. Inv => TypeOK
  <2> SUFFICES ASSUME Inv PROVE TypeOK
    OBVIOUS
  <2>1. StoreTypes /\ Control
    BY DEF Inv, Calls
  <2>2. k \in 0..(Capacity + 1)
    BY CounterBounded
  <2>3. QED
    BY <2>1, <2>2 DEF TypeOK, StoreTypes, Control
<1>2. QED
  BY Invariant, <1>1, PTL

(* Programming or verifying a region that ended without an error means     *)
(* that its image is in the flash and nothing is about to change it        *)
(* (qspi_verify_bin at the end of program_golden, program_user,            *)
(* program_timer and the verify options).                                  *)
THEOREM PassedPresent == Spec => []PassedMeansPresent
<1>1. Inv => PassedMeansPresent
  BY DEF Inv, Seen
<1>2. QED
  BY Invariant, <1>1, PTL

(* What a step changes in the flash.                                       *)
LEMMA KeepsOthers ==
  ASSUME Inv, [Next]_vars, NEW p \in Page, store'[p] # store[p]
  PROVE  p \in MayChange(option) \/ (orphan # NoJob /\ p \in Target(orphan))
<1>1. CASE FlashStep
  <2>1. (job # NoJob /\ p \in Target(job)) \/ (orphan # NoJob /\ p \in Target(orphan))
    BY <1>1, FlashEffect DEF FlashStep, Inv, Calls
  <2>2. QED
    BY <2>1 DEF Inv, Calls
<1>2. CASE TaskStep
  <2>1. CASE SetRegion \/ CallBack \/ EraseBack \/ EraseEnd \/ FileMissing \/ PageBack
             \/ PagesEnd \/ ScanBack \/ ScanEnd
    BY <2>1 DEF SetRegion, CallBack, EraseBack, EraseEnd, FileMissing, PageBack, PagesEnd,
       ScanBack, ScanEnd, Back, storeVars
  <2>2. CASE CallFlash \/ EraseNext \/ Open \/ ProgramPage \/ VerifyPage \/ ScanPage
    BY <2>2 DEF CallFlash, EraseNext, Open, ProgramPage, VerifyPage, ScanPage, Enter, Begin
  <2>3. QED
    BY <1>2, <2>1, <2>2 DEF TaskStep
<1>3. CASE Start \/ StartBack
  BY <1>3 DEF Start, StartBack, Back, Begin, storeVars
<1>4. ASSUME NEW o \in Options, Choose(o) PROVE FALSE
  BY <1>4 DEF Choose, storeVars
<1>5. CASE SetPath \/ SetFilename(FixedFile)
  BY <1>5 DEF SetPath, SetFilename, storeVars
<1>6. CASE ProcessEnd
  BY <1>6 DEF ProcessEnd, Fail, Rest
<1>7. CASE UNCHANGED vars
  BY <1>7 DEF vars, storeVars
<1>8. QED
  BY <1>1, <1>2, <1>3, <1>4, <1>5, <1>6, <1>7 DEF Next

(* An option changes only its own pages, whatever fails in it, and what an *)
(* earlier call left running changes only the pages of that call.          *)
THEOREM KeepsRest == Spec => OthersKept
<1>1. Inv /\ [Next]_vars =>
        [\A p \in Page : store'[p] # store[p] =>
           p \in MayChange(option) \/ (orphan # NoJob /\ p \in Target(orphan))]_vars
  BY KeepsOthers
<1>2. QED
  BY Invariant, <1>1, PTL DEF Spec, OthersKept
=============================================================================
