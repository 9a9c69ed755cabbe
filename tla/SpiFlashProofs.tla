---------------------------- MODULE SpiFlashProofs ----------------------------
(***************************************************************************)
(* Proofs about SpiFlash.tla: every command is sent in a state in which    *)
(* the flash takes it, and the layer implements FlashStore, for every      *)
(* flash, whatever was interrupted, given up or left running.              *)
(*                                                                         *)
(* First the scripts are written out, as sequences of commands; then come  *)
(* the facts about where commands stand in them, which are all that the    *)
(* rest uses; then the invariant and the refinement.                       *)
(***************************************************************************)
EXTENDS SpiFlash, SequenceTheorems, TLAPS

Commands ==
  {"ready", "CfgInitialize", "WREN", "EN4B", "EX4B", "FSR", "CLFSR", "RDEAR", "PP", "READ",
   "SE", "DE", "BE", "WRSR", "RDCR", "RDID", "RDSR"}

(* The transfers of the call in progress, and what has been among them.    *)
Text         == Script(job.name)
Been(c)      == \E m \in 1..(step - 1) : Text[m] = c
BeenAny(C)   == \E m \in 1..(step - 1) : Text[m] \in C

-----------------------------------------------------------------------------
(* The types of the flash and of the host.                                 *)
Types ==
  /\ mem \in [Page -> Contents] /\ readBuffer \in Contents
  /\ wel \in BOOLEAN /\ cut \in BOOLEAN /\ fourByte \in BOOLEAN /\ errFlag \in BOOLEAN
  /\ isStarted \in BOOLEAN /\ stuck \in BOOLEAN
  /\ running \in Job \cup {NoJob} /\ job \in Job \cup {NoJob}
  /\ step \in Nat /\ (step > 0 => job \in Job /\ step <= Len(Text))
  /\ status \in {"none", "XST_SUCCESS", "XST_FAILURE"}
  /\ sent \in {"no", "running", "applied"}
  /\ ~WIP => ~cut

(* A frame is on the bus only when the driver cannot be used, and a call   *)
(* goes on only while it can.                                              *)
Bus ==
  /\ stuck => isStarted
  /\ Usable => held = NoFrame
  /\ step > 1 => Usable
  /\ held # NoFrame =>
       /\ held.job \in Job /\ held.cmd \in Commands \ {"CfgInitialize"}
       /\ held.cmd \in NeedsReady => ~WIP
       /\ held.cmd \in Modifying => Modifies(held.job)
       /\ held.cmd = "WRSR" => ~Modifies(held.job)

(* What a wait and a write enable establish for the commands after them.   *)
Waited ==
  /\ step > 1 /\ Text[step - 1] = "ready" => ~WIP
  /\ step > 1 /\ Text[step - 1] = "WREN"  => ~WIP /\ wel
  /\ step > 2 /\ Text[step - 1] = "ready" /\ Text[step - 2] = "WREN" => wel

(* The address mode between its two commands.                              *)
Mode ==
  step > 0 /\ Been("EN4B") /\ ~Been("EX4B") => fourByte

(* After the first wait of a call the flash is busy only with the call.    *)
Owner ==
  step > 0 /\ Been("ready") /\ WIP => running = job /\ BeenAny(MakesBusy)

(* Where the effect of the call in progress is.                            *)
Effect ==
  /\ step = 0 => sent = "no"
  /\ step > 0 => (sent # "no" <=> BeenAny(Modifying))
  /\ sent = "running" => WIP /\ running = job /\ ~cut
  /\ sent = "applied" => ~WIP

(* A read that is past its READ has the page as it is.                     *)
Reading ==
  step > 0 /\ Been("READ") => readBuffer = mem[job.page]

(* A write or read that has succeeded left nothing behind.                 *)
Inv == Types /\ Bus /\ Waited /\ Mode /\ Owner /\ Effect /\ Reading /\ SuccessLeavesRest

-----------------------------------------------------------------------------
(* The scripts, written out.                                               *)

(* Two sequences of commands put together.                                 *)
LEMMA Join ==
  ASSUME NEW s \in Seq(Commands), NEW t \in Seq(Commands), NEW v \in Seq(Commands),
         Len(v) = Len(s) + Len(t),
         \A k \in 1..Len(s) : v[k] = s[k],
         \A k \in 1..Len(t) : v[Len(s) + k] = t[k]
  PROVE  s \o t = v
<1> DEFINE u == s \o t
<1>1. /\ u \in Seq(Commands) /\ Len(u) = Len(s) + Len(t)
      /\ \A k \in 1..(Len(s) + Len(t)) : u[k] = IF k <= Len(s) THEN s[k] ELSE t[k - Len(s)]
  BY ConcatProperties
<1>2. Len(s) \in Nat /\ Len(t) \in Nat
  OBVIOUS
<1> HIDE DEF u
<1>3. ASSUME NEW k \in 1..Len(u) PROVE u[k] = v[k]
  <2>1. CASE k <= Len(s)
    <3>1. k \in 1..Len(s)
      BY <1>1, <1>2, <2>1
    <3>2. QED
      BY <1>1, <2>1, <3>1
  <2>2. CASE ~(k <= Len(s))
    <3>1. k - Len(s) \in 1..Len(t) /\ Len(s) + (k - Len(s)) = k
      BY <1>1, <1>2, <2>2
    <3>2. u[k] = t[k - Len(s)]
      BY <1>1, <2>2
    <3>3. v[Len(s) + (k - Len(s))] = t[k - Len(s)]
      BY <3>1
    <3>4. QED
      BY <3>1, <3>2, <3>3
  <2>3. QED
    BY <2>1, <2>2
<1>4. u = v
  BY <1>1, <1>3, SeqEqual
<1>5. QED
  BY <1>4 DEF u

(* SpiFlash4bytemodeEnable.                                                *)
LEMMA FourByteModeEnableText ==
  FourByteModeEnable = <<"ready", "WREN", "ready", "EN4B">>
<1> DEFINE s1 == <<"ready", "WREN">>
           t1 == <<"ready", "EN4B">>
           s2 == <<"ready", "WREN", "ready", "EN4B">>
<1>1. s1 \o t1 = s2
  <2>1. s1 \in Seq(Commands) /\ t1 \in Seq(Commands) /\ s2 \in Seq(Commands)
    BY DEF Commands
  <2>2. Len(s1) = 2 /\ Len(t1) = 2 /\ Len(s2) = 4
    OBVIOUS
  <2>3. \A k \in 1..2 : s2[k] = s1[k]
    BY SMT
  <2>4. \A k \in 1..2 : s2[2 + k] = t1[k]
    BY SMT
  <2> HIDE DEF s1, t1, s2
  <2>5. /\ Len(s2) = Len(s1) + Len(t1)
        /\ \A k \in 1..Len(s1) : s2[k] = s1[k]
        /\ \A k \in 1..Len(t1) : s2[Len(s1) + k] = t1[k]
    BY <2>2, <2>3, <2>4
  <2>6. QED
    BY <2>1, <2>5, Join
<1>2. QED
  BY <1>1 DEF FourByteModeEnable, WriteEnable

(* SpiFlash4byteexit.                                                      *)
LEMMA FourByteExitText ==
  FourByteExit = <<"ready", "WREN", "ready", "EX4B">>
<1> DEFINE s1 == <<"ready", "WREN">>
           t1 == <<"ready", "EX4B">>
           s2 == <<"ready", "WREN", "ready", "EX4B">>
<1>1. s1 \o t1 = s2
  <2>1. s1 \in Seq(Commands) /\ t1 \in Seq(Commands) /\ s2 \in Seq(Commands)
    BY DEF Commands
  <2>2. Len(s1) = 2 /\ Len(t1) = 2 /\ Len(s2) = 4
    OBVIOUS
  <2>3. \A k \in 1..2 : s2[k] = s1[k]
    BY SMT
  <2>4. \A k \in 1..2 : s2[2 + k] = t1[k]
    BY SMT
  <2> HIDE DEF s1, t1, s2
  <2>5. /\ Len(s2) = Len(s1) + Len(t1)
        /\ \A k \in 1..Len(s1) : s2[k] = s1[k]
        /\ \A k \in 1..Len(t1) : s2[Len(s1) + k] = t1[k]
    BY <2>2, <2>3, <2>4
  <2>6. QED
    BY <2>1, <2>5, Join
<1>2. QED
  BY <1>1 DEF FourByteExit, WriteEnable

(* SpiFlashReadflagstatus and SpiFlashClrflagstatus.                       *)
LEMMA FlagStatusText ==
  FlagStatus = <<"ready", "WREN", "ready", "FSR", "ready", "CLFSR">>
<1> DEFINE s1 == <<"ready", "WREN">>
           t1 == <<"ready", "FSR">>
           s2 == <<"ready", "WREN", "ready", "FSR">>
           t2 == <<"ready", "CLFSR">>
           s3 == <<"ready", "WREN", "ready", "FSR", "ready", "CLFSR">>
<1>1. s1 \o t1 = s2
  <2>1. s1 \in Seq(Commands) /\ t1 \in Seq(Commands) /\ s2 \in Seq(Commands)
    BY DEF Commands
  <2>2. Len(s1) = 2 /\ Len(t1) = 2 /\ Len(s2) = 4
    OBVIOUS
  <2>3. \A k \in 1..2 : s2[k] = s1[k]
    BY SMT
  <2>4. \A k \in 1..2 : s2[2 + k] = t1[k]
    BY SMT
  <2> HIDE DEF s1, t1, s2
  <2>5. /\ Len(s2) = Len(s1) + Len(t1)
        /\ \A k \in 1..Len(s1) : s2[k] = s1[k]
        /\ \A k \in 1..Len(t1) : s2[Len(s1) + k] = t1[k]
    BY <2>2, <2>3, <2>4
  <2>6. QED
    BY <2>1, <2>5, Join
<1>2. s2 \o t2 = s3
  <2>1. s2 \in Seq(Commands) /\ t2 \in Seq(Commands) /\ s3 \in Seq(Commands)
    BY DEF Commands
  <2>2. Len(s2) = 4 /\ Len(t2) = 2 /\ Len(s3) = 6
    OBVIOUS
  <2>3. \A k \in 1..4 : s3[k] = s2[k]
    BY SMT
  <2>4. \A k \in 1..2 : s3[4 + k] = t2[k]
    BY SMT
  <2> HIDE DEF s2, t2, s3
  <2>5. /\ Len(s3) = Len(s2) + Len(t2)
        /\ \A k \in 1..Len(s2) : s3[k] = s2[k]
        /\ \A k \in 1..Len(t2) : s3[Len(s2) + k] = t2[k]
    BY <2>2, <2>3, <2>4
  <2>6. QED
    BY <2>1, <2>5, Join
<1>3. QED
  BY <1>1, <1>2 DEF FlagStatus, ReadFlagStatus, ClrFlagStatus, WriteEnable

(* SpiFlashReadflagstatus alone.                                           *)
LEMMA ReadFlagStatusText ==
  ReadFlagStatus = <<"ready", "WREN", "ready", "FSR">>
<1> DEFINE s1 == <<"ready", "WREN">>
           t1 == <<"ready", "FSR">>
           s2 == <<"ready", "WREN", "ready", "FSR">>
<1>1. s1 \o t1 = s2
  <2>1. s1 \in Seq(Commands) /\ t1 \in Seq(Commands) /\ s2 \in Seq(Commands)
    BY DEF Commands
  <2>2. Len(s1) = 2 /\ Len(t1) = 2 /\ Len(s2) = 4
    OBVIOUS
  <2>3. \A k \in 1..2 : s2[k] = s1[k]
    BY SMT
  <2>4. \A k \in 1..2 : s2[2 + k] = t1[k]
    BY SMT
  <2> HIDE DEF s1, t1, s2
  <2>5. /\ Len(s2) = Len(s1) + Len(t1)
        /\ \A k \in 1..Len(s1) : s2[k] = s1[k]
        /\ \A k \in 1..Len(t1) : s2[Len(s1) + k] = t1[k]
    BY <2>2, <2>3, <2>4
  <2>6. QED
    BY <2>1, <2>5, Join
<1>2. QED
  BY <1>1 DEF ReadFlagStatus, WriteEnable

(* SpiReadExtendedAddressRegister.                                         *)
LEMMA ReadExtendedAddressText ==
  ReadExtendedAddress = <<"ready", "WREN", "ready", "RDEAR">>
<1> DEFINE s1 == <<"ready", "WREN">>
           t1 == <<"ready", "RDEAR">>
           s2 == <<"ready", "WREN", "ready", "RDEAR">>
<1>1. s1 \o t1 = s2
  <2>1. s1 \in Seq(Commands) /\ t1 \in Seq(Commands) /\ s2 \in Seq(Commands)
    BY DEF Commands
  <2>2. Len(s1) = 2 /\ Len(t1) = 2 /\ Len(s2) = 4
    OBVIOUS
  <2>3. \A k \in 1..2 : s2[k] = s1[k]
    BY SMT
  <2>4. \A k \in 1..2 : s2[2 + k] = t1[k]
    BY SMT
  <2> HIDE DEF s1, t1, s2
  <2>5. /\ Len(s2) = Len(s1) + Len(t1)
        /\ \A k \in 1..Len(s1) : s2[k] = s1[k]
        /\ \A k \in 1..Len(t1) : s2[Len(s1) + k] = t1[k]
    BY <2>2, <2>3, <2>4
  <2>6. QED
    BY <2>1, <2>5, Join
<1>2. QED
  BY <1>1 DEF ReadExtendedAddress, WriteEnable

(* SpiFlashQuadEnable.                                                     *)
LEMMA QuadEnableText ==
  QuadEnable = <<"ready", "WREN", "ready", "WRSR", "ready", "RDCR">>
<1> DEFINE s1 == <<"ready", "WREN">>
           t1 == <<"ready", "WRSR", "ready", "RDCR">>
           s2 == <<"ready", "WREN", "ready", "WRSR", "ready", "RDCR">>
<1>1. s1 \o t1 = s2
  <2>1. s1 \in Seq(Commands) /\ t1 \in Seq(Commands) /\ s2 \in Seq(Commands)
    BY DEF Commands
  <2>2. Len(s1) = 2 /\ Len(t1) = 4 /\ Len(s2) = 6
    OBVIOUS
  <2>3. \A k \in 1..2 : s2[k] = s1[k]
    BY SMT
  <2>4. \A k \in 1..4 : s2[2 + k] = t1[k]
    BY SMT
  <2> HIDE DEF s1, t1, s2
  <2>5. /\ Len(s2) = Len(s1) + Len(t1)
        /\ \A k \in 1..Len(s1) : s2[k] = s1[k]
        /\ \A k \in 1..Len(t1) : s2[Len(s1) + k] = t1[k]
    BY <2>2, <2>3, <2>4
  <2>6. QED
    BY <2>1, <2>5, Join
<1>2. QED
  BY <1>1 DEF QuadEnable, WriteEnable

(* System_init_startup.                                                    *)
LEMMA StartupText ==
  Script("System_init_startup") = <<"CfgInitialize", "ready", "WREN">>
<1> DEFINE s1 == <<"CfgInitialize">>
           t1 == <<"ready", "WREN">>
           s2 == <<"CfgInitialize", "ready", "WREN">>
<1>1. s1 \o t1 = s2
  <2>1. s1 \in Seq(Commands) /\ t1 \in Seq(Commands) /\ s2 \in Seq(Commands)
    BY DEF Commands
  <2>2. Len(s1) = 1 /\ Len(t1) = 2 /\ Len(s2) = 3
    OBVIOUS
  <2>3. \A k \in 1..1 : s2[k] = s1[k]
    BY SMT
  <2>4. \A k \in 1..2 : s2[1 + k] = t1[k]
    BY SMT
  <2> HIDE DEF s1, t1, s2
  <2>5. /\ Len(s2) = Len(s1) + Len(t1)
        /\ \A k \in 1..Len(s1) : s2[k] = s1[k]
        /\ \A k \in 1..Len(t1) : s2[Len(s1) + k] = t1[k]
    BY <2>2, <2>3, <2>4
  <2>6. QED
    BY <2>1, <2>5, Join
<1>2. QED
  BY <1>1 DEF Script, WriteEnable

(* qspi_ease_entire_flash.                                                 *)
LEMMA EntireEraseText ==
  Script("qspi_ease_entire_flash") = <<"ready", "WREN", "ready", "BE">>
<1> DEFINE s1 == <<"ready", "WREN">>
           t1 == <<"ready", "BE">>
           s2 == <<"ready", "WREN", "ready", "BE">>
<1>1. s1 \o t1 = s2
  <2>1. s1 \in Seq(Commands) /\ t1 \in Seq(Commands) /\ s2 \in Seq(Commands)
    BY DEF Commands
  <2>2. Len(s1) = 2 /\ Len(t1) = 2 /\ Len(s2) = 4
    OBVIOUS
  <2>3. \A k \in 1..2 : s2[k] = s1[k]
    BY SMT
  <2>4. \A k \in 1..2 : s2[2 + k] = t1[k]
    BY SMT
  <2> HIDE DEF s1, t1, s2
  <2>5. /\ Len(s2) = Len(s1) + Len(t1)
        /\ \A k \in 1..Len(s1) : s2[k] = s1[k]
        /\ \A k \in 1..Len(t1) : s2[Len(s1) + k] = t1[k]
    BY <2>2, <2>3, <2>4
  <2>6. QED
    BY <2>1, <2>5, Join
<1>2. QED
  BY <1>1 DEF Script, WriteEnable

(* SpiFlashSectorErase.                                                    *)
LEMMA SectorEraseText ==
  Script("SpiFlashSectorErase") = <<"ready", "WREN", "ready", "EN4B", "ready",
                                    "WREN", "ready", "SE", "RDSR", "ready",
                                    "WREN", "ready", "FSR", "ready", "CLFSR">>
<1> DEFINE s1 == <<"ready", "WREN", "ready", "EN4B">>
           t1 == <<"ready", "WREN">>
           s2 == <<"ready", "WREN", "ready", "EN4B", "ready", "WREN">>
           t2 == <<"ready", "SE", "RDSR">>
           s3 == <<"ready", "WREN", "ready", "EN4B", "ready", "WREN", "ready",
                   "SE", "RDSR">>
           t3 == <<"ready", "WREN", "ready", "FSR", "ready", "CLFSR">>
           s4 == <<"ready", "WREN", "ready", "EN4B", "ready", "WREN", "ready",
                   "SE", "RDSR", "ready", "WREN", "ready", "FSR", "ready",
                   "CLFSR">>
<1>1. s1 \o t1 = s2
  <2>1. s1 \in Seq(Commands) /\ t1 \in Seq(Commands) /\ s2 \in Seq(Commands)
    BY DEF Commands
  <2>2. Len(s1) = 4 /\ Len(t1) = 2 /\ Len(s2) = 6
    OBVIOUS
  <2>3. \A k \in 1..4 : s2[k] = s1[k]
    BY SMT
  <2>4. \A k \in 1..2 : s2[4 + k] = t1[k]
    BY SMT
  <2> HIDE DEF s1, t1, s2
  <2>5. /\ Len(s2) = Len(s1) + Len(t1)
        /\ \A k \in 1..Len(s1) : s2[k] = s1[k]
        /\ \A k \in 1..Len(t1) : s2[Len(s1) + k] = t1[k]
    BY <2>2, <2>3, <2>4
  <2>6. QED
    BY <2>1, <2>5, Join
<1>2. s2 \o t2 = s3
  <2>1. s2 \in Seq(Commands) /\ t2 \in Seq(Commands) /\ s3 \in Seq(Commands)
    BY DEF Commands
  <2>2. Len(s2) = 6 /\ Len(t2) = 3 /\ Len(s3) = 9
    OBVIOUS
  <2>3. \A k \in 1..6 : s3[k] = s2[k]
    BY SMT
  <2>4. \A k \in 1..3 : s3[6 + k] = t2[k]
    BY SMT
  <2> HIDE DEF s2, t2, s3
  <2>5. /\ Len(s3) = Len(s2) + Len(t2)
        /\ \A k \in 1..Len(s2) : s3[k] = s2[k]
        /\ \A k \in 1..Len(t2) : s3[Len(s2) + k] = t2[k]
    BY <2>2, <2>3, <2>4
  <2>6. QED
    BY <2>1, <2>5, Join
<1>3. s3 \o t3 = s4
  <2>1. s3 \in Seq(Commands) /\ t3 \in Seq(Commands) /\ s4 \in Seq(Commands)
    BY DEF Commands
  <2>2. Len(s3) = 9 /\ Len(t3) = 6 /\ Len(s4) = 15
    OBVIOUS
  <2>3. \A k \in 1..9 : s4[k] = s3[k]
    BY SMT
  <2>4. \A k \in 1..6 : s4[9 + k] = t3[k]
    BY SMT
  <2> HIDE DEF s3, t3, s4
  <2>5. /\ Len(s4) = Len(s3) + Len(t3)
        /\ \A k \in 1..Len(s3) : s4[k] = s3[k]
        /\ \A k \in 1..Len(t3) : s4[Len(s3) + k] = t3[k]
    BY <2>2, <2>3, <2>4
  <2>6. QED
    BY <2>1, <2>5, Join
<1>4. QED
  BY <1>1, <1>2, <1>3, FourByteModeEnableText, FlagStatusText DEF Script, WriteEnable

(* SpiFlashDieErase.                                                       *)
LEMMA DieEraseText ==
  Script("SpiFlashDieErase") = <<"ready", "WREN", "ready", "EN4B", "ready",
                                 "WREN", "ready", "RDEAR", "ready", "WREN",
                                 "ready", "DE", "RDSR", "ready", "WREN",
                                 "ready", "FSR", "ready", "CLFSR">>
<1> DEFINE s1 == <<"ready", "WREN", "ready", "EN4B">>
           t1 == <<"ready", "WREN", "ready", "RDEAR">>
           s2 == <<"ready", "WREN", "ready", "EN4B", "ready", "WREN", "ready",
                   "RDEAR">>
           t2 == <<"ready", "WREN">>
           s3 == <<"ready", "WREN", "ready", "EN4B", "ready", "WREN", "ready",
                   "RDEAR", "ready", "WREN">>
           t3 == <<"ready", "DE", "RDSR">>
           s4 == <<"ready", "WREN", "ready", "EN4B", "ready", "WREN", "ready",
                   "RDEAR", "ready", "WREN", "ready", "DE", "RDSR">>
           t4 == <<"ready", "WREN", "ready", "FSR", "ready", "CLFSR">>
           s5 == <<"ready", "WREN", "ready", "EN4B", "ready", "WREN", "ready",
                   "RDEAR", "ready", "WREN", "ready", "DE", "RDSR", "ready",
                   "WREN", "ready", "FSR", "ready", "CLFSR">>
<1>1. s1 \o t1 = s2
  <2>1. s1 \in Seq(Commands) /\ t1 \in Seq(Commands) /\ s2 \in Seq(Commands)
    BY DEF Commands
  <2>2. Len(s1) = 4 /\ Len(t1) = 4 /\ Len(s2) = 8
    OBVIOUS
  <2>3. \A k \in 1..4 : s2[k] = s1[k]
    BY SMT
  <2>4. \A k \in 1..4 : s2[4 + k] = t1[k]
    BY SMT
  <2> HIDE DEF s1, t1, s2
  <2>5. /\ Len(s2) = Len(s1) + Len(t1)
        /\ \A k \in 1..Len(s1) : s2[k] = s1[k]
        /\ \A k \in 1..Len(t1) : s2[Len(s1) + k] = t1[k]
    BY <2>2, <2>3, <2>4
  <2>6. QED
    BY <2>1, <2>5, Join
<1>2. s2 \o t2 = s3
  <2>1. s2 \in Seq(Commands) /\ t2 \in Seq(Commands) /\ s3 \in Seq(Commands)
    BY DEF Commands
  <2>2. Len(s2) = 8 /\ Len(t2) = 2 /\ Len(s3) = 10
    OBVIOUS
  <2>3. \A k \in 1..8 : s3[k] = s2[k]
    BY SMT
  <2>4. \A k \in 1..2 : s3[8 + k] = t2[k]
    BY SMT
  <2> HIDE DEF s2, t2, s3
  <2>5. /\ Len(s3) = Len(s2) + Len(t2)
        /\ \A k \in 1..Len(s2) : s3[k] = s2[k]
        /\ \A k \in 1..Len(t2) : s3[Len(s2) + k] = t2[k]
    BY <2>2, <2>3, <2>4
  <2>6. QED
    BY <2>1, <2>5, Join
<1>3. s3 \o t3 = s4
  <2>1. s3 \in Seq(Commands) /\ t3 \in Seq(Commands) /\ s4 \in Seq(Commands)
    BY DEF Commands
  <2>2. Len(s3) = 10 /\ Len(t3) = 3 /\ Len(s4) = 13
    OBVIOUS
  <2>3. \A k \in 1..10 : s4[k] = s3[k]
    BY SMT
  <2>4. \A k \in 1..3 : s4[10 + k] = t3[k]
    BY SMT
  <2> HIDE DEF s3, t3, s4
  <2>5. /\ Len(s4) = Len(s3) + Len(t3)
        /\ \A k \in 1..Len(s3) : s4[k] = s3[k]
        /\ \A k \in 1..Len(t3) : s4[Len(s3) + k] = t3[k]
    BY <2>2, <2>3, <2>4
  <2>6. QED
    BY <2>1, <2>5, Join
<1>4. s4 \o t4 = s5
  <2>1. s4 \in Seq(Commands) /\ t4 \in Seq(Commands) /\ s5 \in Seq(Commands)
    BY DEF Commands
  <2>2. Len(s4) = 13 /\ Len(t4) = 6 /\ Len(s5) = 19
    OBVIOUS
  <2>3. \A k \in 1..13 : s5[k] = s4[k]
    BY SMT
  <2>4. \A k \in 1..6 : s5[13 + k] = t4[k]
    BY SMT
  <2> HIDE DEF s4, t4, s5
  <2>5. /\ Len(s5) = Len(s4) + Len(t4)
        /\ \A k \in 1..Len(s4) : s5[k] = s4[k]
        /\ \A k \in 1..Len(t4) : s5[Len(s4) + k] = t4[k]
    BY <2>2, <2>3, <2>4
  <2>6. QED
    BY <2>1, <2>5, Join
<1>5. QED
  BY <1>1, <1>2, <1>3, <1>4, FourByteModeEnableText, ReadExtendedAddressText,
     FlagStatusText DEF Script, WriteEnable

(* SpiFlashWrite_File.                                                     *)
LEMMA WritePageText ==
  Script("SpiFlashWrite_File") = <<"ready", "WREN", "ready", "EN4B", "ready",
                                   "WREN", "ready", "PP", "ready", "WREN",
                                   "ready", "EX4B">>
<1> DEFINE s1 == <<"ready", "WREN", "ready", "EN4B">>
           t1 == <<"ready", "WREN">>
           s2 == <<"ready", "WREN", "ready", "EN4B", "ready", "WREN">>
           t2 == <<"ready", "PP">>
           s3 == <<"ready", "WREN", "ready", "EN4B", "ready", "WREN", "ready",
                   "PP">>
           t3 == <<"ready", "WREN", "ready", "EX4B">>
           s4 == <<"ready", "WREN", "ready", "EN4B", "ready", "WREN", "ready",
                   "PP", "ready", "WREN", "ready", "EX4B">>
<1>1. s1 \o t1 = s2
  <2>1. s1 \in Seq(Commands) /\ t1 \in Seq(Commands) /\ s2 \in Seq(Commands)
    BY DEF Commands
  <2>2. Len(s1) = 4 /\ Len(t1) = 2 /\ Len(s2) = 6
    OBVIOUS
  <2>3. \A k \in 1..4 : s2[k] = s1[k]
    BY SMT
  <2>4. \A k \in 1..2 : s2[4 + k] = t1[k]
    BY SMT
  <2> HIDE DEF s1, t1, s2
  <2>5. /\ Len(s2) = Len(s1) + Len(t1)
        /\ \A k \in 1..Len(s1) : s2[k] = s1[k]
        /\ \A k \in 1..Len(t1) : s2[Len(s1) + k] = t1[k]
    BY <2>2, <2>3, <2>4
  <2>6. QED
    BY <2>1, <2>5, Join
<1>2. s2 \o t2 = s3
  <2>1. s2 \in Seq(Commands) /\ t2 \in Seq(Commands) /\ s3 \in Seq(Commands)
    BY DEF Commands
  <2>2. Len(s2) = 6 /\ Len(t2) = 2 /\ Len(s3) = 8
    OBVIOUS
  <2>3. \A k \in 1..6 : s3[k] = s2[k]
    BY SMT
  <2>4. \A k \in 1..2 : s3[6 + k] = t2[k]
    BY SMT
  <2> HIDE DEF s2, t2, s3
  <2>5. /\ Len(s3) = Len(s2) + Len(t2)
        /\ \A k \in 1..Len(s2) : s3[k] = s2[k]
        /\ \A k \in 1..Len(t2) : s3[Len(s2) + k] = t2[k]
    BY <2>2, <2>3, <2>4
  <2>6. QED
    BY <2>1, <2>5, Join
<1>3. s3 \o t3 = s4
  <2>1. s3 \in Seq(Commands) /\ t3 \in Seq(Commands) /\ s4 \in Seq(Commands)
    BY DEF Commands
  <2>2. Len(s3) = 8 /\ Len(t3) = 4 /\ Len(s4) = 12
    OBVIOUS
  <2>3. \A k \in 1..8 : s4[k] = s3[k]
    BY SMT
  <2>4. \A k \in 1..4 : s4[8 + k] = t3[k]
    BY SMT
  <2> HIDE DEF s3, t3, s4
  <2>5. /\ Len(s4) = Len(s3) + Len(t3)
        /\ \A k \in 1..Len(s3) : s4[k] = s3[k]
        /\ \A k \in 1..Len(t3) : s4[Len(s3) + k] = t3[k]
    BY <2>2, <2>3, <2>4
  <2>6. QED
    BY <2>1, <2>5, Join
<1>4. QED
  BY <1>1, <1>2, <1>3, FourByteModeEnableText, FourByteExitText
  DEF Script, WritePage, WriteEnable

(* SpiFlashRead.                                                           *)
LEMMA ReadPageText ==
  Script("SpiFlashRead") = <<"ready", "WREN", "ready", "EN4B", "ready",
                             "WREN", "ready", "READ", "ready", "WREN",
                             "ready", "EX4B">>
<1> DEFINE s1 == <<"ready", "WREN", "ready", "EN4B">>
           t1 == <<"ready", "WREN">>
           s2 == <<"ready", "WREN", "ready", "EN4B", "ready", "WREN">>
           t2 == <<"ready", "READ">>
           s3 == <<"ready", "WREN", "ready", "EN4B", "ready", "WREN", "ready",
                   "READ">>
           t3 == <<"ready", "WREN", "ready", "EX4B">>
           s4 == <<"ready", "WREN", "ready", "EN4B", "ready", "WREN", "ready",
                   "READ", "ready", "WREN", "ready", "EX4B">>
<1>1. s1 \o t1 = s2
  <2>1. s1 \in Seq(Commands) /\ t1 \in Seq(Commands) /\ s2 \in Seq(Commands)
    BY DEF Commands
  <2>2. Len(s1) = 4 /\ Len(t1) = 2 /\ Len(s2) = 6
    OBVIOUS
  <2>3. \A k \in 1..4 : s2[k] = s1[k]
    BY SMT
  <2>4. \A k \in 1..2 : s2[4 + k] = t1[k]
    BY SMT
  <2> HIDE DEF s1, t1, s2
  <2>5. /\ Len(s2) = Len(s1) + Len(t1)
        /\ \A k \in 1..Len(s1) : s2[k] = s1[k]
        /\ \A k \in 1..Len(t1) : s2[Len(s1) + k] = t1[k]
    BY <2>2, <2>3, <2>4
  <2>6. QED
    BY <2>1, <2>5, Join
<1>2. s2 \o t2 = s3
  <2>1. s2 \in Seq(Commands) /\ t2 \in Seq(Commands) /\ s3 \in Seq(Commands)
    BY DEF Commands
  <2>2. Len(s2) = 6 /\ Len(t2) = 2 /\ Len(s3) = 8
    OBVIOUS
  <2>3. \A k \in 1..6 : s3[k] = s2[k]
    BY SMT
  <2>4. \A k \in 1..2 : s3[6 + k] = t2[k]
    BY SMT
  <2> HIDE DEF s2, t2, s3
  <2>5. /\ Len(s3) = Len(s2) + Len(t2)
        /\ \A k \in 1..Len(s2) : s3[k] = s2[k]
        /\ \A k \in 1..Len(t2) : s3[Len(s2) + k] = t2[k]
    BY <2>2, <2>3, <2>4
  <2>6. QED
    BY <2>1, <2>5, Join
<1>3. s3 \o t3 = s4
  <2>1. s3 \in Seq(Commands) /\ t3 \in Seq(Commands) /\ s4 \in Seq(Commands)
    BY DEF Commands
  <2>2. Len(s3) = 8 /\ Len(t3) = 4 /\ Len(s4) = 12
    OBVIOUS
  <2>3. \A k \in 1..8 : s4[k] = s3[k]
    BY SMT
  <2>4. \A k \in 1..4 : s4[8 + k] = t3[k]
    BY SMT
  <2> HIDE DEF s3, t3, s4
  <2>5. /\ Len(s4) = Len(s3) + Len(t3)
        /\ \A k \in 1..Len(s3) : s4[k] = s3[k]
        /\ \A k \in 1..Len(t3) : s4[Len(s3) + k] = t3[k]
    BY <2>2, <2>3, <2>4
  <2>6. QED
    BY <2>1, <2>5, Join
<1>4. QED
  BY <1>1, <1>2, <1>3, FourByteModeEnableText, FourByteExitText DEF Script, WriteEnable

-----------------------------------------------------------------------------
(* Where commands stand in a script.                                       *)

(* The names of the functions that change pages.                           *)
Changes(n) ==
  n \in {"SpiFlashSectorErase", "SpiFlashDieErase", "qspi_ease_entire_flash",
         "SpiFlashWrite_File"}

(* Every command that needs a ready flash follows a wait, every command    *)
(* that needs the write enable latch follows a write enable and a wait, an *)
(* erase of a sector or die follows the entry into 4-byte mode, and no     *)
(* script starts more than one operation.                                  *)
Fit(t) ==
  /\ t \in Seq(Commands) /\ Len(t) \in Nat \ {0}
  /\ \A k \in 1..Len(t) : t[k] \in NeedsReady => k > 1 /\ t[k - 1] = "ready"
  /\ \A k \in 1..Len(t) : t[k] \in NeedsWel => k > 2 /\ t[k - 2] = "WREN"
  /\ \A k \in 1..Len(t) : t[k] = "CfgInitialize" => k = 1 /\ Len(t) > 1
  /\ t[Len(t)] # "ready"
  /\ \E b \in Nat : \A k \in 1..Len(t) : t[k] \in MakesBusy => k = b
  /\ \A k \in 1..Len(t) : t[k] \in Needs4Byte => k > 4 /\ t[4] = "EN4B"
  /\ \A k \in 1..Len(t) : t[k] \in Needs4Byte =>
       \A m \in 1..Len(t) : t[m] # "EX4B"

(* Only the functions that change pages have such a command; all but the   *)
(* status read wait; a write, a read and the erases have done what they    *)
(* are for before they can end well.                                       *)
Whole(n, t) ==
  /\ \A k \in 1..Len(t) : t[k] \in Modifying => Changes(n)
  /\ \A k \in 1..Len(t) : t[k] = "WRSR" => n = "SpiFlashQuadEnable"
  /\ \A k \in 1..Len(t) : t[k] = "READ" => n = "SpiFlashRead"
  /\ n # "SpiFlashGetStatusPrint" => \E m \in 1..(Len(t) - 1) : t[m] = "ready"
  /\ n \in {"SpiFlashWrite_File", "SpiFlashRead"} => t[Len(t)] = "EX4B"
  /\ n = "SpiFlashWrite_File" => \E m \in 1..(Len(t) - 1) : t[m] \in Modifying
  /\ n = "SpiFlashRead" => \E m \in 1..(Len(t) - 1) : t[m] = "READ"
  /\ n = "qspi_ease_entire_flash" => t[Len(t)] = "BE"
  /\ n \in {"SpiFlashSectorErase", "SpiFlashDieErase"} =>
       Len(t) > 6 /\ t[1] = "ready" /\ \E m \in 1..(Len(t) - 6) : t[m] \in Modifying

(* System_init_startup.                                                    *)
LEMMA StartupFacts ==
  /\ Fit(Script("System_init_startup"))
  /\ Whole("System_init_startup", Script("System_init_startup"))
<1> DEFINE t == <<"CfgInitialize", "ready", "WREN">>
<1>1. t \in Seq(Commands) /\ Len(t) = 3
  BY DEF Commands
<1>2. /\ t[1] = "CfgInitialize" /\ t[2] = "ready" /\ t[3] = "WREN"
  OBVIOUS
<1>3. Script("System_init_startup") = t
  BY StartupText
<1> HIDE DEF t
<1>4. \A k \in 1..3 : t[k] \in NeedsReady => k > 1 /\ t[k - 1] = "ready"
  BY <1>2, SMT DEF NeedsReady, MakesBusy, Modifying
<1>5. \A k \in 1..3 : t[k] \in NeedsWel => k > 2 /\ t[k - 2] = "WREN"
  BY <1>2, SMT DEF NeedsWel, MakesBusy, Modifying
<1>6. \A k \in 1..3 : t[k] \in MakesBusy => k = 0
  BY <1>2, SMT DEF MakesBusy, Modifying
<1>7. \A k \in 1..3 : t[k] \in Needs4Byte => k > 4 /\ t[4] = "EN4B" /\ \A m \in 1..3 : t[m] # "EX4B"
  BY <1>2, SMT DEF Needs4Byte
<1>8. /\ \A k \in 1..3 : t[k] = "CfgInitialize" => k = 1 /\ 3 > 1
      /\ \A k \in 1..3 : t[k] = "WRSR" => "System_init_startup" = "SpiFlashQuadEnable"
      /\ \A k \in 1..3 : t[k] = "READ" => "System_init_startup" = "SpiFlashRead"
      /\ \A k \in 1..3 : t[k] \in Modifying => Changes("System_init_startup")
  BY <1>2, SMT DEF Modifying, Changes
<1>9a. t[3] # "ready"
  BY <1>2
<1>9b. \E i \in Nat : \A k \in 1..3 : t[k] \in MakesBusy => k = i
  BY <1>6
<1>9. Fit(t)
  <2>1. t \in Seq(Commands) /\ Len(t) \in Nat \ {0}
    BY <1>1
  <2>2. \A k \in 1..Len(t) : t[k] \in NeedsReady => k > 1 /\ t[k - 1] = "ready"
    BY <1>1, <1>4
  <2>3. \A k \in 1..Len(t) : t[k] \in NeedsWel => k > 2 /\ t[k - 2] = "WREN"
    BY <1>1, <1>5
  <2>4. \A k \in 1..Len(t) : t[k] = "CfgInitialize" => k = 1 /\ Len(t) > 1
    BY <1>1, <1>8
  <2>5. t[Len(t)] # "ready"
    BY <1>1, <1>9a
  <2>6. \E i \in Nat : \A k \in 1..Len(t) : t[k] \in MakesBusy => k = i
    BY <1>1, <1>9b
  <2>7. \A k \in 1..Len(t) : t[k] \in Needs4Byte => k > 4 /\ t[4] = "EN4B"
    BY <1>1, <1>7
  <2>8. \A k \in 1..Len(t) : t[k] \in Needs4Byte => \A m \in 1..Len(t) : t[m] # "EX4B"
    BY <1>1, <1>7
  <2>9. QED
    BY <2>1, <2>2, <2>3, <2>4, <2>5, <2>6, <2>7, <2>8, Zenon DEF Fit
<1>10. Whole("System_init_startup", t)
  BY <1>1, <1>2, <1>8 DEF Whole, Modifying
<1>11. QED
  BY <1>3, <1>9, <1>10

(* SpiFlashWriteEnable.                                                    *)
LEMMA WriteEnableFacts ==
  /\ Fit(Script("SpiFlashWriteEnable"))
  /\ Whole("SpiFlashWriteEnable", Script("SpiFlashWriteEnable"))
<1> DEFINE t == <<"ready", "WREN">>
<1>1. t \in Seq(Commands) /\ Len(t) = 2
  BY DEF Commands
<1>2. /\ t[1] = "ready" /\ t[2] = "WREN"
  OBVIOUS
<1>3. Script("SpiFlashWriteEnable") = t
  BY DEF Script, WriteEnable
<1> HIDE DEF t
<1>4. \A k \in 1..2 : t[k] \in NeedsReady => k > 1 /\ t[k - 1] = "ready"
  BY <1>2, SMT DEF NeedsReady, MakesBusy, Modifying
<1>5. \A k \in 1..2 : t[k] \in NeedsWel => k > 2 /\ t[k - 2] = "WREN"
  BY <1>2, SMT DEF NeedsWel, MakesBusy, Modifying
<1>6. \A k \in 1..2 : t[k] \in MakesBusy => k = 0
  BY <1>2, SMT DEF MakesBusy, Modifying
<1>7. \A k \in 1..2 : t[k] \in Needs4Byte => k > 4 /\ t[4] = "EN4B" /\ \A m \in 1..2 : t[m] # "EX4B"
  BY <1>2, SMT DEF Needs4Byte
<1>8. /\ \A k \in 1..2 : t[k] = "CfgInitialize" => k = 1 /\ 2 > 1
      /\ \A k \in 1..2 : t[k] = "WRSR" => "SpiFlashWriteEnable" = "SpiFlashQuadEnable"
      /\ \A k \in 1..2 : t[k] = "READ" => "SpiFlashWriteEnable" = "SpiFlashRead"
      /\ \A k \in 1..2 : t[k] \in Modifying => Changes("SpiFlashWriteEnable")
  BY <1>2, SMT DEF Modifying, Changes
<1>9a. t[2] # "ready"
  BY <1>2
<1>9b. \E i \in Nat : \A k \in 1..2 : t[k] \in MakesBusy => k = i
  BY <1>6
<1>9. Fit(t)
  <2>1. t \in Seq(Commands) /\ Len(t) \in Nat \ {0}
    BY <1>1
  <2>2. \A k \in 1..Len(t) : t[k] \in NeedsReady => k > 1 /\ t[k - 1] = "ready"
    BY <1>1, <1>4
  <2>3. \A k \in 1..Len(t) : t[k] \in NeedsWel => k > 2 /\ t[k - 2] = "WREN"
    BY <1>1, <1>5
  <2>4. \A k \in 1..Len(t) : t[k] = "CfgInitialize" => k = 1 /\ Len(t) > 1
    BY <1>1, <1>8
  <2>5. t[Len(t)] # "ready"
    BY <1>1, <1>9a
  <2>6. \E i \in Nat : \A k \in 1..Len(t) : t[k] \in MakesBusy => k = i
    BY <1>1, <1>9b
  <2>7. \A k \in 1..Len(t) : t[k] \in Needs4Byte => k > 4 /\ t[4] = "EN4B"
    BY <1>1, <1>7
  <2>8. \A k \in 1..Len(t) : t[k] \in Needs4Byte => \A m \in 1..Len(t) : t[m] # "EX4B"
    BY <1>1, <1>7
  <2>9. QED
    BY <2>1, <2>2, <2>3, <2>4, <2>5, <2>6, <2>7, <2>8, Zenon DEF Fit
<1>10. Whole("SpiFlashWriteEnable", t)
  BY <1>1, <1>2, <1>8 DEF Whole, Modifying
<1>11. QED
  BY <1>3, <1>9, <1>10

(* SpiFlashQuadEnable.                                                     *)
LEMMA QuadEnableFacts ==
  /\ Fit(Script("SpiFlashQuadEnable"))
  /\ Whole("SpiFlashQuadEnable", Script("SpiFlashQuadEnable"))
<1> DEFINE t == <<"ready", "WREN", "ready", "WRSR", "ready", "RDCR">>
<1>1. t \in Seq(Commands) /\ Len(t) = 6
  BY DEF Commands
<1>2. /\ t[1] = "ready" /\ t[2] = "WREN" /\ t[3] = "ready" /\ t[4] = "WRSR"
      /\ t[5] = "ready" /\ t[6] = "RDCR"
  OBVIOUS
<1>3. Script("SpiFlashQuadEnable") = t
  BY QuadEnableText DEF Script
<1> HIDE DEF t
<1>4. \A k \in 1..6 : t[k] \in NeedsReady => k > 1 /\ t[k - 1] = "ready"
  BY <1>2, SMT DEF NeedsReady, MakesBusy, Modifying
<1>5. \A k \in 1..6 : t[k] \in NeedsWel => k > 2 /\ t[k - 2] = "WREN"
  BY <1>2, SMT DEF NeedsWel, MakesBusy, Modifying
<1>6. \A k \in 1..6 : t[k] \in MakesBusy => k = 4
  BY <1>2, SMT DEF MakesBusy, Modifying
<1>7. \A k \in 1..6 : t[k] \in Needs4Byte => k > 4 /\ t[4] = "EN4B" /\ \A m \in 1..6 : t[m] # "EX4B"
  BY <1>2, SMT DEF Needs4Byte
<1>8. /\ \A k \in 1..6 : t[k] = "CfgInitialize" => k = 1 /\ 6 > 1
      /\ \A k \in 1..6 : t[k] = "WRSR" => "SpiFlashQuadEnable" = "SpiFlashQuadEnable"
      /\ \A k \in 1..6 : t[k] = "READ" => "SpiFlashQuadEnable" = "SpiFlashRead"
      /\ \A k \in 1..6 : t[k] \in Modifying => Changes("SpiFlashQuadEnable")
  BY <1>2, SMT DEF Modifying, Changes
<1>9a. t[6] # "ready"
  BY <1>2
<1>9b. \E i \in Nat : \A k \in 1..6 : t[k] \in MakesBusy => k = i
  BY <1>6
<1>9. Fit(t)
  <2>1. t \in Seq(Commands) /\ Len(t) \in Nat \ {0}
    BY <1>1
  <2>2. \A k \in 1..Len(t) : t[k] \in NeedsReady => k > 1 /\ t[k - 1] = "ready"
    BY <1>1, <1>4
  <2>3. \A k \in 1..Len(t) : t[k] \in NeedsWel => k > 2 /\ t[k - 2] = "WREN"
    BY <1>1, <1>5
  <2>4. \A k \in 1..Len(t) : t[k] = "CfgInitialize" => k = 1 /\ Len(t) > 1
    BY <1>1, <1>8
  <2>5. t[Len(t)] # "ready"
    BY <1>1, <1>9a
  <2>6. \E i \in Nat : \A k \in 1..Len(t) : t[k] \in MakesBusy => k = i
    BY <1>1, <1>9b
  <2>7. \A k \in 1..Len(t) : t[k] \in Needs4Byte => k > 4 /\ t[4] = "EN4B"
    BY <1>1, <1>7
  <2>8. \A k \in 1..Len(t) : t[k] \in Needs4Byte => \A m \in 1..Len(t) : t[m] # "EX4B"
    BY <1>1, <1>7
  <2>9. QED
    BY <2>1, <2>2, <2>3, <2>4, <2>5, <2>6, <2>7, <2>8, Zenon DEF Fit
<1>10. Whole("SpiFlashQuadEnable", t)
  BY <1>1, <1>2, <1>8 DEF Whole, Modifying
<1>11. QED
  BY <1>3, <1>9, <1>10

(* SpiFlashReadID.                                                         *)
LEMMA ReadIDFacts ==
  Fit(Script("SpiFlashReadID")) /\ Whole("SpiFlashReadID", Script("SpiFlashReadID"))
<1> DEFINE t == <<"ready", "RDID">>
<1>1. t \in Seq(Commands) /\ Len(t) = 2
  BY DEF Commands
<1>2. /\ t[1] = "ready" /\ t[2] = "RDID"
  OBVIOUS
<1>3. Script("SpiFlashReadID") = t
  BY DEF Script
<1> HIDE DEF t
<1>4. \A k \in 1..2 : t[k] \in NeedsReady => k > 1 /\ t[k - 1] = "ready"
  BY <1>2, SMT DEF NeedsReady, MakesBusy, Modifying
<1>5. \A k \in 1..2 : t[k] \in NeedsWel => k > 2 /\ t[k - 2] = "WREN"
  BY <1>2, SMT DEF NeedsWel, MakesBusy, Modifying
<1>6. \A k \in 1..2 : t[k] \in MakesBusy => k = 0
  BY <1>2, SMT DEF MakesBusy, Modifying
<1>7. \A k \in 1..2 : t[k] \in Needs4Byte => k > 4 /\ t[4] = "EN4B" /\ \A m \in 1..2 : t[m] # "EX4B"
  BY <1>2, SMT DEF Needs4Byte
<1>8. /\ \A k \in 1..2 : t[k] = "CfgInitialize" => k = 1 /\ 2 > 1
      /\ \A k \in 1..2 : t[k] = "WRSR" => "SpiFlashReadID" = "SpiFlashQuadEnable"
      /\ \A k \in 1..2 : t[k] = "READ" => "SpiFlashReadID" = "SpiFlashRead"
      /\ \A k \in 1..2 : t[k] \in Modifying => Changes("SpiFlashReadID")
  BY <1>2, SMT DEF Modifying, Changes
<1>9a. t[2] # "ready"
  BY <1>2
<1>9b. \E i \in Nat : \A k \in 1..2 : t[k] \in MakesBusy => k = i
  BY <1>6
<1>9. Fit(t)
  <2>1. t \in Seq(Commands) /\ Len(t) \in Nat \ {0}
    BY <1>1
  <2>2. \A k \in 1..Len(t) : t[k] \in NeedsReady => k > 1 /\ t[k - 1] = "ready"
    BY <1>1, <1>4
  <2>3. \A k \in 1..Len(t) : t[k] \in NeedsWel => k > 2 /\ t[k - 2] = "WREN"
    BY <1>1, <1>5
  <2>4. \A k \in 1..Len(t) : t[k] = "CfgInitialize" => k = 1 /\ Len(t) > 1
    BY <1>1, <1>8
  <2>5. t[Len(t)] # "ready"
    BY <1>1, <1>9a
  <2>6. \E i \in Nat : \A k \in 1..Len(t) : t[k] \in MakesBusy => k = i
    BY <1>1, <1>9b
  <2>7. \A k \in 1..Len(t) : t[k] \in Needs4Byte => k > 4 /\ t[4] = "EN4B"
    BY <1>1, <1>7
  <2>8. \A k \in 1..Len(t) : t[k] \in Needs4Byte => \A m \in 1..Len(t) : t[m] # "EX4B"
    BY <1>1, <1>7
  <2>9. QED
    BY <2>1, <2>2, <2>3, <2>4, <2>5, <2>6, <2>7, <2>8, Zenon DEF Fit
<1>10. Whole("SpiFlashReadID", t)
  BY <1>1, <1>2, <1>8 DEF Whole, Modifying
<1>11. QED
  BY <1>3, <1>9, <1>10

(* SpiFlashReadflagstatus.                                                 *)
LEMMA ReadFlagStatusFacts ==
  /\ Fit(Script("SpiFlashReadflagstatus"))
  /\ Whole("SpiFlashReadflagstatus", Script("SpiFlashReadflagstatus"))
<1> DEFINE t == <<"ready", "WREN", "ready", "FSR">>
<1>1. t \in Seq(Commands) /\ Len(t) = 4
  BY DEF Commands
<1>2. /\ t[1] = "ready" /\ t[2] = "WREN" /\ t[3] = "ready" /\ t[4] = "FSR"
  OBVIOUS
<1>3. Script("SpiFlashReadflagstatus") = t
  BY ReadFlagStatusText DEF Script
<1> HIDE DEF t
<1>4. \A k \in 1..4 : t[k] \in NeedsReady => k > 1 /\ t[k - 1] = "ready"
  BY <1>2, SMT DEF NeedsReady, MakesBusy, Modifying
<1>5. \A k \in 1..4 : t[k] \in NeedsWel => k > 2 /\ t[k - 2] = "WREN"
  BY <1>2, SMT DEF NeedsWel, MakesBusy, Modifying
<1>6. \A k \in 1..4 : t[k] \in MakesBusy => k = 0
  BY <1>2, SMT DEF MakesBusy, Modifying
<1>7. \A k \in 1..4 : t[k] \in Needs4Byte => k > 4 /\ t[4] = "EN4B" /\ \A m \in 1..4 : t[m] # "EX4B"
  BY <1>2, SMT DEF Needs4Byte
<1>8. /\ \A k \in 1..4 : t[k] = "CfgInitialize" => k = 1 /\ 4 > 1
      /\ \A k \in 1..4 : t[k] = "WRSR" => "SpiFlashReadflagstatus" = "SpiFlashQuadEnable"
      /\ \A k \in 1..4 : t[k] = "READ" => "SpiFlashReadflagstatus" = "SpiFlashRead"
      /\ \A k \in 1..4 : t[k] \in Modifying => Changes("SpiFlashReadflagstatus")
  BY <1>2, SMT DEF Modifying, Changes
<1>9a. t[4] # "ready"
  BY <1>2
<1>9b. \E i \in Nat : \A k \in 1..4 : t[k] \in MakesBusy => k = i
  BY <1>6
<1>9. Fit(t)
  <2>1. t \in Seq(Commands) /\ Len(t) \in Nat \ {0}
    BY <1>1
  <2>2. \A k \in 1..Len(t) : t[k] \in NeedsReady => k > 1 /\ t[k - 1] = "ready"
    BY <1>1, <1>4
  <2>3. \A k \in 1..Len(t) : t[k] \in NeedsWel => k > 2 /\ t[k - 2] = "WREN"
    BY <1>1, <1>5
  <2>4. \A k \in 1..Len(t) : t[k] = "CfgInitialize" => k = 1 /\ Len(t) > 1
    BY <1>1, <1>8
  <2>5. t[Len(t)] # "ready"
    BY <1>1, <1>9a
  <2>6. \E i \in Nat : \A k \in 1..Len(t) : t[k] \in MakesBusy => k = i
    BY <1>1, <1>9b
  <2>7. \A k \in 1..Len(t) : t[k] \in Needs4Byte => k > 4 /\ t[4] = "EN4B"
    BY <1>1, <1>7
  <2>8. \A k \in 1..Len(t) : t[k] \in Needs4Byte => \A m \in 1..Len(t) : t[m] # "EX4B"
    BY <1>1, <1>7
  <2>9. QED
    BY <2>1, <2>2, <2>3, <2>4, <2>5, <2>6, <2>7, <2>8, Zenon DEF Fit
<1>10. Whole("SpiFlashReadflagstatus", t)
  BY <1>1, <1>2, <1>8 DEF Whole, Modifying
<1>11. QED
  BY <1>3, <1>9, <1>10

(* SpiFlashClrflagstatus.                                                  *)
LEMMA ClrFlagStatusFacts ==
  /\ Fit(Script("SpiFlashClrflagstatus"))
  /\ Whole("SpiFlashClrflagstatus", Script("SpiFlashClrflagstatus"))
<1> DEFINE t == <<"ready", "CLFSR">>
<1>1. t \in Seq(Commands) /\ Len(t) = 2
  BY DEF Commands
<1>2. /\ t[1] = "ready" /\ t[2] = "CLFSR"
  OBVIOUS
<1>3. Script("SpiFlashClrflagstatus") = t
  BY DEF Script, ClrFlagStatus
<1> HIDE DEF t
<1>4. \A k \in 1..2 : t[k] \in NeedsReady => k > 1 /\ t[k - 1] = "ready"
  BY <1>2, SMT DEF NeedsReady, MakesBusy, Modifying
<1>5. \A k \in 1..2 : t[k] \in NeedsWel => k > 2 /\ t[k - 2] = "WREN"
  BY <1>2, SMT DEF NeedsWel, MakesBusy, Modifying
<1>6. \A k \in 1..2 : t[k] \in MakesBusy => k = 0
  BY <1>2, SMT DEF MakesBusy, Modifying
<1>7. \A k \in 1..2 : t[k] \in Needs4Byte => k > 4 /\ t[4] = "EN4B" /\ \A m \in 1..2 : t[m] # "EX4B"
  BY <1>2, SMT DEF Needs4Byte
<1>8. /\ \A k \in 1..2 : t[k] = "CfgInitialize" => k = 1 /\ 2 > 1
      /\ \A k \in 1..2 : t[k] = "WRSR" => "SpiFlashClrflagstatus" = "SpiFlashQuadEnable"
      /\ \A k \in 1..2 : t[k] = "READ" => "SpiFlashClrflagstatus" = "SpiFlashRead"
      /\ \A k \in 1..2 : t[k] \in Modifying => Changes("SpiFlashClrflagstatus")
  BY <1>2, SMT DEF Modifying, Changes
<1>9a. t[2] # "ready"
  BY <1>2
<1>9b. \E i \in Nat : \A k \in 1..2 : t[k] \in MakesBusy => k = i
  BY <1>6
<1>9. Fit(t)
  <2>1. t \in Seq(Commands) /\ Len(t) \in Nat \ {0}
    BY <1>1
  <2>2. \A k \in 1..Len(t) : t[k] \in NeedsReady => k > 1 /\ t[k - 1] = "ready"
    BY <1>1, <1>4
  <2>3. \A k \in 1..Len(t) : t[k] \in NeedsWel => k > 2 /\ t[k - 2] = "WREN"
    BY <1>1, <1>5
  <2>4. \A k \in 1..Len(t) : t[k] = "CfgInitialize" => k = 1 /\ Len(t) > 1
    BY <1>1, <1>8
  <2>5. t[Len(t)] # "ready"
    BY <1>1, <1>9a
  <2>6. \E i \in Nat : \A k \in 1..Len(t) : t[k] \in MakesBusy => k = i
    BY <1>1, <1>9b
  <2>7. \A k \in 1..Len(t) : t[k] \in Needs4Byte => k > 4 /\ t[4] = "EN4B"
    BY <1>1, <1>7
  <2>8. \A k \in 1..Len(t) : t[k] \in Needs4Byte => \A m \in 1..Len(t) : t[m] # "EX4B"
    BY <1>1, <1>7
  <2>9. QED
    BY <2>1, <2>2, <2>3, <2>4, <2>5, <2>6, <2>7, <2>8, Zenon DEF Fit
<1>10. Whole("SpiFlashClrflagstatus", t)
  BY <1>1, <1>2, <1>8 DEF Whole, Modifying
<1>11. QED
  BY <1>3, <1>9, <1>10

(* SpiFlashGetStatusPrint.                                                 *)
LEMMA GetStatusFacts ==
  /\ Fit(Script("SpiFlashGetStatusPrint"))
  /\ Whole("SpiFlashGetStatusPrint", Script("SpiFlashGetStatusPrint"))
<1> DEFINE t == <<"RDSR">>
<1>1. t \in Seq(Commands) /\ Len(t) = 1
  BY DEF Commands
<1>2. /\ t[1] = "RDSR"
  OBVIOUS
<1>3. Script("SpiFlashGetStatusPrint") = t
  BY DEF Script
<1> HIDE DEF t
<1>4. \A k \in 1..1 : t[k] \in NeedsReady => k > 1 /\ t[k - 1] = "ready"
  BY <1>2, SMT DEF NeedsReady, MakesBusy, Modifying
<1>5. \A k \in 1..1 : t[k] \in NeedsWel => k > 2 /\ t[k - 2] = "WREN"
  BY <1>2, SMT DEF NeedsWel, MakesBusy, Modifying
<1>6. \A k \in 1..1 : t[k] \in MakesBusy => k = 0
  BY <1>2, SMT DEF MakesBusy, Modifying
<1>7. \A k \in 1..1 : t[k] \in Needs4Byte => k > 4 /\ t[4] = "EN4B" /\ \A m \in 1..1 : t[m] # "EX4B"
  BY <1>2, SMT DEF Needs4Byte
<1>8. /\ \A k \in 1..1 : t[k] = "CfgInitialize" => k = 1 /\ 1 > 1
      /\ \A k \in 1..1 : t[k] = "WRSR" => "SpiFlashGetStatusPrint" = "SpiFlashQuadEnable"
      /\ \A k \in 1..1 : t[k] = "READ" => "SpiFlashGetStatusPrint" = "SpiFlashRead"
      /\ \A k \in 1..1 : t[k] \in Modifying => Changes("SpiFlashGetStatusPrint")
  BY <1>2, SMT DEF Modifying, Changes
<1>9a. t[1] # "ready"
  BY <1>2
<1>9b. \E i \in Nat : \A k \in 1..1 : t[k] \in MakesBusy => k = i
  BY <1>6
<1>9. Fit(t)
  <2>1. t \in Seq(Commands) /\ Len(t) \in Nat \ {0}
    BY <1>1
  <2>2. \A k \in 1..Len(t) : t[k] \in NeedsReady => k > 1 /\ t[k - 1] = "ready"
    BY <1>1, <1>4
  <2>3. \A k \in 1..Len(t) : t[k] \in NeedsWel => k > 2 /\ t[k - 2] = "WREN"
    BY <1>1, <1>5
  <2>4. \A k \in 1..Len(t) : t[k] = "CfgInitialize" => k = 1 /\ Len(t) > 1
    BY <1>1, <1>8
  <2>5. t[Len(t)] # "ready"
    BY <1>1, <1>9a
  <2>6. \E i \in Nat : \A k \in 1..Len(t) : t[k] \in MakesBusy => k = i
    BY <1>1, <1>9b
  <2>7. \A k \in 1..Len(t) : t[k] \in Needs4Byte => k > 4 /\ t[4] = "EN4B"
    BY <1>1, <1>7
  <2>8. \A k \in 1..Len(t) : t[k] \in Needs4Byte => \A m \in 1..Len(t) : t[m] # "EX4B"
    BY <1>1, <1>7
  <2>9. QED
    BY <2>1, <2>2, <2>3, <2>4, <2>5, <2>6, <2>7, <2>8, Zenon DEF Fit
<1>10. Whole("SpiFlashGetStatusPrint", t)
  BY <1>1, <1>2, <1>8 DEF Whole, Modifying
<1>11. QED
  BY <1>3, <1>9, <1>10

(* qspi_ease_entire_flash.                                                 *)
LEMMA EntireEraseFacts ==
  /\ Fit(Script("qspi_ease_entire_flash"))
  /\ Whole("qspi_ease_entire_flash", Script("qspi_ease_entire_flash"))
<1> DEFINE t == <<"ready", "WREN", "ready", "BE">>
<1>1. t \in Seq(Commands) /\ Len(t) = 4
  BY DEF Commands
<1>2. /\ t[1] = "ready" /\ t[2] = "WREN" /\ t[3] = "ready" /\ t[4] = "BE"
  OBVIOUS
<1>3. Script("qspi_ease_entire_flash") = t
  BY EntireEraseText
<1> HIDE DEF t
<1>4. \A k \in 1..4 : t[k] \in NeedsReady => k > 1 /\ t[k - 1] = "ready"
  BY <1>2, SMT DEF NeedsReady, MakesBusy, Modifying
<1>5. \A k \in 1..4 : t[k] \in NeedsWel => k > 2 /\ t[k - 2] = "WREN"
  BY <1>2, SMT DEF NeedsWel, MakesBusy, Modifying
<1>6. \A k \in 1..4 : t[k] \in MakesBusy => k = 4
  BY <1>2, SMT DEF MakesBusy, Modifying
<1>7. \A k \in 1..4 : t[k] \in Needs4Byte => k > 4 /\ t[4] = "EN4B" /\ \A m \in 1..4 : t[m] # "EX4B"
  BY <1>2, SMT DEF Needs4Byte
<1>8. /\ \A k \in 1..4 : t[k] = "CfgInitialize" => k = 1 /\ 4 > 1
      /\ \A k \in 1..4 : t[k] = "WRSR" => "qspi_ease_entire_flash" = "SpiFlashQuadEnable"
      /\ \A k \in 1..4 : t[k] = "READ" => "qspi_ease_entire_flash" = "SpiFlashRead"
      /\ \A k \in 1..4 : t[k] \in Modifying => Changes("qspi_ease_entire_flash")
  BY <1>2, SMT DEF Modifying, Changes
<1>9a. t[4] # "ready"
  BY <1>2
<1>9b. \E i \in Nat : \A k \in 1..4 : t[k] \in MakesBusy => k = i
  BY <1>6
<1>9. Fit(t)
  <2>1. t \in Seq(Commands) /\ Len(t) \in Nat \ {0}
    BY <1>1
  <2>2. \A k \in 1..Len(t) : t[k] \in NeedsReady => k > 1 /\ t[k - 1] = "ready"
    BY <1>1, <1>4
  <2>3. \A k \in 1..Len(t) : t[k] \in NeedsWel => k > 2 /\ t[k - 2] = "WREN"
    BY <1>1, <1>5
  <2>4. \A k \in 1..Len(t) : t[k] = "CfgInitialize" => k = 1 /\ Len(t) > 1
    BY <1>1, <1>8
  <2>5. t[Len(t)] # "ready"
    BY <1>1, <1>9a
  <2>6. \E i \in Nat : \A k \in 1..Len(t) : t[k] \in MakesBusy => k = i
    BY <1>1, <1>9b
  <2>7. \A k \in 1..Len(t) : t[k] \in Needs4Byte => k > 4 /\ t[4] = "EN4B"
    BY <1>1, <1>7
  <2>8. \A k \in 1..Len(t) : t[k] \in Needs4Byte => \A m \in 1..Len(t) : t[m] # "EX4B"
    BY <1>1, <1>7
  <2>9. QED
    BY <2>1, <2>2, <2>3, <2>4, <2>5, <2>6, <2>7, <2>8, Zenon DEF Fit
<1>10. Whole("qspi_ease_entire_flash", t)
  BY <1>1, <1>2, <1>8 DEF Whole, Modifying
<1>11. QED
  BY <1>3, <1>9, <1>10

(* SpiFlashSectorErase.                                                    *)
LEMMA SectorEraseFacts ==
  /\ Fit(Script("SpiFlashSectorErase"))
  /\ Whole("SpiFlashSectorErase", Script("SpiFlashSectorErase"))
<1> DEFINE t == <<"ready", "WREN", "ready", "EN4B", "ready", "WREN", "ready",
                  "SE", "RDSR", "ready", "WREN", "ready", "FSR", "ready",
                  "CLFSR">>
<1>1. t \in Seq(Commands) /\ Len(t) = 15
  BY DEF Commands
<1>2. /\ t[1] = "ready" /\ t[2] = "WREN" /\ t[3] = "ready" /\ t[4] = "EN4B"
      /\ t[5] = "ready" /\ t[6] = "WREN" /\ t[7] = "ready" /\ t[8] = "SE"
      /\ t[9] = "RDSR" /\ t[10] = "ready" /\ t[11] = "WREN" /\ t[12] = "ready"
      /\ t[13] = "FSR" /\ t[14] = "ready" /\ t[15] = "CLFSR"
  OBVIOUS
<1>3. Script("SpiFlashSectorErase") = t
  BY SectorEraseText
<1> HIDE DEF t
<1>4. \A k \in 1..15 : t[k] \in NeedsReady => k > 1 /\ t[k - 1] = "ready"
  BY <1>2, SMT DEF NeedsReady, MakesBusy, Modifying
<1>5. \A k \in 1..15 : t[k] \in NeedsWel => k > 2 /\ t[k - 2] = "WREN"
  BY <1>2, SMT DEF NeedsWel, MakesBusy, Modifying
<1>6. \A k \in 1..15 : t[k] \in MakesBusy => k = 8
  BY <1>2, SMT DEF MakesBusy, Modifying
<1>7. \A k \in 1..15 : t[k] \in Needs4Byte => k > 4 /\ t[4] = "EN4B" /\ \A m \in 1..15 : t[m] # "EX4B"
  BY <1>2, SMT DEF Needs4Byte
<1>8. /\ \A k \in 1..15 : t[k] = "CfgInitialize" => k = 1 /\ 15 > 1
      /\ \A k \in 1..15 : t[k] = "WRSR" => "SpiFlashSectorErase" = "SpiFlashQuadEnable"
      /\ \A k \in 1..15 : t[k] = "READ" => "SpiFlashSectorErase" = "SpiFlashRead"
      /\ \A k \in 1..15 : t[k] \in Modifying => Changes("SpiFlashSectorErase")
  BY <1>2, SMT DEF Modifying, Changes
<1>9a. t[15] # "ready"
  BY <1>2
<1>9b. \E i \in Nat : \A k \in 1..15 : t[k] \in MakesBusy => k = i
  BY <1>6
<1>9. Fit(t)
  <2>1. t \in Seq(Commands) /\ Len(t) \in Nat \ {0}
    BY <1>1
  <2>2. \A k \in 1..Len(t) : t[k] \in NeedsReady => k > 1 /\ t[k - 1] = "ready"
    BY <1>1, <1>4
  <2>3. \A k \in 1..Len(t) : t[k] \in NeedsWel => k > 2 /\ t[k - 2] = "WREN"
    BY <1>1, <1>5
  <2>4. \A k \in 1..Len(t) : t[k] = "CfgInitialize" => k = 1 /\ Len(t) > 1
    BY <1>1, <1>8
  <2>5. t[Len(t)] # "ready"
    BY <1>1, <1>9a
  <2>6. \E i \in Nat : \A k \in 1..Len(t) : t[k] \in MakesBusy => k = i
    BY <1>1, <1>9b
  <2>7. \A k \in 1..Len(t) : t[k] \in Needs4Byte => k > 4 /\ t[4] = "EN4B"
    BY <1>1, <1>7
  <2>8. \A k \in 1..Len(t) : t[k] \in Needs4Byte => \A m \in 1..Len(t) : t[m] # "EX4B"
    BY <1>1, <1>7
  <2>9. QED
    BY <2>1, <2>2, <2>3, <2>4, <2>5, <2>6, <2>7, <2>8, Zenon DEF Fit
<1>10. Whole("SpiFlashSectorErase", t)
  BY <1>1, <1>2, <1>8 DEF Whole, Modifying
<1>11. QED
  BY <1>3, <1>9, <1>10

(* SpiFlashDieErase.                                                       *)
LEMMA DieEraseFacts ==
  Fit(Script("SpiFlashDieErase")) /\ Whole("SpiFlashDieErase", Script("SpiFlashDieErase"))
<1> DEFINE t == <<"ready", "WREN", "ready", "EN4B", "ready", "WREN", "ready",
                  "RDEAR", "ready", "WREN", "ready", "DE", "RDSR", "ready",
                  "WREN", "ready", "FSR", "ready", "CLFSR">>
<1>1. t \in Seq(Commands) /\ Len(t) = 19
  BY DEF Commands
<1>2. /\ t[1] = "ready" /\ t[2] = "WREN" /\ t[3] = "ready" /\ t[4] = "EN4B"
      /\ t[5] = "ready" /\ t[6] = "WREN" /\ t[7] = "ready" /\ t[8] = "RDEAR"
      /\ t[9] = "ready" /\ t[10] = "WREN" /\ t[11] = "ready" /\ t[12] = "DE"
      /\ t[13] = "RDSR" /\ t[14] = "ready" /\ t[15] = "WREN" /\ t[16] = "ready"
      /\ t[17] = "FSR" /\ t[18] = "ready" /\ t[19] = "CLFSR"
  OBVIOUS
<1>3. Script("SpiFlashDieErase") = t
  BY DieEraseText
<1> HIDE DEF t
<1>4. \A k \in 1..19 : t[k] \in NeedsReady => k > 1 /\ t[k - 1] = "ready"
  BY <1>2, SMT DEF NeedsReady, MakesBusy, Modifying
<1>5. \A k \in 1..19 : t[k] \in NeedsWel => k > 2 /\ t[k - 2] = "WREN"
  BY <1>2, SMT DEF NeedsWel, MakesBusy, Modifying
<1>6. \A k \in 1..19 : t[k] \in MakesBusy => k = 12
  BY <1>2, SMT DEF MakesBusy, Modifying
<1>7. \A k \in 1..19 : t[k] \in Needs4Byte => k > 4 /\ t[4] = "EN4B" /\ \A m \in 1..19 : t[m] # "EX4B"
  BY <1>2, SMT DEF Needs4Byte
<1>8. /\ \A k \in 1..19 : t[k] = "CfgInitialize" => k = 1 /\ 19 > 1
      /\ \A k \in 1..19 : t[k] = "WRSR" => "SpiFlashDieErase" = "SpiFlashQuadEnable"
      /\ \A k \in 1..19 : t[k] = "READ" => "SpiFlashDieErase" = "SpiFlashRead"
      /\ \A k \in 1..19 : t[k] \in Modifying => Changes("SpiFlashDieErase")
  BY <1>2, SMT DEF Modifying, Changes
<1>9a. t[19] # "ready"
  BY <1>2
<1>9b. \E i \in Nat : \A k \in 1..19 : t[k] \in MakesBusy => k = i
  BY <1>6
<1>9. Fit(t)
  <2>1. t \in Seq(Commands) /\ Len(t) \in Nat \ {0}
    BY <1>1
  <2>2. \A k \in 1..Len(t) : t[k] \in NeedsReady => k > 1 /\ t[k - 1] = "ready"
    BY <1>1, <1>4
  <2>3. \A k \in 1..Len(t) : t[k] \in NeedsWel => k > 2 /\ t[k - 2] = "WREN"
    BY <1>1, <1>5
  <2>4. \A k \in 1..Len(t) : t[k] = "CfgInitialize" => k = 1 /\ Len(t) > 1
    BY <1>1, <1>8
  <2>5. t[Len(t)] # "ready"
    BY <1>1, <1>9a
  <2>6. \E i \in Nat : \A k \in 1..Len(t) : t[k] \in MakesBusy => k = i
    BY <1>1, <1>9b
  <2>7. \A k \in 1..Len(t) : t[k] \in Needs4Byte => k > 4 /\ t[4] = "EN4B"
    BY <1>1, <1>7
  <2>8. \A k \in 1..Len(t) : t[k] \in Needs4Byte => \A m \in 1..Len(t) : t[m] # "EX4B"
    BY <1>1, <1>7
  <2>9. QED
    BY <2>1, <2>2, <2>3, <2>4, <2>5, <2>6, <2>7, <2>8, Zenon DEF Fit
<1>10. Whole("SpiFlashDieErase", t)
  BY <1>1, <1>2, <1>8 DEF Whole, Modifying
<1>11. QED
  BY <1>3, <1>9, <1>10

(* SpiFlashWrite_File.                                                     *)
LEMMA WritePageFacts ==
  /\ Fit(Script("SpiFlashWrite_File"))
  /\ Whole("SpiFlashWrite_File", Script("SpiFlashWrite_File"))
<1> DEFINE t == <<"ready", "WREN", "ready", "EN4B", "ready", "WREN", "ready",
                  "PP", "ready", "WREN", "ready", "EX4B">>
<1>1. t \in Seq(Commands) /\ Len(t) = 12
  BY DEF Commands
<1>2. /\ t[1] = "ready" /\ t[2] = "WREN" /\ t[3] = "ready" /\ t[4] = "EN4B"
      /\ t[5] = "ready" /\ t[6] = "WREN" /\ t[7] = "ready" /\ t[8] = "PP"
      /\ t[9] = "ready" /\ t[10] = "WREN" /\ t[11] = "ready" /\ t[12] = "EX4B"
  OBVIOUS
<1>3. Script("SpiFlashWrite_File") = t
  BY WritePageText
<1> HIDE DEF t
<1>4. \A k \in 1..12 : t[k] \in NeedsReady => k > 1 /\ t[k - 1] = "ready"
  BY <1>2, SMT DEF NeedsReady, MakesBusy, Modifying
<1>5. \A k \in 1..12 : t[k] \in NeedsWel => k > 2 /\ t[k - 2] = "WREN"
  BY <1>2, SMT DEF NeedsWel, MakesBusy, Modifying
<1>6. \A k \in 1..12 : t[k] \in MakesBusy => k = 8
  BY <1>2, SMT DEF MakesBusy, Modifying
<1>7. \A k \in 1..12 : t[k] \in Needs4Byte => k > 4 /\ t[4] = "EN4B" /\ \A m \in 1..12 : t[m] # "EX4B"
  BY <1>2, SMT DEF Needs4Byte
<1>8. /\ \A k \in 1..12 : t[k] = "CfgInitialize" => k = 1 /\ 12 > 1
      /\ \A k \in 1..12 : t[k] = "WRSR" => "SpiFlashWrite_File" = "SpiFlashQuadEnable"
      /\ \A k \in 1..12 : t[k] = "READ" => "SpiFlashWrite_File" = "SpiFlashRead"
      /\ \A k \in 1..12 : t[k] \in Modifying => Changes("SpiFlashWrite_File")
  BY <1>2, SMT DEF Modifying, Changes
<1>9a. t[12] # "ready"
  BY <1>2
<1>9b. \E i \in Nat : \A k \in 1..12 : t[k] \in MakesBusy => k = i
  BY <1>6
<1>9. Fit(t)
  <2>1. t \in Seq(Commands) /\ Len(t) \in Nat \ {0}
    BY <1>1
  <2>2. \A k \in 1..Len(t) : t[k] \in NeedsReady => k > 1 /\ t[k - 1] = "ready"
    BY <1>1, <1>4
  <2>3. \A k \in 1..Len(t) : t[k] \in NeedsWel => k > 2 /\ t[k - 2] = "WREN"
    BY <1>1, <1>5
  <2>4. \A k \in 1..Len(t) : t[k] = "CfgInitialize" => k = 1 /\ Len(t) > 1
    BY <1>1, <1>8
  <2>5. t[Len(t)] # "ready"
    BY <1>1, <1>9a
  <2>6. \E i \in Nat : \A k \in 1..Len(t) : t[k] \in MakesBusy => k = i
    BY <1>1, <1>9b
  <2>7. \A k \in 1..Len(t) : t[k] \in Needs4Byte => k > 4 /\ t[4] = "EN4B"
    BY <1>1, <1>7
  <2>8. \A k \in 1..Len(t) : t[k] \in Needs4Byte => \A m \in 1..Len(t) : t[m] # "EX4B"
    BY <1>1, <1>7
  <2>9. QED
    BY <2>1, <2>2, <2>3, <2>4, <2>5, <2>6, <2>7, <2>8, Zenon DEF Fit
<1>10. Whole("SpiFlashWrite_File", t)
  BY <1>1, <1>2, <1>8 DEF Whole, Modifying
<1>11. QED
  BY <1>3, <1>9, <1>10

(* SpiFlashRead.                                                           *)
LEMMA ReadPageFacts ==
  Fit(Script("SpiFlashRead")) /\ Whole("SpiFlashRead", Script("SpiFlashRead"))
<1> DEFINE t == <<"ready", "WREN", "ready", "EN4B", "ready", "WREN", "ready",
                  "READ", "ready", "WREN", "ready", "EX4B">>
<1>1. t \in Seq(Commands) /\ Len(t) = 12
  BY DEF Commands
<1>2. /\ t[1] = "ready" /\ t[2] = "WREN" /\ t[3] = "ready" /\ t[4] = "EN4B"
      /\ t[5] = "ready" /\ t[6] = "WREN" /\ t[7] = "ready" /\ t[8] = "READ"
      /\ t[9] = "ready" /\ t[10] = "WREN" /\ t[11] = "ready" /\ t[12] = "EX4B"
  OBVIOUS
<1>3. Script("SpiFlashRead") = t
  BY ReadPageText
<1> HIDE DEF t
<1>4. \A k \in 1..12 : t[k] \in NeedsReady => k > 1 /\ t[k - 1] = "ready"
  BY <1>2, SMT DEF NeedsReady, MakesBusy, Modifying
<1>5. \A k \in 1..12 : t[k] \in NeedsWel => k > 2 /\ t[k - 2] = "WREN"
  BY <1>2, SMT DEF NeedsWel, MakesBusy, Modifying
<1>6. \A k \in 1..12 : t[k] \in MakesBusy => k = 0
  BY <1>2, SMT DEF MakesBusy, Modifying
<1>7. \A k \in 1..12 : t[k] \in Needs4Byte => k > 4 /\ t[4] = "EN4B" /\ \A m \in 1..12 : t[m] # "EX4B"
  BY <1>2, SMT DEF Needs4Byte
<1>8. /\ \A k \in 1..12 : t[k] = "CfgInitialize" => k = 1 /\ 12 > 1
      /\ \A k \in 1..12 : t[k] = "WRSR" => "SpiFlashRead" = "SpiFlashQuadEnable"
      /\ \A k \in 1..12 : t[k] = "READ" => "SpiFlashRead" = "SpiFlashRead"
      /\ \A k \in 1..12 : t[k] \in Modifying => Changes("SpiFlashRead")
  BY <1>2, SMT DEF Modifying, Changes
<1>9a. t[12] # "ready"
  BY <1>2
<1>9b. \E i \in Nat : \A k \in 1..12 : t[k] \in MakesBusy => k = i
  BY <1>6
<1>9. Fit(t)
  <2>1. t \in Seq(Commands) /\ Len(t) \in Nat \ {0}
    BY <1>1
  <2>2. \A k \in 1..Len(t) : t[k] \in NeedsReady => k > 1 /\ t[k - 1] = "ready"
    BY <1>1, <1>4
  <2>3. \A k \in 1..Len(t) : t[k] \in NeedsWel => k > 2 /\ t[k - 2] = "WREN"
    BY <1>1, <1>5
  <2>4. \A k \in 1..Len(t) : t[k] = "CfgInitialize" => k = 1 /\ Len(t) > 1
    BY <1>1, <1>8
  <2>5. t[Len(t)] # "ready"
    BY <1>1, <1>9a
  <2>6. \E i \in Nat : \A k \in 1..Len(t) : t[k] \in MakesBusy => k = i
    BY <1>1, <1>9b
  <2>7. \A k \in 1..Len(t) : t[k] \in Needs4Byte => k > 4 /\ t[4] = "EN4B"
    BY <1>1, <1>7
  <2>8. \A k \in 1..Len(t) : t[k] \in Needs4Byte => \A m \in 1..Len(t) : t[m] # "EX4B"
    BY <1>1, <1>7
  <2>9. QED
    BY <2>1, <2>2, <2>3, <2>4, <2>5, <2>6, <2>7, <2>8, Zenon DEF Fit
<1>10. Whole("SpiFlashRead", t)
  BY <1>1, <1>2, <1>8 DEF Whole, Modifying
<1>11. QED
  BY <1>3, <1>9, <1>10

(* The function of a call is one of those above.                           *)
LEMMA JobFacts ==
  ASSUME NEW j \in Job
  PROVE  Fit(Script(j.name)) /\ Whole(j.name, Script(j.name))
<1>1. j.name \in PlainNames \cup {"SpiFlashSectorErase", "SpiFlashDieErase",
                                  "SpiFlashWrite_File", "SpiFlashRead"}
  BY DEF Job, Plain, SectorErase, DieErase, WriteFile, Read
<1>2. QED
  BY <1>1, StartupFacts, WriteEnableFacts, QuadEnableFacts, ReadIDFacts, ReadFlagStatusFacts,
     ClrFlagStatusFacts, GetStatusFacts, EntireEraseFacts, SectorEraseFacts, DieEraseFacts,
     WritePageFacts, ReadPageFacts DEF PlainNames

-----------------------------------------------------------------------------
(* What is known of a call in progress.                                    *)

(* No call has the name "none".                                            *)
LEMMA NoJobIsNone == NoJob \notin Job
<1>1. ASSUME NEW j \in Job PROVE j.name # "none"
  <2>1. j.name \in PlainNames \cup {"SpiFlashSectorErase", "SpiFlashDieErase",
                                    "SpiFlashWrite_File", "SpiFlashRead"}
    BY DEF Job, Plain, SectorErase, DieErase, WriteFile, Read
  <2>2. QED
    BY <2>1 DEF PlainNames
<1>2. NoJob.name = "none"
  BY DEF NoJob, Plain
<1>3. QED
  BY <1>1, <1>2

(* Its script, and where the host is in it.                                *)
LEMMA InCall ==
  ASSUME Types, step > 0
  PROVE  /\ job \in Job /\ job # NoJob
         /\ Fit(Text) /\ Whole(job.name, Text)
         /\ Text \in Seq(Commands) /\ Len(Text) \in Nat /\ step \in 1..Len(Text)
         /\ Command = Text[step] /\ Command \in Commands
<1>1. job \in Job /\ step \in Nat /\ step <= Len(Text)
  BY DEF Types
<1>2. Fit(Text) /\ Whole(job.name, Text)
  BY <1>1, JobFacts DEF Text
<1>3. Text \in Seq(Commands) /\ Len(Text) \in Nat
  BY <1>2 DEF Fit
<1>4. step \in 1..Len(Text)
  BY <1>1, <1>3
<1>5. Text[step] \in Commands
  BY <1>3, <1>4
<1>6. Command = Text[step]
  BY DEF Command, Text
<1>7. QED
  BY <1>1, <1>2, <1>3, <1>4, <1>5, <1>6, NoJobIsNone

(* The flash takes every command: the heart of the proof.                  *)
LEMMA Accepted ==
  ASSUME Types, Waited, Mode, step > 0, Usable
  PROVE  Accepts(Command)
<1>1. /\ Fit(Text) /\ step \in 1..Len(Text) /\ Command = Text[step] /\ Len(Text) \in Nat
  BY InCall
<1>2. Command \in NeedsReady => step > 1 /\ Text[step - 1] = "ready"
  BY <1>1 DEF Fit
<1>3. Command \in NeedsReady => ~WIP
  BY <1>2 DEF Waited
<1>4. Command \in NeedsWel => wel
  <2>1. ASSUME Command \in NeedsWel PROVE wel
    <3>1. Command \in NeedsReady
      BY <2>1 DEF NeedsWel, NeedsReady, MakesBusy, Modifying
    <3>2. step > 2 /\ Text[step - 2] = "WREN"
      BY <1>1, <2>1 DEF Fit
    <3>3. QED
      BY <1>2, <3>1, <3>2 DEF Waited
  <2>2. QED
    BY <2>1
<1>5. Command \in Needs4Byte => fourByte
  <2>1. ASSUME Command \in Needs4Byte PROVE fourByte
    <3>1. step > 4 /\ Text[4] = "EN4B"
      BY <1>1, <2>1 DEF Fit
    <3>2. \A m \in 1..Len(Text) : Text[m] # "EX4B"
      BY <1>1, <2>1 DEF Fit
    <3>3. 4 \in 1..(step - 1) /\ 1..(step - 1) \subseteq 1..Len(Text)
      BY <1>1, <3>1
    <3>4. Been("EN4B") /\ ~Been("EX4B")
      BY <3>1, <3>2, <3>3 DEF Been
    <3>5. QED
      BY <3>4 DEF Mode
  <2>2. QED
    BY <2>1
<1>6. QED
  BY <1>3, <1>4, <1>5 DEF Accepts

(* One command more has been.                                              *)
LEMMA NextBeen ==
  ASSUME Types, step > 0, step' = step + 1, job' = job
  PROVE  /\ Text' = Text
         /\ \A c : Been(c)' <=> Been(c) \/ Command = c
         /\ \A C : BeenAny(C)' <=> BeenAny(C) \/ Command \in C
<1>1. Text' = Text
  BY DEF Text
<1>2. Command = Text[step] /\ step \in Nat
  BY InCall DEF Types
<1>3. 1..(step' - 1) = 1..(step - 1) \cup {step}
  BY <1>2
<1>4. ASSUME NEW c PROVE Been(c)' <=> Been(c) \/ Command = c
  BY <1>1, <1>2, <1>3 DEF Been
<1>5. ASSUME NEW C PROVE BeenAny(C)' <=> BeenAny(C) \/ Command \in C
  BY <1>1, <1>2, <1>3 DEF BeenAny
<1>6. QED
  BY <1>1, <1>4, <1>5

(* Nothing has been when a call begins.                                    *)
LEMMA NothingBeen ==
  ASSUME step = 1
  PROVE  (\A c : ~Been(c)) /\ (\A C : ~BeenAny(C))
<1>1. 1..(step - 1) = {}
  OBVIOUS
<1>2. QED
  BY <1>1 DEF Been, BeenAny

(* A call starts one operation at most.                                    *)
LEMMA OneOperation ==
  ASSUME Types, step > 0, BeenAny(MakesBusy)
  PROVE  Command \notin MakesBusy
<1>1. Fit(Text) /\ step \in 1..Len(Text) /\ Command = Text[step] /\ Len(Text) \in Nat
  BY InCall
<1>2. PICK b \in Nat : \A k \in 1..Len(Text) : Text[k] \in MakesBusy => k = b
  BY <1>1 DEF Fit
<1>3. PICK m \in 1..(step - 1) : Text[m] \in MakesBusy
  BY DEF BeenAny
<1>4. m \in 1..Len(Text) /\ m # step
  BY <1>1
<1>5. QED
  BY <1>1, <1>2, <1>3, <1>4

(* Which calls send an erase, a program or a status register write.        *)
LEMMA Kinds ==
  ASSUME Types, step > 0
  PROVE  /\ Command \in Modifying \/ BeenAny(Modifying) => Modifies(job)
         /\ Command = "WRSR" \/ Been("WRSR") => job.name = "SpiFlashQuadEnable" /\ ~Modifies(job)
         /\ Command = "READ" \/ Been("READ") => job.name = "SpiFlashRead" /\ ~Modifies(job)
<1>1. /\ Whole(job.name, Text) /\ step \in 1..Len(Text) /\ Command = Text[step]
      /\ Len(Text) \in Nat
  BY InCall
<1>2. 1..(step - 1) \subseteq 1..Len(Text)
  BY <1>1
<1>3. Changes(job.name) <=> Modifies(job)
  BY DEF Changes, Modifies, Erases
<1>4. Command \in Modifying \/ BeenAny(Modifying) => Changes(job.name)
  BY <1>1, <1>2 DEF Whole, BeenAny
<1>5. Command = "WRSR" \/ Been("WRSR") => job.name = "SpiFlashQuadEnable"
  BY <1>1, <1>2 DEF Whole, Been
<1>6. Command = "READ" \/ Been("READ") => job.name = "SpiFlashRead"
  BY <1>1, <1>2 DEF Whole, Been
<1>7. QED
  BY <1>3, <1>4, <1>5, <1>6 DEF Changes

(* An operation that has been is an erase, a program or a write of the     *)
(* status register.                                                        *)
LEMMA BusyKinds ==
  ASSUME BeenAny(MakesBusy)
  PROVE  BeenAny(Modifying) \/ Been("WRSR")
  BY DEF BeenAny, Been, MakesBusy

(* A read is about a page.                                                 *)
LEMMA ReadsPage ==
  ASSUME NEW j \in Job, j.name = "SpiFlashRead"
  PROVE  j.page \in Page
<1>1. PICK p \in Page : j = Read(p)
  BY DEF Job, Plain, PlainNames, SectorErase, DieErase, WriteFile
<1>2. QED
  BY <1>1 DEF Read

(* An erase or a program is one.                                           *)
LEMMA ModifyingIsBusy ==
  ASSUME BeenAny(Modifying)
  PROVE  BeenAny(MakesBusy)
  BY DEF BeenAny, MakesBusy

(* Nothing is under way in a call that has read its page.                  *)
LEMMA QuietAfterRead ==
  ASSUME Types, Owner, step > 0, Been("READ")
  PROVE  ~WIP
<1>1. Fit(Text) /\ step \in 1..Len(Text) /\ Len(Text) \in Nat
  BY InCall
<1>2. PICK m \in 1..(step - 1) : Text[m] = "READ"
  BY DEF Been
<1>3. m \in 1..Len(Text) /\ Text[m] \in NeedsReady
  BY <1>1, <1>2 DEF NeedsReady
<1>4. m > 1 /\ Text[m - 1] = "ready"
  BY <1>1, <1>3 DEF Fit
<1>5. m - 1 \in 1..(step - 1)
  BY <1>1, <1>4
<1>6. Been("ready")
  BY <1>4, <1>5 DEF Been
<1>7. ~BeenAny(MakesBusy)
  <2>1. job.name = "SpiFlashRead" /\ ~Modifies(job)
    BY Kinds
  <2>2. ~BeenAny(Modifying) /\ ~Been("WRSR")
    BY <2>1, Kinds
  <2>3. QED
    BY <2>2, BusyKinds
<1>8. QED
  BY <1>6, <1>7 DEF Owner

(* A program or an erase keeps the type of the pages.                      *)
LEMMA EffectTyped ==
  ASSUME NEW j \in Job, NEW s \in [Page -> Contents],
         NEW m \in After(j, s) \cup Damage(j, s)
  PROVE  m \in [Page -> Contents]
<1>1. Blank \in Contents /\ Junk \in Contents
  BY DEF Contents
<1>2. CASE m \in Damage(j, s)
  BY <1>1, <1>2 DEF Damage
<1>3. CASE m \in After(j, s)
  <2>1. CASE Erases(j)
    BY <1>1, <1>3, <2>1 DEF After
  <2>2. CASE ~Erases(j) /\ Modifies(j)
    <3>1. PICK p \in Page, d \in Data : j = WriteFile(p, d)
      <4>1. j.name = "SpiFlashWrite_File"
        BY <2>2 DEF Modifies
      <4>2. QED
        BY <4>1 DEF Job, Plain, PlainNames, SectorErase, DieErase, Read
    <3>2. j.page = p /\ j.data = d
      BY <3>1 DEF WriteFile
    <3>3. PICK x \in Overlays(s[p], d) : m = [s EXCEPT ![p] = x]
      BY <1>3, <2>2, <3>2 DEF After
    <3>4. x \in Contents
      BY <3>3 DEF Overlays, Contents
    <3>5. QED
      BY <3>3, <3>4
  <2>3. CASE ~Modifies(j)
    BY <1>3, <2>3 DEF After, Modifies
  <2>4. QED
    BY <2>1, <2>2, <2>3
<1>4. QED
  BY <1>2, <1>3

-----------------------------------------------------------------------------
(* The initial states.                                                     *)
LEMMA InitInv == Init => Inv
<1> SUFFICES ASSUME Init PROVE Inv
  OBVIOUS
<1>1. /\ step = 0 /\ status = "none" /\ sent = "no" /\ job = NoJob /\ running = NoJob
      /\ held = NoFrame /\ isStarted = FALSE /\ stuck = FALSE /\ cut = FALSE
      /\ readBuffer = Blank
  BY DEF Init
<1>2. Types
  <2>1. mem \in [Page -> Contents] /\ readBuffer \in Contents
    BY <1>1 DEF Init, Contents
  <2>2. wel \in BOOLEAN /\ fourByte \in BOOLEAN /\ errFlag \in BOOLEAN
    BY DEF Init
  <2>3. ~WIP
    BY <1>1 DEF WIP
  <2>4. step \in Nat /\ ~(step > 0)
    BY <1>1
  <2>5. /\ cut \in BOOLEAN /\ isStarted \in BOOLEAN /\ stuck \in BOOLEAN
        /\ running \in Job \cup {NoJob} /\ job \in Job \cup {NoJob}
        /\ status \in {"none", "XST_SUCCESS", "XST_FAILURE"}
        /\ sent \in {"no", "running", "applied"}
        /\ ~cut
    BY <1>1
  <2>6. QED
    BY <2>1, <2>2, <2>3, <2>4, <2>5 DEF Types
<1>3. Bus
  BY <1>1 DEF Bus, Usable
<1>4. Waited /\ Mode /\ Owner /\ Reading
  BY <1>1 DEF Waited, Mode, Owner, Reading
<1>5. Effect
  BY <1>1 DEF Effect
<1>6. SuccessLeavesRest
  BY <1>1 DEF SuccessLeavesRest
<1>7. QED
  BY <1>2, <1>3, <1>4, <1>5, <1>6 DEF Inv

(* A stuttering step.                                                      *)
LEMMA Stays ==
  ASSUME Inv, UNCHANGED vars
  PROVE  Inv'
<1>1. UNCHANGED <<mem, wel, cut, fourByte, errFlag, running, isStarted, stuck, held,
                  job, step, status, readBuffer, sent>>
  BY DEF vars, flashVars, busVars, callVars
<1>2. Text' = Text /\ WIP' = WIP /\ Usable' = Usable
  BY <1>1 DEF Text, WIP, Usable
<1>3. Types'
  BY <1>1, <1>2 DEF Inv, Types
<1>4. Bus' /\ Waited'
  BY <1>1, <1>2 DEF Inv, Bus, Waited
<1>5. (\A c : Been(c)' <=> Been(c)) /\ (\A C : BeenAny(C)' <=> BeenAny(C))
  BY <1>1, <1>2 DEF Been, BeenAny
<1>6. Mode' /\ Owner' /\ Effect' /\ Reading'
  BY <1>1, <1>2, <1>5 DEF Inv, Mode, Owner, Effect, Reading
<1>7. SuccessLeavesRest'
  BY <1>1 DEF Inv, SuccessLeavesRest
<1>8. QED
  BY <1>3, <1>4, <1>6, <1>7 DEF Inv

(* A call begins.                                                          *)
LEMMA CallInv ==
  ASSUME Inv, NEW j \in Job, Call(j)
  PROVE  Inv'
<1>1. /\ step = 0 /\ job' = j /\ step' = 1 /\ status' = "none" /\ sent' = sent
      /\ UNCHANGED <<mem, readBuffer, wel, cut, fourByte, errFlag, running>>
      /\ UNCHANGED <<isStarted, stuck, held>>
  BY DEF Call, flashVars, busVars
<1>2. Types /\ Bus /\ Effect
  BY DEF Inv
<1>3. Types'
  <2>1. Len(Script(j.name)) \in Nat \ {0}
    BY JobFacts DEF Fit
  <2>2. step' \in Nat /\ (step' > 0 => job' \in Job /\ step' <= Len(Text)')
    BY <1>1, <2>1 DEF Text
  <2>3. QED
    BY <1>1, <1>2, <2>2 DEF Types, WIP
<1>4. Bus'
  BY <1>1, <1>2 DEF Bus, Usable, WIP
<1>5. (\A c : ~Been(c)') /\ (\A C : ~BeenAny(C)')
  <2>1. 1..(step' - 1) = {}
    BY <1>1
  <2>2. QED
    BY <2>1 DEF Been, BeenAny
<1>6. Waited'
  BY <1>1 DEF Waited
<1>7. Mode' /\ Owner' /\ Reading'
  BY <1>5 DEF Mode, Owner, Reading
<1>8. Effect'
  BY <1>1, <1>2, <1>5 DEF Effect
<1>9. SuccessLeavesRest'
  BY <1>1 DEF SuccessLeavesRest
<1>10. QED
  BY <1>3, <1>4, <1>6, <1>7, <1>8, <1>9 DEF Inv

(* A call returns, and leaves the flash and the driver as they are.        *)
LEMMA ReturnInv ==
  ASSUME Types, Bus, UNCHANGED <<mem, wel, cut, fourByte, errFlag, running, isStarted>>,
         stuck' => isStarted', Usable' => held' = NoFrame,
         held' # held =>
           /\ held'.job \in Job /\ held'.cmd \in Commands \ {"CfgInitialize"}
           /\ held'.cmd \in NeedsReady => ~WIP
           /\ held'.cmd \in Modifying => Modifies(held'.job)
           /\ held'.cmd = "WRSR" => ~Modifies(held'.job),
         stuck' \in BOOLEAN, job' = job, readBuffer' = readBuffer,
         step' = 0, status' \in {"none", "XST_SUCCESS", "XST_FAILURE"}, sent' = "no",
         SuccessLeavesRest'
  PROVE  Inv'
<1>1. Types'
  BY DEF Types, WIP
<1>2. Bus'
  BY DEF Bus, WIP
<1>3. Waited' /\ Mode' /\ Owner' /\ Reading'
  BY DEF Waited, Mode, Owner, Reading
<1>4. Effect'
  BY DEF Effect
<1>5. QED
  BY <1>1, <1>2, <1>3, <1>4 DEF Inv

(* The frame of a transfer in progress may be left on the bus.             *)
LEMMA LeftFrame ==
  ASSUME Types, Waited, Mode, step > 0, Usable, Command # "CfgInitialize",
         NEW f, f = [cmd |-> Command, job |-> job]
  PROVE  /\ f.job \in Job /\ f.cmd \in Commands \ {"CfgInitialize"}
         /\ f.cmd \in NeedsReady => ~WIP
         /\ f.cmd \in Modifying => Modifies(f.job)
         /\ f.cmd = "WRSR" => ~Modifies(f.job)
<1>1. f.cmd = Command /\ f.job = job
  OBVIOUS
<1>2. job \in Job /\ Command \in Commands
  BY InCall
<1>3. Command \in NeedsReady => ~WIP
  BY Accepted DEF Accepts
<1>4. QED
  BY <1>1, <1>2, <1>3, Kinds

(* The driver is reset, and the flash executes what was left on the bus.   *)
LEMMA CfgInitializeInv ==
  ASSUME Inv, CfgInitialize
  PROVE  Inv'
<1>1. Types /\ Bus /\ Effect
  BY DEF Inv
<1>2. step > 0 /\ Command = "CfgInitialize" /\ ~isStarted
  BY DEF CfgInitialize
<1>3. step = 1 /\ Len(Text) \in Nat /\ Len(Text) > 1 /\ Text[1] = "CfgInitialize"
  BY <1>1, <1>2, InCall DEF Fit
<1>4. step' = 2 /\ sent' = sent /\ job' = job /\ status' = status
  <2>1. step # Len(Script(job.name))
    <3>1. step = 1 /\ Len(Text) \in Nat /\ Len(Text) > 1
      BY <1>3
    <3>2. step # Len(Text)
      BY <3>1
    <3>3. QED
      BY <3>2 DEF Text
  <2>2. Advance(sent)
    BY DEF CfgInitialize
  <2>3. QED
    BY <1>3, <2>1, <2>2 DEF Advance
<1>5. /\ isStarted' = TRUE /\ held' = NoFrame /\ stuck' = stuck /\ readBuffer' = readBuffer
      /\ mem' = mem
  BY DEF CfgInitialize, Execute, flashVars
<1>6. ~stuck
  BY <1>1, <1>2 DEF Bus
<1>7. wel' \in BOOLEAN /\ fourByte' \in BOOLEAN /\ errFlag' \in BOOLEAN
  BY <1>1 DEF CfgInitialize, Execute, flashVars, Types
<1>8. /\ running' \in Job \cup {NoJob} /\ cut' \in BOOLEAN
      /\ ~WIP' => ~cut'
  <2>1. held.cmd \in MakesBusy => held.job \in Job /\ held.job # NoJob
    BY <1>1, NoJobIsNone DEF Bus, NoFrame, MakesBusy, Modifying
  <2>2. CASE Execute(held.cmd, held.job)
    <3>1. running' \in {running, held.job} /\ cut' = cut
      BY <2>2 DEF Execute
    <3>2. running' # running => held.cmd \in MakesBusy /\ running' = held.job
      BY <2>2 DEF Execute
    <3>3. QED
      BY <1>1, <2>1, <3>1, <3>2 DEF Types, WIP
  <2>3. CASE held.cmd = "PP" /\ running' = held.job /\ cut' = TRUE
    BY <2>1, <2>3 DEF MakesBusy, Modifying, WIP
  <2>4. CASE UNCHANGED flashVars
    BY <1>1, <2>4 DEF flashVars, Types, WIP
  <2>5. QED
    BY <2>2, <2>3, <2>4 DEF CfgInitialize
<1>9. Types'
  <2>1. Text' = Text
    BY <1>4 DEF Text
  <2>2. step' \in Nat /\ (step' > 0 => job' \in Job /\ step' <= Len(Text)')
    BY <1>1, <1>2, <1>3, <1>4, <2>1, InCall
  <2>3. QED
    BY <1>1, <1>4, <1>5, <1>7, <1>8, <2>2 DEF Types
<1>10. Bus'
  BY <1>5, <1>6 DEF Bus, Usable
<1>11. /\ \A c : Been(c)' => c = "CfgInitialize"
       /\ \A C : BeenAny(C)' => "CfgInitialize" \in C
  BY <1>1, <1>2, <1>3, <1>4, NextBeen, NothingBeen
<1>12. Waited'
  <2>1. Text' = Text
    BY <1>4 DEF Text
  <2>2. QED
    BY <1>3, <1>4, <2>1 DEF Waited
<1>13. Mode' /\ Owner' /\ Reading'
  BY <1>11 DEF Mode, Owner, Reading
<1>14. Effect'
  <2>1. sent = "no"
    BY <1>1, <1>2, <1>3, NothingBeen DEF Effect
  <2>2. ~BeenAny(Modifying)'
    BY <1>11 DEF Modifying
  <2>3. QED
    BY <1>4, <2>1, <2>2 DEF Effect
<1>15. SuccessLeavesRest'
  BY <1>4 DEF SuccessLeavesRest
<1>16. QED
  BY <1>9, <1>10, <1>12, <1>13, <1>14, <1>15 DEF Inv

(* The driver is started already.                                          *)
LEMMA CfgInitializeRefusedInv ==
  ASSUME Inv, CfgInitializeRefused
  PROVE  Inv'
<1>1. Types /\ Bus
  BY DEF Inv
<1>2. /\ step' = 0 /\ status' = "XST_FAILURE" /\ sent' = "no" /\ job' = job
      /\ UNCHANGED <<mem, wel, cut, fourByte, errFlag, running, isStarted, stuck, held,
                     readBuffer>>
  BY DEF CfgInitializeRefused, Return, flashVars, busVars
<1>3. SuccessLeavesRest'
  BY <1>2 DEF SuccessLeavesRest
<1>4. (stuck' => isStarted') /\ (Usable' => held' = NoFrame) /\ stuck' \in BOOLEAN
  BY <1>1, <1>2 DEF Types, Bus, Usable
<1>5. QED
  BY <1>1, <1>2, <1>3, <1>4, ReturnInv

(* The status register is read.                                            *)
LEMMA WaitForFlashReadyInv ==
  ASSUME Inv, WaitForFlashReady
  PROVE  Inv'
<1>1. Types /\ Bus /\ Waited /\ Mode /\ Owner /\ Effect /\ Reading /\ SuccessLeavesRest
  BY DEF Inv
<1>2. /\ step > 0 /\ Usable /\ Command = "ready"
      /\ UNCHANGED <<mem, wel, cut, fourByte, errFlag, running, isStarted, stuck, held,
                     readBuffer>>
  BY DEF WaitForFlashReady, flashVars, busVars
<1>3. CASE WIP
  <2>1. UNCHANGED vars
    BY <1>2, <1>3 DEF WaitForFlashReady, vars, flashVars, busVars, callVars
  <2>2. QED
    BY <2>1, Stays
<1>4. CASE ~WIP
  <2>1. /\ Text \in Seq(Commands) /\ Len(Text) \in Nat /\ step \in 1..Len(Text)
        /\ Text[step] = "ready" /\ job \in Job /\ Fit(Text)
    BY <1>1, <1>2, InCall
  <2>2. step < Len(Text)
    BY <2>1 DEF Fit
  <2>3. step' = step + 1 /\ sent' = sent /\ job' = job /\ status' = status
    BY <1>2, <1>4, <2>2 DEF WaitForFlashReady, Advance, Text
  <2>4. /\ Text' = Text
        /\ \A c : Been(c)' <=> Been(c) \/ c = "ready"
        /\ \A C : BeenAny(C)' <=> BeenAny(C) \/ "ready" \in C
    BY <1>1, <1>2, <2>3, NextBeen
  <2>5. WIP' = WIP /\ Usable' = Usable
    BY <1>2 DEF WIP, Usable
  <2>6. Types'
    BY <1>1, <1>2, <2>1, <2>2, <2>3, <2>4, <2>5 DEF Types
  <2>7. Bus'
    BY <1>1, <1>2, <2>5 DEF Bus
  <2>8. Waited'
    BY <1>1, <1>2, <1>4, <2>1, <2>3, <2>4, <2>5 DEF Waited
  <2>9. Mode'
    BY <1>1, <1>2, <2>3, <2>4 DEF Mode
  <2>10. Owner'
    BY <1>4, <2>5 DEF Owner
  <2>11. Effect'
    <3>1. BeenAny(Modifying)' <=> BeenAny(Modifying)
      BY <2>4 DEF Modifying
    <3>2. QED
      BY <1>1, <1>2, <1>4, <2>1, <2>3, <2>5, <3>1 DEF Effect
  <2>12. Reading'
    BY <1>1, <1>2, <2>3, <2>4 DEF Reading
  <2>13. SuccessLeavesRest'
    BY <2>1, <2>3 DEF SuccessLeavesRest
  <2>14. QED
    BY <2>6, <2>7, <2>8, <2>9, <2>10, <2>11, <2>12, <2>13 DEF Inv
<1>5. QED
  BY <1>3, <1>4

(* A command is exchanged, and another step follows.                       *)
LEMMA SendOnInv ==
  ASSUME Inv, Send, step # Len(Text)
  PROVE  Inv'
<1>1. Types /\ Bus /\ Waited /\ Mode /\ Owner /\ Effect /\ Reading
  BY DEF Inv
<1>2. /\ step > 0 /\ Usable /\ Command # "ready" /\ Command # "CfgInitialize"
      /\ UNCHANGED <<mem, cut, isStarted, stuck, held>>
  BY DEF Send, Execute, busVars
<1>3. Accepts(Command)
  BY <1>1, <1>2, Accepted
<1>4. /\ Text \in Seq(Commands) /\ Len(Text) \in Nat /\ step \in 1..Len(Text)
      /\ Text[step] = Command /\ job \in Job /\ job # NoJob /\ Fit(Text)
  BY <1>1, <1>2, InCall
<1>5. /\ step' = step + 1 /\ job' = job /\ status' = status
      /\ sent' = IF Command \in Modifying THEN "running" ELSE sent
  <2>1. Advance(IF Command \in Modifying /\ Accepts(Command) THEN "running" ELSE sent)
    BY DEF Send
  <2>2. QED
    BY <1>3, <2>1 DEF Advance, Text
<1>6. /\ Text' = Text
      /\ \A c : Been(c)' <=> Been(c) \/ Command = c
      /\ \A C : BeenAny(C)' <=> BeenAny(C) \/ Command \in C
  BY <1>1, <1>2, <1>5, NextBeen
<1>7. /\ running' = IF Command \in MakesBusy THEN job ELSE running
      /\ fourByte' = IF Command \in {"EN4B", "EX4B"} THEN Command = "EN4B" ELSE fourByte
      /\ wel' = IF Command \in {"WREN", "EN4B", "EX4B"} THEN Command = "WREN" ELSE wel
      /\ readBuffer' = IF Command = "READ" THEN mem[job.page] ELSE readBuffer
  BY <1>3 DEF Send, Execute
<1>8. Command \in NeedsReady => ~WIP
  BY <1>3 DEF Accepts
<1>9. Types'
  <2>1. step' \in Nat /\ (step' > 0 => job' \in Job /\ step' <= Len(Text)')
    BY <1>4, <1>5, <1>6
  <2>2. wel' \in BOOLEAN /\ fourByte' \in BOOLEAN /\ errFlag' \in BOOLEAN
    BY <1>1 DEF Send, Execute, Types
  <2>3. readBuffer' \in Contents
    <3>1. CASE Command = "READ"
      <4>1. job.page \in Page
        <5>1. job.name = "SpiFlashRead"
          BY <1>1, <1>2, <3>1, Kinds
        <5>2. QED
          BY <1>4, <5>1, ReadsPage
      <4>2. QED
        BY <1>1, <1>7, <3>1, <4>1 DEF Types
    <3>2. CASE Command # "READ"
      BY <1>1, <1>7, <3>2 DEF Types
    <3>3. QED
      BY <3>1, <3>2
  <2>4. running' \in Job \cup {NoJob} /\ (~WIP' => ~cut')
    BY <1>1, <1>2, <1>4, <1>7 DEF Types, WIP
  <2>5. sent' \in {"no", "running", "applied"}
    BY <1>1, <1>5 DEF Types
  <2>6. QED
    BY <1>1, <1>2, <1>5, <2>1, <2>2, <2>3, <2>4, <2>5 DEF Types
<1>10. Bus'
  <2>1. Usable' = Usable /\ held' = NoFrame
    BY <1>1, <1>2 DEF Bus, Usable
  <2>2. QED
    BY <1>1, <1>2, <2>1 DEF Bus
<1>11. Waited'
  <2>1. step' - 1 = step /\ Text' = Text
    BY <1>4, <1>5, <1>6
  <2>2. Command = "WREN" => ~WIP' /\ wel'
    BY <1>7, <1>8 DEF WIP, NeedsReady, MakesBusy, Modifying
  <2>3. QED
    BY <1>2, <1>4, <2>1, <2>2 DEF Waited
<1>12. Mode'
  BY <1>1, <1>2, <1>6, <1>7 DEF Mode
<1>13. Owner'
  <2>1. CASE Command \in MakesBusy
    BY <1>5, <1>6, <1>7, <2>1 DEF Owner
  <2>2. CASE Command \notin MakesBusy
    BY <1>1, <1>2, <1>5, <1>6, <1>7, <2>2 DEF Owner, WIP
  <2>3. QED
    BY <2>1, <2>2
<1>14. Effect'
  <2>1. step' > 0
    BY <1>4, <1>5
  <2>2. BeenAny(Modifying)' <=> BeenAny(Modifying) \/ Command \in Modifying
    BY <1>6
  <2>3. CASE Command \in Modifying
    <3>1. ~WIP /\ ~cut
      BY <1>1, <1>8, <2>3 DEF Types, NeedsReady, MakesBusy
    <3>2. running' = job /\ sent' = "running" /\ WIP'
      BY <1>4, <1>5, <1>7, <2>3 DEF MakesBusy, WIP
    <3>3. QED
      BY <1>2, <1>5, <2>1, <2>2, <2>3, <3>1, <3>2 DEF Effect
  <2>4. CASE Command \notin Modifying
    <3>1. sent' = sent /\ (sent # "no" <=> BeenAny(Modifying))
      BY <1>1, <1>2, <1>5, <2>4 DEF Effect
    <3>2. sent = "running" => WIP' /\ running' = job /\ ~cut'
      BY <1>1, <1>2, <1>4, <1>7 DEF Effect, WIP
    <3>3. sent = "applied" => ~WIP'
      <4>1. sent = "applied" => Command \notin MakesBusy
        BY <1>1, <1>2, <3>1, OneOperation, ModifyingIsBusy
      <4>2. QED
        BY <1>1, <1>7, <4>1 DEF Effect, WIP
    <3>4. QED
      BY <1>5, <2>1, <2>2, <2>4, <3>1, <3>2, <3>3 DEF Effect
  <2>5. QED
    BY <2>3, <2>4
<1>15. Reading'
  BY <1>1, <1>2, <1>5, <1>6, <1>7 DEF Reading
<1>16. SuccessLeavesRest'
  BY <1>4, <1>5 DEF SuccessLeavesRest
<1>17. QED
  BY <1>9, <1>10, <1>11, <1>12, <1>13, <1>14, <1>15, <1>16 DEF Inv

(* The last command of a call is exchanged.                                *)
LEMMA SendLastInv ==
  ASSUME Inv, Send, step = Len(Text)
  PROVE  Inv'
<1>1. Types /\ Bus /\ Waited /\ Mode /\ Owner /\ Effect /\ Reading
  BY DEF Inv
<1>2. /\ step > 0 /\ Usable /\ Command # "ready" /\ Command # "CfgInitialize"
      /\ UNCHANGED <<mem, cut, isStarted, stuck, held>>
  BY DEF Send, Execute, busVars
<1>3. Accepts(Command)
  BY <1>1, <1>2, Accepted
<1>4. /\ Text[Len(Text)] = Command /\ job \in Job /\ job # NoJob
      /\ Whole(job.name, Text)
  BY <1>1, <1>2, InCall
<1>5. step' = 0 /\ job' = job /\ status' = "XST_SUCCESS" /\ sent' = "no"
  <2>1. Advance(IF Command \in Modifying /\ Accepts(Command) THEN "running" ELSE sent)
    BY DEF Send
  <2>2. QED
    BY <2>1 DEF Advance, Return, Text
<1>6. /\ running' = IF Command \in MakesBusy THEN job ELSE running
      /\ fourByte' = IF Command \in {"EN4B", "EX4B"} THEN Command = "EN4B" ELSE fourByte
      /\ readBuffer' = IF Command = "READ" THEN mem[job.page] ELSE readBuffer
  BY <1>3 DEF Send, Execute
<1>7. SuccessLeavesRest'
  <2>1. ASSUME job.name \in {"SpiFlashWrite_File", "SpiFlashRead"}
        PROVE  running' = NoJob /\ held' = NoFrame /\ ~fourByte'
    <3>1. Command = "EX4B"
      BY <1>4, <2>1 DEF Whole
    <3>2. ~WIP
      BY <1>3, <3>1 DEF Accepts, NeedsReady
    <3>3. running' = NoJob /\ ~fourByte'
      BY <1>6, <3>1, <3>2 DEF WIP, MakesBusy, Modifying
    <3>4. QED
      BY <1>1, <1>2, <3>3 DEF Bus
  <2>2. QED
    BY <1>5, <2>1 DEF SuccessLeavesRest
<1>8. Types'
  <2>1. wel' \in BOOLEAN /\ fourByte' \in BOOLEAN /\ errFlag' \in BOOLEAN
    BY <1>1 DEF Send, Execute, Types
  <2>2. readBuffer' \in Contents
    <3>1. Command = "READ" => job.page \in Page
      BY <1>1, <1>2, <1>4, Kinds, ReadsPage
    <3>2. QED
      BY <1>1, <1>6, <3>1 DEF Types
  <2>3. running' \in Job \cup {NoJob} /\ (~WIP' => ~cut')
    BY <1>1, <1>2, <1>4, <1>6 DEF Types, WIP
  <2>4. QED
    BY <1>1, <1>2, <1>5, <2>1, <2>2, <2>3 DEF Types
<1>9. Bus'
  <2>1. held' = NoFrame
    BY <1>1, <1>2 DEF Bus
  <2>2. QED
    BY <1>1, <1>2, <1>5, <2>1 DEF Bus
<1>10. Waited' /\ Mode' /\ Owner' /\ Reading'
  BY <1>5 DEF Waited, Mode, Owner, Reading
<1>11. Effect'
  BY <1>5 DEF Effect
<1>12. QED
  BY <1>7, <1>8, <1>9, <1>10, <1>11 DEF Inv

(* A transfer gives up, or fails: the call returns.                        *)
LEMMA FailReturns ==
  ASSUME Types, Fail
  PROVE  /\ step' = 0 /\ sent' = "no" /\ job' = job
         /\ status' = IF FailureDropped THEN "XST_SUCCESS" ELSE "XST_FAILURE"
         /\ SuccessLeavesRest'
<1>1. /\ step' = 0 /\ sent' = "no" /\ job' = job
      /\ status' = IF FailureDropped THEN "XST_SUCCESS" ELSE "XST_FAILURE"
  BY DEF Fail, Return
<1>2. status' = "XST_SUCCESS" => job'.name \in {"SpiFlashSectorErase", "SpiFlashDieErase"}
  BY <1>1 DEF FailureDropped
<1>3. SuccessLeavesRest'
  BY <1>2 DEF SuccessLeavesRest
<1>4. QED
  BY <1>1, <1>3

(* The transfer gives up.                                                  *)
LEMMA GiveUpInv ==
  ASSUME Inv, GiveUp
  PROVE  Inv'
<1>1. Types /\ Bus /\ Waited /\ Mode
  BY DEF Inv
<1>2. /\ step > 0 /\ Usable /\ Command # "CfgInitialize"
      /\ stuck' = TRUE /\ held' = [cmd |-> Command, job |-> job]
      /\ UNCHANGED <<mem, wel, cut, fourByte, errFlag, running, isStarted, readBuffer>>
  BY DEF GiveUp, flashVars
<1>3. /\ step' = 0 /\ sent' = "no" /\ job' = job
      /\ status' \in {"none", "XST_SUCCESS", "XST_FAILURE"}
      /\ SuccessLeavesRest'
  BY <1>1, FailReturns DEF GiveUp
<1>4. (stuck' => isStarted') /\ ~Usable' /\ stuck' \in BOOLEAN
  BY <1>2 DEF Usable
<1>5. /\ held'.job \in Job /\ held'.cmd \in Commands \ {"CfgInitialize"}
      /\ held'.cmd \in NeedsReady => ~WIP
      /\ held'.cmd \in Modifying => Modifies(held'.job)
      /\ held'.cmd = "WRSR" => ~Modifies(held'.job)
  BY <1>1, <1>2, LeftFrame
<1>6. QED
  BY <1>1, <1>2, <1>3, <1>4, <1>5, ReturnInv

(* The driver refuses.                                                     *)
LEMMA RefusedInv ==
  ASSUME Inv, Refused
  PROVE  Inv'
<1>1. Types /\ Bus
  BY DEF Inv
<1>2. /\ ~Usable
      /\ UNCHANGED <<mem, wel, cut, fourByte, errFlag, running, isStarted, stuck, held,
                     readBuffer>>
  BY DEF Refused, flashVars, busVars
<1>3. /\ step' = 0 /\ sent' = "no" /\ job' = job
      /\ status' \in {"none", "XST_SUCCESS", "XST_FAILURE"}
      /\ SuccessLeavesRest'
  BY <1>1, FailReturns DEF Refused
<1>4. (stuck' => isStarted') /\ ~Usable' /\ stuck' \in BOOLEAN
  BY <1>1, <1>2 DEF Usable, Types, Bus
<1>5. QED
  BY <1>1, <1>2, <1>3, <1>4, ReturnInv

(* The process ends.                                                       *)
LEMMA ProcessEndInv ==
  ASSUME Inv, ProcessEnd
  PROVE  Inv'
<1>1. Types /\ Bus /\ Waited /\ Mode
  BY DEF Inv
<1>2. /\ isStarted' = FALSE /\ stuck' = FALSE /\ job' = NoJob /\ step' = 0
      /\ status' = "none" /\ sent' = "no" /\ readBuffer' = Blank
      /\ UNCHANGED <<mem, wel, cut, fourByte, errFlag, running>>
  BY DEF ProcessEnd, flashVars
<1>3. \/ held' = held
      \/ /\ step > 0 /\ Usable /\ Command # "CfgInitialize"
         /\ held' = [cmd |-> Command, job |-> job]
  BY DEF ProcessEnd
<1>4. held' # held =>
        /\ held'.job \in Job /\ held'.cmd \in Commands \ {"CfgInitialize"}
        /\ held'.cmd \in NeedsReady => ~WIP
        /\ held'.cmd \in Modifying => Modifies(held'.job)
        /\ held'.cmd = "WRSR" => ~Modifies(held'.job)
  BY <1>1, <1>3, LeftFrame
<1>5. Types'
  <2>1. readBuffer' \in Contents
    BY <1>2 DEF Contents
  <2>2. step' \in Nat /\ ~(step' > 0)
    BY <1>2
  <2>3. QED
    BY <1>1, <1>2, <2>1, <2>2 DEF Types, WIP
<1>6. Bus'
  BY <1>1, <1>2, <1>4 DEF Bus, Usable, WIP
<1>7. Waited' /\ Mode' /\ Owner' /\ Reading'
  BY <1>2 DEF Waited, Mode, Owner, Reading
<1>8. Effect'
  BY <1>2 DEF Effect
<1>9. SuccessLeavesRest'
  BY <1>2 DEF SuccessLeavesRest
<1>10. QED
  BY <1>5, <1>6, <1>7, <1>8, <1>9 DEF Inv

(* The erase or program in progress ends, well or not.                     *)
LEMMA EndsInv ==
  ASSUME Inv, WIP, mem' \in After(running, mem) \cup Damage(running, mem),
         running' = NoJob, cut' = FALSE, wel' \in BOOLEAN, errFlag' \in BOOLEAN,
         sent' = IF sent = "running" THEN "applied" ELSE sent,
         UNCHANGED <<fourByte, isStarted, stuck, held, job, step, status, readBuffer>>
  PROVE  Inv'
<1>1. Types /\ Bus /\ Waited /\ Mode /\ Owner /\ Effect /\ Reading /\ SuccessLeavesRest
  BY DEF Inv
<1>2. ~WIP' /\ Text' = Text /\ Usable' = Usable
  BY DEF WIP, Text, Usable
<1>3. (\A c : Been(c)' <=> Been(c)) /\ (\A C : BeenAny(C)' <=> BeenAny(C))
  BY <1>2 DEF Been, BeenAny
<1>4. running \in Job
  BY <1>1 DEF Types, WIP
<1>5. Types'
  <2>1. mem' \in [Page -> Contents]
    BY <1>1, <1>4, EffectTyped DEF Types
  <2>2. sent' \in {"no", "running", "applied"}
    BY <1>1 DEF Types
  <2>3. QED
    BY <1>1, <1>2, <2>1, <2>2 DEF Types
<1>6. Bus'
  BY <1>1, <1>2 DEF Bus
<1>7. Waited'
  <2>1. ~(step > 1 /\ Text[step - 1] = "ready") /\ step \in Nat
    BY <1>1 DEF Waited, Types
  <2>2. ~(step > 2 /\ Text[step - 1] = "ready")
    BY <2>1
  <2>3. QED
    BY <1>1, <1>2, <2>1, <2>2 DEF Waited
<1>8. Mode' /\ Owner'
  BY <1>1, <1>2, <1>3 DEF Mode, Owner
<1>9. Effect'
  BY <1>1, <1>2, <1>3 DEF Effect
<1>10. Reading'
  <2>1. step > 0 => ~Been("READ")
    BY <1>1, QuietAfterRead
  <2>2. QED
    BY <1>3, <2>1 DEF Reading
<1>11. SuccessLeavesRest'
  BY <1>1 DEF SuccessLeavesRest
<1>12. QED
  BY <1>5, <1>6, <1>7, <1>8, <1>9, <1>10, <1>11 DEF Inv

(* The driver and the flash, one step.                                     *)
LEMMA InvStep ==
  ASSUME Inv, [Next]_vars
  PROVE  Inv'
<1>1. ASSUME NEW j \in Job, Call(j) PROVE Inv'
  BY <1>1, CallInv
<1>2. CASE CfgInitialize
  BY <1>2, CfgInitializeInv
<1>3. CASE CfgInitializeRefused
  BY <1>3, CfgInitializeRefusedInv
<1>4. CASE WaitForFlashReady
  BY <1>4, WaitForFlashReadyInv
<1>5. CASE Send
  BY <1>5, SendOnInv, SendLastInv
<1>6. CASE Refused
  BY <1>6, RefusedInv
<1>7. CASE GiveUp
  BY <1>7, GiveUpInv
<1>8. CASE ProcessEnd
  BY <1>8, ProcessEndInv
<1>9. CASE Finish
  <2>1. errFlag' \in BOOLEAN
    BY <1>9 DEF Finish, Inv, Types
  <2>2. QED
    BY <1>9, <2>1, EndsInv DEF Finish, busVars
<1>10. CASE FinishInError
  BY <1>10, EndsInv DEF FinishInError, busVars
<1>11. CASE UNCHANGED vars
  BY <1>11, Stays
<1>12. QED
  BY <1>1, <1>2, <1>3, <1>4, <1>5, <1>6, <1>7, <1>8, <1>9, <1>10, <1>11
  DEF Next, HostStep, DeviceStep

(* The invariant holds throughout.                                         *)
THEOREM Invariant == Spec => []Inv
<1>1. Init => Inv
  BY InitInv
<1>2. Inv /\ [Next]_vars => Inv'
  BY InvStep
<1>3. QED
  BY <1>1, <1>2, PTL DEF Spec

(* Every variable keeps its type.                                          *)
THEOREM TypeCorrect == Spec => []TypeOK
<1>1. Inv => TypeOK
  <2>1. ASSUME Inv PROVE TypeOK
    <3>1. Types /\ Bus
      BY <2>1 DEF Inv
    <3>2. held # NoFrame => held.job \in Job /\ held.cmd \in NeedsReady \cup {"ready", "RDSR", "FSR"}
      BY <3>1 DEF Bus, Commands, NeedsReady, MakesBusy, Modifying
    <3>3. step > 0 => job \in Job /\ step \in 1..Len(Script(job.name))
      BY <3>1, InCall DEF Text
    <3>4. QED
      BY <3>1, <3>2, <3>3 DEF TypeOK, Types
  <2>2. QED
    BY <2>1
<1>2. QED
  BY <1>1, Invariant, PTL

(* The flash takes every command it is sent, whatever was interrupted,     *)
(* given up or left running before.                                        *)
THEOREM CommandsTaken == Spec => []CommandsAccepted
<1>1. Inv => CommandsAccepted
  BY Accepted DEF Inv, CommandsAccepted
<1>2. QED
  BY <1>1, Invariant, PTL

(* A write or read that returns success leaves the flash at rest.          *)
THEOREM SuccessRests == Spec => []SuccessLeavesRest
<1>1. Inv => SuccessLeavesRest
  BY DEF Inv
<1>2. QED
  BY <1>1, Invariant, PTL

-----------------------------------------------------------------------------
(* The refinement.  What FlashStore sees of the layer.                     *)

Current == IF step = 0 THEN NoJob ELSE job
Orphan ==
  IF WIP /\ Modifies(running) /\ sent # "running" THEN running
  ELSE IF held.cmd \in Modifying THEN held.job ELSE NoJob
Answer ==
  IF step = 0 /\ status = "XST_SUCCESS" /\ job.name = "SpiFlashRead" THEN readBuffer ELSE Blank

(* The calls and the pages are the same for both.                          *)
LEMMA SameCalls ==
  /\ Store!NoJob = NoJob /\ Store!Job = Job
  /\ Store!Page = Page /\ Store!Contents = Contents
  /\ \A j : Store!Erases(j) <=> Erases(j)
  /\ \A j : Store!Modifies(j) <=> Modifies(j)
  /\ \A j : Store!Waits(j) <=> j.name # "SpiFlashGetStatusPrint"
<1>1. Store!NoJob = NoJob
  BY DEF Store!NoJob, NoJob, Store!Plain, Plain
<1>2. Store!Page = Page /\ Store!Contents = Contents
  BY DEF Store!Page, Page, Store!Contents, Contents
<1>3. Store!Job = Job
  BY DEF Store!Job, Job, Store!Plain, Plain, Store!SectorErase, SectorErase, Store!DieErase,
         DieErase, Store!Read, Read, Store!WriteFile, WriteFile, Store!Page, Page,
         Store!PlainNames, PlainNames, Store!Dies, Dies
<1>4. /\ \A j : Store!Erases(j) <=> Erases(j)
      /\ \A j : Store!Modifies(j) <=> Modifies(j)
      /\ \A j : Store!Waits(j) <=> j.name # "SpiFlashGetStatusPrint"
  BY DEF Store!Erases, Erases, Store!Modifies, Modifies, Store!Waits
<1>5. QED
  BY <1>1, <1>2, <1>3, <1>4

(* What they do to the pages is the same for both.                         *)
LEMMA SameEffects ==
  ASSUME NEW j, NEW s
  PROVE  /\ Store!After(j, s) = After(j, s)
         /\ Store!Damage(j, s) = Damage(j, s)
         /\ Store!Outcomes(j, s) = Outcomes(j, s)
<1>1. Store!Page = Page
  BY SameCalls
<1>2. Store!Target(j) = Target(j)
  BY <1>1 DEF Store!Target, Target
<1>3. Store!Overlays(s[j.page], j.data) = Overlays(s[j.page], j.data)
  BY DEF Store!Overlays, Overlays
<1>4. Store!After(j, s) = After(j, s)
  BY <1>1, <1>2, <1>3, SameCalls DEF Store!After, After
<1>5. Store!Damage(j, s) = Damage(j, s)
  BY <1>1, <1>2 DEF Store!Damage, Damage
<1>6. QED
  BY <1>4, <1>5 DEF Store!Outcomes, Outcomes

(* What changes no page leaves the pages.                                  *)
LEMMA NoEffect ==
  ASSUME NEW j, ~Modifies(j), NEW s \in [Page -> Contents],
         NEW m \in After(j, s) \cup Damage(j, s)
  PROVE  m = s
<1>1. Target(j) = {}
  BY DEF Target, Modifies, Erases
<1>2. CASE m \in After(j, s)
  BY <1>2 DEF After, Modifies
<1>3. CASE m \in Damage(j, s)
  BY <1>1, <1>3 DEF Damage
<1>4. QED
  BY <1>2, <1>3

(* An operation that is dropped has done no damage.                        *)
LEMMA NoDamage ==
  ASSUME NEW j, NEW s \in [Page -> Contents]
  PROVE  s \in Damage(j, s)
<1> DEFINE U(S) == [p \in Page |-> IF p \in S THEN Junk ELSE s[p]]
<1>1. Damage(j, s) = {U(S) : S \in SUBSET Target(j)}
  BY DEF Damage
<1>2. U({}) = s
  OBVIOUS
<1> HIDE DEF U
<1>3. U({}) \in {U(S) : S \in SUBSET Target(j)}
  OBVIOUS
<1>4. QED
  BY <1>1, <1>2, <1>3

-----------------------------------------------------------------------------
(* The steps of FlashStore, in terms of what it sees.                      *)

(* A call begins.                                                          *)
LEMMA StepBegin ==
  ASSUME NEW j \in Job, Current = NoJob, Current' = j, sent' # "applied", status' = "none",
         Answer' = Blank, UNCHANGED <<mem, Orphan>>
  PROVE  Store!StoreNext
<1>1. Store!Begin(j)
  BY SameCalls DEF Store!Begin, Current, Answer, Orphan
<1>2. QED
  BY <1>1, SameCalls DEF Store!StoreNext

(* It takes effect.                                                        *)
LEMMA StepApply ==
  ASSUME Current # NoJob, sent # "applied", Orphan = NoJob,
         mem' \in Outcomes(Current, mem), sent' = "applied",
         UNCHANGED <<Current, Orphan, status, Answer>>
  PROVE  Store!StoreNext
<1>1. Store!Apply
  BY SameCalls, SameEffects DEF Store!Apply, Current, Answer, Orphan
<1>2. QED
  BY <1>1 DEF Store!StoreNext

(* It returns success.                                                     *)
LEMMA StepSucceed ==
  ASSUME Current # NoJob, Current.name # "SpiFlashGetStatusPrint" => Orphan = NoJob,
         sent = "applied" \/ ~Modifies(Current) \/ Erases(Current),
         Orphan' = IF Erases(Current) /\ sent # "applied" THEN Current ELSE Orphan,
         Answer' = IF Current.name = "SpiFlashRead" THEN mem[Current.page] ELSE Blank,
         status' = "XST_SUCCESS", Current' = NoJob, sent' # "applied", mem' = mem
  PROVE  Store!StoreNext
<1>1. Store!Succeed
  BY SameCalls DEF Store!Succeed, Current, Answer, Orphan
<1>2. QED
  BY <1>1 DEF Store!StoreNext

(* It fails, or its process ends.                                          *)
LEMMA StepFail ==
  ASSUME Current # NoJob,
         \/ Orphan' = Orphan
         \/ sent # "applied" /\ Modifies(Current) /\ Orphan = NoJob /\ Orphan' = Current,
         status' \in {"XST_FAILURE", "none"}, Current' = NoJob, sent' # "applied",
         Answer' = Blank, mem' = mem
  PROVE  Store!StoreNext
<1>1. Store!Fail(status')
  BY SameCalls DEF Store!Fail, Current, Answer, Orphan
<1>2. QED
  BY <1>1 DEF Store!StoreNext

(* An orphan takes effect, or never does.                                  *)
LEMMA StepOrphanEnds ==
  ASSUME Orphan # NoJob, Orphan' = NoJob, mem' \in After(Orphan, mem) \cup Damage(Orphan, mem),
         UNCHANGED <<Current, status, Answer>>, (sent = "applied")' = (sent = "applied")
  PROVE  Store!StoreNext
<1>1. Store!OrphanEnds
  BY SameCalls, SameEffects DEF Store!OrphanEnds, Current, Answer, Orphan
<1>2. QED
  BY <1>1 DEF Store!StoreNext

(* The process ends between two calls.                                     *)
LEMMA StepRest ==
  ASSUME Current = NoJob, status' = "none", Answer' = Blank,
         UNCHANGED <<mem, Current, Orphan>>, (sent = "applied")' = (sent = "applied")
  PROVE  Store!StoreNext
<1>1. Store!Rest
  BY SameCalls DEF Store!Rest, Current, Answer, Orphan
<1>2. QED
  BY <1>1 DEF Store!StoreNext

(* Nothing that FlashStore sees changes.                                   *)
LEMMA StepNothing ==
  ASSUME UNCHANGED <<mem, Current, Orphan, status, Answer>>,
         (sent = "applied")' = (sent = "applied")
  PROVE  UNCHANGED Store!storeVars
  BY DEF Store!storeVars, Current, Answer, Orphan

-----------------------------------------------------------------------------
(* Where the effect of a call in progress is, and what an orphan can be.   *)

(* While the driver is usable an orphan can only be running.               *)
LEMMA OrphanRuns ==
  ASSUME Inv, Usable
  PROVE  Orphan = IF WIP /\ Modifies(running) /\ sent # "running" THEN running ELSE NoJob
<1>1. held.cmd \notin Modifying
  BY DEF Inv, Bus, NoFrame, Modifying
<1>2. QED
  BY <1>1 DEF Orphan

(* The effect that is running is that of the call in progress.             *)
LEMMA SentRuns ==
  ASSUME Inv, sent = "running"
  PROVE  /\ step > 0 /\ Usable /\ WIP /\ running = job /\ ~cut
         /\ Modifies(job) /\ Orphan = NoJob
<1>1. Types /\ Bus /\ Effect
  BY DEF Inv
<1>2. step > 0 /\ BeenAny(Modifying)
  <2>1. step # 0 /\ step \in Nat
    BY <1>1 DEF Effect, Types
  <2>2. step > 0
    BY <2>1
  <2>3. QED
    BY <1>1, <2>2 DEF Effect
<1>3. step > 1
  BY <1>1, <1>2, NothingBeen DEF Types
<1>4. Usable
  BY <1>1, <1>3 DEF Bus
<1>5. Modifies(job)
  BY <1>1, <1>2, Kinds
<1>6. Orphan = NoJob
  BY <1>4, OrphanRuns
<1>7. QED
  BY <1>1, <1>2, <1>4, <1>5, <1>6 DEF Effect

(* A call that has waited leaves no orphan.                                *)
LEMMA WaitedOut ==
  ASSUME Inv, step > 0, Usable, Been("ready")
  PROVE  Orphan = NoJob
<1>1. Types /\ Owner /\ Effect
  BY DEF Inv
<1>2. ASSUME WIP, Modifies(running) PROVE sent = "running"
  <2>1. running = job /\ BeenAny(MakesBusy)
    BY <1>1, <1>2 DEF Owner
  <2>2. BeenAny(Modifying)
    BY <1>1, <1>2, <2>1, BusyKinds, Kinds
  <2>3. sent # "no" /\ sent # "applied"
    BY <1>1, <1>2, <2>2 DEF Effect
  <2>4. QED
    BY <1>1, <2>3 DEF Types
<1>3. QED
  BY <1>2, OrphanRuns

(* A call whose command is about to be sent for the first time has had no  *)
(* effect.                                                                 *)
LEMMA NotSentYet ==
  ASSUME Inv, step > 0, Command \in Modifying
  PROVE  sent = "no"
<1>1. Types /\ Effect
  BY DEF Inv
<1>2. ~BeenAny(Modifying)
  <2>1. Command \in MakesBusy
    BY DEF MakesBusy
  <2>2. QED
    BY <1>1, <2>1, OneOperation, ModifyingIsBusy
<1>3. QED
  BY <1>1, <1>2 DEF Effect

(* A transfer that is given up, or cut off by the end of its process,      *)
(* leaves the orphan that was there, or makes the call one.                *)
LEMMA LeftOrphan ==
  ASSUME Inv, step > 0, sent' = "no", running' = running,
         \/ held' = held
         \/ /\ Usable /\ Command # "CfgInitialize"
            /\ held' = [cmd |-> Command, job |-> job]
  PROVE  \/ Orphan' = Orphan
         \/ sent # "applied" /\ Modifies(job) /\ Orphan = NoJob /\ Orphan' = job
<1>1. WIP' = WIP
  BY DEF WIP
<1>2. CASE sent = "running"
  <2>1. Orphan' = job
    BY <1>1, <1>2, SentRuns DEF Orphan
  <2>2. QED
    BY <1>2, <2>1, SentRuns
<1>3. CASE sent # "running" /\ WIP /\ Modifies(running)
  BY <1>1, <1>3 DEF Orphan
<1>4. CASE sent # "running" /\ ~(WIP /\ Modifies(running)) /\ held' = held
  BY <1>1, <1>4 DEF Orphan
<1>5. CASE /\ sent # "running" /\ ~(WIP /\ Modifies(running))
           /\ Usable /\ held' = [cmd |-> Command, job |-> job]
  <2>1. Orphan = NoJob
    BY <1>5, OrphanRuns
  <2>2. held'.cmd = Command /\ held'.job = job
    BY <1>5
  <2>3. CASE Command \in Modifying
    <3>1. Orphan' = job
      BY <1>1, <1>5, <2>2, <2>3 DEF Orphan
    <3>2. Modifies(job)
      BY <2>3, Kinds DEF Inv
    <3>3. QED
      BY <2>1, <2>3, <3>1, <3>2, NotSentYet
  <2>4. CASE Command \notin Modifying
    BY <1>1, <1>5, <2>1, <2>2, <2>4 DEF Orphan
  <2>5. QED
    BY <2>3, <2>4
<1>6. QED
  BY <1>2, <1>3, <1>4, <1>5

-----------------------------------------------------------------------------
(* One lemma for each action.                                              *)

(* Call begins a call.                                                     *)
LEMMA CallStep ==
  ASSUME Inv, NEW j \in Job, Call(j)
  PROVE  Store!StoreNext
<1>1. /\ step = 0 /\ job' = j /\ step' = 1 /\ status' = "none" /\ sent' = sent
      /\ mem' = mem /\ running' = running /\ held' = held
  BY DEF Call, flashVars, busVars
<1>2. Current = NoJob /\ Current' = j /\ Answer' = Blank
  BY <1>1 DEF Current, Answer
<1>3. sent' # "applied"
  BY <1>1 DEF Inv, Effect
<1>4. Orphan' = Orphan
  BY <1>1 DEF Orphan, WIP
<1>5. QED
  BY <1>1, <1>2, <1>3, <1>4, StepBegin

(* Finish applies the call in progress or an orphan, or writes a status    *)
(* register.                                                               *)
LEMMA EndsStep ==
  ASSUME Inv, WIP, running' = NoJob,
         sent = "running" => mem' \in Outcomes(running, mem),
         mem' \in After(running, mem) \cup Damage(running, mem),
         sent' = IF sent = "running" THEN "applied" ELSE sent,
         UNCHANGED <<held, job, step, status, readBuffer>>
  PROVE  [Store!StoreNext]_(Store!storeVars)
<1>1. Current' = Current /\ Answer' = Answer /\ ~WIP'
  BY DEF Current, Answer, WIP
<1>2. held.cmd \notin Modifying
  BY DEF Inv, Bus, NoFrame, Modifying, NeedsReady, MakesBusy
<1>3. Orphan' = NoJob
  BY <1>1, <1>2 DEF Orphan
<1>4. CASE sent = "running"
  <2>1. Current = running /\ Current # NoJob /\ Orphan = NoJob
    <3>1. running = job /\ Orphan = NoJob /\ step # 0
      BY <1>4, SentRuns
    <3>2. QED
      BY <3>1 DEF Current, WIP
  <2>2. QED
    BY <1>1, <1>3, <1>4, <2>1, StepApply
<1>5. CASE sent # "running" /\ Modifies(running)
  <2>1. Orphan = running /\ Orphan # NoJob
    BY <1>5 DEF Orphan, WIP
  <2>2. QED
    BY <1>1, <1>3, <1>5, <2>1, StepOrphanEnds
<1>6. CASE sent # "running" /\ ~Modifies(running)
  <2>1. Orphan = NoJob
    BY <1>2, <1>6 DEF Orphan
  <2>2. mem' = mem
    BY <1>6, NoEffect DEF Inv, Types
  <2>3. QED
    BY <1>1, <1>3, <1>6, <2>1, <2>2, StepNothing
<1>7. QED
  BY <1>4, <1>5, <1>6

(* CfgInitialize runs the orphan that was on the bus, or drops it.         *)
LEMMA CfgInitializeStep ==
  ASSUME Inv, CfgInitialize
  PROVE  [Store!StoreNext]_(Store!storeVars)
<1>1. Types /\ Bus /\ Effect
  BY DEF Inv
<1>2. step > 0 /\ Command = "CfgInitialize" /\ held' = NoFrame
  BY DEF CfgInitialize
<1>3. step = 1 /\ Len(Text) \in Nat /\ Len(Text) > 1
  BY <1>1, <1>2, InCall DEF Fit
<1>4. step' = 2 /\ sent' = sent /\ job' = job /\ status' = status
  <2>1. step # Len(Text)
    BY <1>3
  <2>2. Advance(sent)
    BY DEF CfgInitialize
  <2>3. QED
    BY <1>3, <2>1, <2>2 DEF Advance, Text
<1>5. sent = "no" /\ mem' = mem
  <2>1. mem' = mem
    BY DEF CfgInitialize, Execute, flashVars
  <2>2. QED
    BY <1>1, <1>2, <1>3, <2>1, NothingBeen DEF Effect
<1>6. Current' = Current /\ Answer' = Answer
  BY <1>3, <1>4 DEF Current, Answer
<1>7. \/ running' = running
      \/ ~WIP /\ held.cmd \in MakesBusy /\ running' = held.job
  BY DEF CfgInitialize, Execute, flashVars, Accepts, NeedsReady, MakesBusy, Modifying
<1>8. held'.cmd \notin Modifying
  BY <1>2 DEF NoFrame, Modifying
<1>9. CASE held.cmd \in Modifying
  <2>1. /\ ~WIP /\ Orphan = held.job /\ held.job \in Job
        /\ Modifies(held.job) /\ held.job # NoJob
    BY <1>1, <1>9, NoJobIsNone DEF Bus, Orphan, NoFrame, Modifying, MakesBusy, NeedsReady
  <2>2. Orphan' \in {Orphan, NoJob}
    BY <1>4, <1>5, <1>7, <1>8, <2>1 DEF Orphan, WIP
  <2>3. CASE Orphan' = Orphan
    BY <1>4, <1>5, <1>6, <2>3, StepNothing
  <2>4. CASE Orphan' = NoJob
    <3>1. mem' \in Damage(Orphan, mem)
      BY <1>1, <1>5, NoDamage DEF Types
    <3>2. QED
      BY <1>4, <1>5, <1>6, <2>1, <2>4, <3>1, StepOrphanEnds
  <2>5. QED
    BY <2>2, <2>3, <2>4
<1>10. CASE held.cmd \notin Modifying
  <2>1. Orphan' = Orphan
    <3>1. CASE running' = running
      BY <1>4, <1>8, <1>10, <3>1 DEF Orphan, WIP
    <3>2. CASE ~WIP /\ held.cmd \in MakesBusy /\ running' = held.job
      <4>1. held.cmd = "WRSR"
        BY <1>10, <3>2 DEF MakesBusy
      <4>2. ~Modifies(held.job)
        BY <1>1, <4>1 DEF Bus, NoFrame
      <4>3. QED
        BY <1>8, <1>10, <3>2, <4>2 DEF Orphan
    <3>3. QED
      BY <1>7, <3>1, <3>2
  <2>2. QED
    BY <1>4, <1>5, <1>6, <2>1, StepNothing
<1>11. QED
  BY <1>9, <1>10

(* CfgInitializeRefused fails.                                             *)
LEMMA CfgInitializeRefusedStep ==
  ASSUME Inv, CfgInitializeRefused
  PROVE  Store!StoreNext
<1>1. Types /\ Effect
  BY DEF Inv
<1>2. /\ step' = 0 /\ status' = "XST_FAILURE" /\ sent' = "no" /\ job' = job
      /\ UNCHANGED <<mem, running, held>>
  BY DEF CfgInitializeRefused, Return, flashVars, busVars
<1>3. step > 0 /\ step = 1 /\ sent = "no"
  <2>1. step > 0 /\ Command = "CfgInitialize"
    BY DEF CfgInitializeRefused
  <2>2. step = 1
    BY <1>1, <2>1, InCall DEF Fit
  <2>3. QED
    BY <1>1, <2>1, <2>2, NothingBeen DEF Effect
<1>4. Current # NoJob /\ Current' = NoJob /\ Answer' = Blank
  BY <1>1, <1>2, <1>3, InCall DEF Current, Answer
<1>5. Orphan' = Orphan
  BY <1>2, <1>3 DEF Orphan, WIP
<1>6. QED
  BY <1>2, <1>4, <1>5, StepFail

(* WaitForFlashReady and the commands before the last one change nothing   *)
(* that FlashStore sees.                                                   *)
LEMMA GoesOn ==
  ASSUME Inv, step > 0, step' = step + 1, UNCHANGED <<mem, job, status>>,
         (sent = "applied")' = (sent = "applied"), Orphan' = Orphan
  PROVE  UNCHANGED Store!storeVars
<1>1. step \in Nat
  BY DEF Inv, Types
<1>2. step # 0 /\ step' # 0
  BY <1>1
<1>3. Current' = Current /\ Answer' = Answer
  BY <1>2 DEF Current, Answer
<1>4. QED
  BY <1>3, StepNothing

(* WaitForFlashReady.                                                      *)
LEMMA WaitForFlashReadyStep ==
  ASSUME Inv, WaitForFlashReady
  PROVE  UNCHANGED Store!storeVars
<1>1. Types
  BY DEF Inv
<1>2. /\ step > 0 /\ Command = "ready"
      /\ UNCHANGED <<mem, running, held, readBuffer>>
  BY DEF WaitForFlashReady, flashVars, busVars
<1>3. CASE WIP
  <2>1. UNCHANGED <<job, step, status, sent>>
    BY <1>3 DEF WaitForFlashReady
  <2>2. Current' = Current /\ Answer' = Answer /\ Orphan' = Orphan
    BY <1>2, <2>1 DEF Current, Answer, Orphan, WIP
  <2>3. QED
    BY <1>2, <2>1, <2>2, StepNothing
<1>4. CASE ~WIP
  <2>1. step # Len(Text)
    BY <1>1, <1>2, InCall DEF Fit
  <2>2. step' = step + 1 /\ UNCHANGED <<sent, job, status>>
    BY <1>4, <2>1 DEF WaitForFlashReady, Advance, Text
  <2>3. Orphan' = Orphan
    BY <1>2, <2>2 DEF Orphan, WIP
  <2>4. QED
    BY <1>2, <2>2, <2>3, GoesOn
<1>5. QED
  BY <1>3, <1>4

(* What a command that is exchanged does to the orphan.                    *)
LEMMA SendEffect ==
  ASSUME Inv, Send
  PROVE  /\ step > 0 /\ Usable /\ Accepts(Command) /\ Command # "ready"
         /\ UNCHANGED <<mem, held>>
         /\ running' = IF Command \in MakesBusy THEN job ELSE running
         /\ Command \in MakesBusy => ~WIP
         /\ held'.cmd \notin Modifying
<1>1. Types /\ Bus /\ Waited /\ Mode
  BY DEF Inv
<1>2. /\ step > 0 /\ Usable /\ Command # "ready" /\ UNCHANGED <<mem, held>>
  BY DEF Send, Execute, busVars
<1>3. Accepts(Command)
  BY <1>1, <1>2, Accepted
<1>4. /\ running' = IF Command \in MakesBusy THEN job ELSE running
      /\ Command \in MakesBusy => ~WIP
  BY <1>3 DEF Send, Execute, Accepts, NeedsReady
<1>5. held'.cmd \notin Modifying
  BY <1>1, <1>2 DEF Bus, NoFrame, Modifying
<1>6. QED
  BY <1>2, <1>3, <1>4, <1>5

(* A command before the last one.                                          *)
LEMMA SendOnStep ==
  ASSUME Inv, Send, step # Len(Text)
  PROVE  UNCHANGED Store!storeVars
<1>1. /\ step > 0 /\ Usable /\ Accepts(Command) /\ UNCHANGED <<mem, held>>
      /\ running' = IF Command \in MakesBusy THEN job ELSE running
      /\ Command \in MakesBusy => ~WIP
      /\ held'.cmd \notin Modifying
  BY SendEffect
<1>2. /\ step' = step + 1 /\ job' = job /\ status' = status
      /\ sent' = IF Command \in Modifying THEN "running" ELSE sent
  <2>1. Advance(IF Command \in Modifying /\ Accepts(Command) THEN "running" ELSE sent)
    BY DEF Send
  <2>2. QED
    BY <1>1, <2>1 DEF Advance, Text
<1>3. (sent = "applied")' = (sent = "applied")
  <2>1. Command \in Modifying => sent = "no"
    BY <1>1, NotSentYet
  <2>2. QED
    BY <1>2, <2>1
<1>4. Orphan' = Orphan
  <2>1. Orphan = IF WIP /\ Modifies(running) /\ sent # "running" THEN running ELSE NoJob
    BY <1>1, OrphanRuns
  <2>2. CASE Command \in Modifying
    <3>1. Command \in MakesBusy
      BY <2>2 DEF MakesBusy
    <3>2. Orphan = NoJob
      BY <1>1, <2>1, <3>1
    <3>3. Orphan' = NoJob
      BY <1>1, <1>2, <2>2 DEF Orphan
    <3>4. QED
      BY <3>2, <3>3
  <2>3. CASE Command \in MakesBusy /\ Command \notin Modifying
    <3>1. ~Modifies(job)
      BY <1>1, <2>3, Kinds DEF Inv, MakesBusy
    <3>2. QED
      BY <1>1, <2>1, <2>3, <3>1 DEF Orphan
  <2>4. CASE Command \notin MakesBusy
    <3>1. sent' = sent /\ running' = running
      BY <1>1, <1>2, <2>4 DEF MakesBusy
    <3>2. QED
      BY <1>1, <2>1, <3>1 DEF Orphan, WIP
  <2>5. QED
    BY <2>2, <2>3, <2>4
<1>5. QED
  BY <1>1, <1>2, <1>3, <1>4, GoesOn

(* The last command: the call succeeds.                                    *)
LEMMA SendLastStep ==
  ASSUME Inv, Send, step = Len(Text)
  PROVE  Store!StoreNext
<1>1. /\ step > 0 /\ Usable /\ Accepts(Command) /\ UNCHANGED <<mem, held>>
      /\ running' = IF Command \in MakesBusy THEN job ELSE running
      /\ Command \in MakesBusy => ~WIP
      /\ held'.cmd \notin Modifying
  BY SendEffect
<1>2. Types /\ Owner /\ Effect /\ Reading
  BY DEF Inv
<1>3. /\ step' = 0 /\ job' = job /\ status' = "XST_SUCCESS" /\ sent' = "no"
      /\ readBuffer' = IF Command = "READ" THEN mem[job.page] ELSE readBuffer
  <2>1. Advance(IF Command \in Modifying /\ Accepts(Command) THEN "running" ELSE sent)
    BY DEF Send
  <2>2. QED
    BY <2>1 DEF Send, Advance, Return, Text
<1>4. /\ job \in Job /\ job # NoJob /\ Whole(job.name, Text)
      /\ Len(Text) \in Nat /\ Command = Text[Len(Text)]
  BY <1>1, <1>2, InCall
<1>5. Current = job /\ Current' = NoJob
  BY <1>1, <1>3 DEF Current
<1>6. job.name # "SpiFlashGetStatusPrint" => Orphan = NoJob
  <2>1. job.name # "SpiFlashGetStatusPrint" => Been("ready")
    BY <1>4 DEF Whole, Been
  <2>2. QED
    BY <1>1, <2>1, WaitedOut
<1>7. Orphan = IF WIP /\ Modifies(running) /\ sent # "running" THEN running ELSE NoJob
  BY <1>1, OrphanRuns
<1>8. Orphan' = IF WIP' /\ Modifies(running') THEN running' ELSE NoJob
  BY <1>1, <1>3 DEF Orphan
<1>9. sent # "no" <=> BeenAny(Modifying)
  BY <1>1, <1>2 DEF Effect
<1>10. /\ sent = "applied" \/ ~Modifies(job) \/ Erases(job)
       /\ Orphan' = IF Erases(job) /\ sent # "applied" THEN job ELSE Orphan
  <2>1. CASE ~Modifies(job)
    <3>1. Command \notin Modifying /\ sent = "no"
      BY <1>1, <1>2, <1>9, <2>1, Kinds
    <3>2. Orphan' = Orphan
      BY <1>1, <1>7, <1>8, <2>1, <3>1 DEF WIP
    <3>3. QED
      BY <2>1, <3>2 DEF Modifies
  <2>2. CASE sent = "applied"
    <3>1. ~WIP /\ Command \notin MakesBusy
      BY <1>1, <1>2, <1>9, <2>2, OneOperation, ModifyingIsBusy DEF Effect
    <3>2. Orphan' = NoJob /\ Orphan = NoJob
      BY <1>1, <1>7, <1>8, <3>1 DEF WIP
    <3>3. QED
      BY <2>2, <3>2
  <2>3. CASE Modifies(job) /\ sent # "applied"
    <3>1. CASE job.name = "SpiFlashWrite_File"
      <4>1. Command = "EX4B" /\ BeenAny(Modifying)
        BY <1>4, <3>1 DEF Whole, BeenAny
      <4>2. ~WIP
        BY <1>1, <4>1 DEF Accepts, NeedsReady
      <4>3. sent = "running"
        BY <1>2, <1>9, <2>3, <4>1 DEF Types
      <4>4. QED
        BY <4>2, <4>3, SentRuns
    <3>2. CASE job.name # "SpiFlashWrite_File"
      <4>1. Erases(job)
        BY <2>3, <3>2 DEF Modifies
      <4>2. WIP' /\ running' = job
        <5>1. CASE job.name = "qspi_ease_entire_flash"
          <6>1. Command = "BE"
            BY <1>4, <5>1 DEF Whole
          <6>2. QED
            BY <1>1, <1>4, <6>1 DEF WIP, MakesBusy, Modifying
        <5>2. CASE job.name \in {"SpiFlashSectorErase", "SpiFlashDieErase"}
          <6>1. BeenAny(Modifying)
            <7>1. PICK m \in 1..(Len(Text) - 6) : Text[m] \in Modifying
              BY <1>4, <5>2 DEF Whole
            <7>2. m \in 1..(step - 1)
              BY <1>4, <7>1
            <7>3. QED
              BY <7>1, <7>2 DEF BeenAny
          <6>2. sent = "running"
            BY <1>2, <1>9, <2>3, <6>1 DEF Types
          <6>3. QED
            BY <1>1, <1>4, <6>2, SentRuns DEF WIP
        <5>3. QED
          BY <4>1, <5>1, <5>2 DEF Erases
      <4>3. QED
        BY <1>8, <2>3, <4>1, <4>2
    <3>3. QED
      BY <3>1, <3>2
  <2>4. QED
    BY <2>1, <2>2, <2>3
<1>11. Answer' = IF job.name = "SpiFlashRead" THEN mem[job.page] ELSE Blank
  <2>1. CASE job.name = "SpiFlashRead"
    <3>1. Command = "EX4B" /\ Been("READ")
      BY <1>4, <2>1 DEF Whole, Been
    <3>2. readBuffer' = mem[job.page]
      BY <1>1, <1>2, <1>3, <3>1 DEF Reading
    <3>3. QED
      BY <1>3, <2>1, <3>2 DEF Answer
  <2>2. CASE job.name # "SpiFlashRead"
    BY <1>3, <2>2 DEF Answer
  <2>3. QED
    BY <2>1, <2>2
<1>12. QED
  BY <1>1, <1>3, <1>4, <1>5, <1>6, <1>10, <1>11, StepSucceed

(* A failure that GetStatus drops comes after the erase has been sent.     *)
LEMMA Dropped ==
  ASSUME Inv, step > 0, FailureDropped
  PROVE  /\ Erases(job) /\ Modifies(job)
         /\ job.name \notin {"SpiFlashRead", "SpiFlashGetStatusPrint"}
         /\ step > 1 /\ Been("ready") /\ sent # "no" /\ Command \notin Modifying
<1>1. Types /\ Effect
  BY DEF Inv
<1>2. /\ Whole(job.name, Text) /\ Len(Text) \in Nat /\ step \in Nat
  BY <1>1, InCall DEF Types
<1>3. job.name \in {"SpiFlashSectorErase", "SpiFlashDieErase"}
  BY DEF FailureDropped
<1>4. step > Len(Text) - 6
  BY FlagStatusText DEF FailureDropped, Text
<1>5. /\ Len(Text) > 6 /\ Text[1] = "ready"
      /\ \E m \in 1..(Len(Text) - 6) : Text[m] \in Modifying
  BY <1>2, <1>3 DEF Whole
<1>6. step > 1
  BY <1>2, <1>4, <1>5
<1>7. 1 \in 1..(step - 1)
  BY <1>2, <1>6
<1>8. Been("ready")
  BY <1>5, <1>7 DEF Been
<1>9. BeenAny(Modifying)
  <2>1. PICK m \in 1..(Len(Text) - 6) : Text[m] \in Modifying
    BY <1>5
  <2>2. m \in 1..(step - 1)
    BY <1>2, <1>4, <2>1
  <2>3. QED
    BY <2>1, <2>2 DEF BeenAny
<1>10. sent # "no"
  BY <1>1, <1>9 DEF Effect
<1>11. Command \notin Modifying
  BY <1>10, NotSentYet
<1>12. QED
  BY <1>3, <1>6, <1>8, <1>10, <1>11 DEF Erases, Modifies

(* The transfer gives up.                                                  *)
LEMMA GiveUpStep ==
  ASSUME Inv, GiveUp
  PROVE  Store!StoreNext
<1>1. /\ step > 0 /\ Usable /\ Command # "CfgInitialize"
      /\ held' = [cmd |-> Command, job |-> job] /\ mem' = mem /\ running' = running
  BY DEF GiveUp, flashVars
<1>2. /\ step' = 0 /\ sent' = "no" /\ job' = job
      /\ status' = IF FailureDropped THEN "XST_SUCCESS" ELSE "XST_FAILURE"
  BY FailReturns DEF GiveUp, Inv
<1>3. Current = job /\ Current # NoJob /\ Current' = NoJob
  BY <1>1, <1>2, InCall DEF Current, Inv
<1>4. \/ Orphan' = Orphan
      \/ sent # "applied" /\ Modifies(job) /\ Orphan = NoJob /\ Orphan' = job
  BY <1>1, <1>2, LeftOrphan
<1>5. CASE ~FailureDropped
  <2>1. Answer' = Blank
    BY <1>2, <1>5 DEF Answer
  <2>2. QED
    BY <1>1, <1>2, <1>3, <1>4, <1>5, <2>1, StepFail
<1>6. CASE FailureDropped
  <2>1. /\ Erases(job) /\ Modifies(job) /\ Been("ready") /\ sent # "no"
        /\ job.name # "SpiFlashRead" /\ Command \notin Modifying
    BY <1>1, <1>6, Dropped
  <2>2. Orphan = NoJob
    BY <1>1, <2>1, WaitedOut
  <2>3. Answer' = Blank
    BY <1>2, <2>1 DEF Answer
  <2>4. held'.cmd \notin Modifying
    BY <1>1, <2>1
  <2>5. Orphan' = IF sent # "applied" THEN job ELSE Orphan
    <3>1. CASE sent = "applied"
      <4>1. ~WIP'
        BY <1>1, <3>1 DEF Inv, Effect, WIP
      <4>2. QED
        BY <2>2, <2>4, <3>1, <4>1 DEF Orphan
    <3>2. CASE sent # "applied"
      <4>1. sent = "running"
        BY <2>1, <3>2 DEF Inv, Types
      <4>2. WIP' /\ running' = job
        BY <1>1, <4>1, SentRuns DEF WIP
      <4>3. QED
        BY <1>2, <2>1, <3>2, <4>2 DEF Orphan
    <3>3. QED
      BY <3>1, <3>2
  <2>6. QED
    BY <1>1, <1>2, <1>3, <1>6, <2>1, <2>2, <2>3, <2>5, StepSucceed
<1>7. QED
  BY <1>5, <1>6

(* The driver refuses, which can only be at the beginning of a call.       *)
LEMMA RefusedStep ==
  ASSUME Inv, Refused
  PROVE  Store!StoreNext
<1>1. Types /\ Bus
  BY DEF Inv
<1>2. step > 0 /\ ~Usable /\ UNCHANGED <<mem, running, held>>
  BY DEF Refused, flashVars, busVars
<1>3. ~FailureDropped
  BY <1>1, <1>2, Dropped DEF Bus
<1>4. /\ step' = 0 /\ sent' = "no" /\ job' = job /\ status' = "XST_FAILURE"
  BY <1>1, <1>3, FailReturns DEF Refused
<1>5. Current = job /\ Current # NoJob /\ Current' = NoJob /\ Answer' = Blank
  BY <1>1, <1>2, <1>4, InCall DEF Current, Answer
<1>6. \/ Orphan' = Orphan
      \/ sent # "applied" /\ Modifies(job) /\ Orphan = NoJob /\ Orphan' = job
  BY <1>2, <1>4, LeftOrphan
<1>7. QED
  BY <1>2, <1>4, <1>5, <1>6, StepFail

(* The process ends.                                                       *)
LEMMA ProcessEndStep ==
  ASSUME Inv, ProcessEnd
  PROVE  Store!StoreNext
<1>1. Types /\ Effect
  BY DEF Inv
<1>2. /\ step' = 0 /\ status' = "none" /\ sent' = "no" /\ mem' = mem /\ running' = running
  BY DEF ProcessEnd, flashVars
<1>3. \/ held' = held
      \/ /\ step > 0 /\ Usable /\ Command # "CfgInitialize"
         /\ held' = [cmd |-> Command, job |-> job]
  BY DEF ProcessEnd
<1>4. Current' = NoJob /\ Answer' = Blank
  BY <1>2 DEF Current, Answer
<1>5. CASE step = 0
  <2>1. sent = "no" /\ held' = held
    BY <1>1, <1>3, <1>5 DEF Effect
  <2>2. Orphan' = Orphan /\ Current = NoJob
    BY <1>2, <1>5, <2>1 DEF Orphan, WIP, Current
  <2>3. QED
    BY <1>2, <1>4, <2>1, <2>2, StepRest
<1>6. CASE step > 0
  <2>1. Current = job /\ Current # NoJob
    BY <1>1, <1>6, InCall DEF Current
  <2>2. \/ Orphan' = Orphan
        \/ sent # "applied" /\ Modifies(job) /\ Orphan = NoJob /\ Orphan' = job
    BY <1>2, <1>3, <1>6, LeftOrphan
  <2>3. QED
    BY <1>2, <1>4, <2>1, <2>2, StepFail
<1>7. step = 0 \/ step > 0
  BY <1>1 DEF Types
<1>8. QED
  BY <1>5, <1>6, <1>7

-----------------------------------------------------------------------------
(* The layer begins as an idle store.                                      *)
LEMMA StoreBegins == Init => Store!StoreInit
<1> SUFFICES ASSUME Init PROVE Store!StoreInit
  OBVIOUS
<1>1. mem \in [Page -> Contents] /\ step = 0 /\ sent = "no" /\ status = "none"
  BY DEF Init
<1>2. Current = NoJob /\ Answer = Blank
  BY <1>1 DEF Current, Answer
<1>3. Orphan = NoJob
  BY DEF Init, Orphan, WIP, NoFrame, Modifying
<1>4. QED
  BY <1>1, <1>2, <1>3, SameCalls DEF Store!StoreInit, Current, Answer, Orphan

(* Every step of the layer is a step of the store, or changes nothing of   *)
(* it.                                                                     *)
LEMMA StoreSteps ==
  ASSUME Inv, [Next]_vars
  PROVE  [Store!StoreNext]_(Store!storeVars)
<1>1. ASSUME NEW j \in Job, Call(j) PROVE Store!StoreNext
  BY <1>1, CallStep
<1>2. CASE CfgInitialize
  BY <1>2, CfgInitializeStep
<1>3. CASE CfgInitializeRefused
  BY <1>3, CfgInitializeRefusedStep
<1>4. CASE WaitForFlashReady
  BY <1>4, WaitForFlashReadyStep
<1>5. CASE Send
  BY <1>5, SendOnStep, SendLastStep
<1>6. CASE Refused
  BY <1>6, RefusedStep
<1>7. CASE GiveUp
  BY <1>7, GiveUpStep
<1>8. CASE ProcessEnd
  BY <1>8, ProcessEndStep
<1>9. CASE Finish
  <2>1. mem' \in After(running, mem) \cup Damage(running, mem) /\ WIP
    BY <1>9 DEF Finish
  <2>2. sent = "running" => mem' \in Outcomes(running, mem)
    BY <1>9, SentRuns DEF Finish, Outcomes
  <2>3. QED
    BY <1>9, <2>1, <2>2, EndsStep DEF Finish, busVars
<1>10. CASE FinishInError
  <2>1. mem' \in Damage(running, mem) /\ Faulty /\ WIP
    BY <1>10 DEF FinishInError
  <2>2. mem' \in Outcomes(running, mem)
    BY <2>1 DEF Outcomes
  <2>3. QED
    BY <1>10, <2>1, <2>2, EndsStep DEF FinishInError, busVars
<1>11. CASE UNCHANGED vars
  BY <1>11 DEF vars, flashVars, busVars, callVars, Store!storeVars, WIP
<1>12. QED
  BY <1>1, <1>2, <1>3, <1>4, <1>5, <1>6, <1>7, <1>8, <1>9, <1>10, <1>11
  DEF Next, HostStep, DeviceStep

(* The layer keeps what FlashStore promises.                               *)
THEOREM LayerImplementsStore == Spec => ImplementsStore
<1>1. Init => Store!StoreInit
  BY StoreBegins
<1>2. Inv /\ [Next]_vars => [Store!StoreNext]_(Store!storeVars)
  BY StoreSteps
<1>3. QED
  BY <1>1, <1>2, Invariant, PTL DEF Spec, ImplementsStore, Store!StoreSpec
=============================================================================
