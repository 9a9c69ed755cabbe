----------------------------- MODULE FlashPages -----------------------------
(***************************************************************************)
(* The pages of the flash, the calls of the flash layer that change or     *)
(* read them, and what an erase and a program do to a page.  Shared by the *)
(* specification of the layer's promise (FlashStore) and by the layer      *)
(* itself (SpiFlash).                                                      *)
(***************************************************************************)

CONSTANTS
  Sectors, Slots,  (* a page is a slot of a sector                         *)
  Die,             (* sector -> the die it is on                           *)
  Data,            (* what a caller may program into a page                *)
  Blank, Junk,     (* an erased page; a page of which nothing is known     *)
  Faulty           (* the device may fail an erase or a program            *)

Dies == {Die[s] : s \in Sectors}

ASSUME ContentsAssumption ==
  /\ Blank \notin Data /\ Junk \notin Data /\ Blank # Junk
  /\ DOMAIN Die = Sectors
  /\ Faulty \in BOOLEAN

Page     == Sectors \X Slots
Contents == Data \cup {Blank, Junk}

(* A call: the function, and the sector, die, page or data it is about.    *)
PlainNames ==
  {"System_init_startup", "SpiFlashWriteEnable", "SpiFlashQuadEnable",
   "SpiFlashReadID", "SpiFlashReadflagstatus", "SpiFlashClrflagstatus",
   "SpiFlashGetStatusPrint", "qspi_ease_entire_flash"}

Plain(n)       == [name |-> n]
SectorErase(s) == [name |-> "SpiFlashSectorErase", sector |-> s]
DieErase(d)    == [name |-> "SpiFlashDieErase", die |-> d]
WriteFile(p,d) == [name |-> "SpiFlashWrite_File", page |-> p, data |-> d]
Read(p)        == [name |-> "SpiFlashRead", page |-> p]

Job ==
  {Plain(n) : n \in PlainNames} \cup {SectorErase(s) : s \in Sectors}
  \cup {DieErase(d) : d \in Dies} \cup {Read(p) : p \in Page}
  \cup {WriteFile(p, d) : p \in Page, d \in Data}
NoJob == Plain("none")

Erases(j) ==
  j.name \in {"SpiFlashSectorErase", "SpiFlashDieErase", "qspi_ease_entire_flash"}
Modifies(j) == Erases(j) \/ j.name = "SpiFlashWrite_File"

(* The pages that call j changes.                                          *)
Target(j) ==
  CASE j.name = "SpiFlashSectorErase"    -> {p \in Page : p[1] = j.sector}
    [] j.name = "SpiFlashDieErase"       -> {p \in Page : Die[p[1]] = j.die}
    [] j.name = "qspi_ease_entire_flash" -> Page
    [] j.name = "SpiFlashWrite_File"     -> {j.page}
    [] OTHER                             -> {}

(* Programming only clears bits: d and what a page holds, bit by bit,      *)
(* which may be either of them or neither.                                 *)
Overlays(old, d) == IF old \in {Blank, d} THEN {d} ELSE {old, d, Junk}

(* The pages after j on pages s.                                           *)
After(j, s) ==
  IF Erases(j) THEN {[p \in Page |-> IF p \in Target(j) THEN Blank ELSE s[p]]}
  ELSE IF Modifies(j) THEN {[s EXCEPT ![j.page] = x] : x \in Overlays(s[j.page], j.data)}
  ELSE {s}

(* What j may leave when it is interrupted or fails: any part of damage.   *)
Damage(j, s) ==
  {[p \in Page |-> IF p \in S THEN Junk ELSE s[p]] : S \in SUBSET Target(j)}

(* What j may leave when it runs to its end.                               *)
Outcomes(j, s) == After(j, s) \cup (IF Faulty THEN Damage(j, s) ELSE {})
=============================================================================
