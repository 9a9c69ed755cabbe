---------------------------- MODULE FlashWindows ----------------------------
(***************************************************************************)
(* The three loops of flash_qspi_rw.c that look at the bytes of a page     *)
(* read back: Spi_Blank_Check, qspi_read_flash and the comparison of       *)
(* qspi_verify_bin.  SpiFlashRead leaves in ReadBuffer what the bus        *)
(* carried under the command, the address and the dummy cycles, and the    *)
(* page after it; each loop has its own window on that buffer.             *)
(*                                                                         *)
(* The indices are the code's; the page is short, so that every byte of it *)
(* can be the odd one.                                                     *)
(***************************************************************************)
EXTENDS Integers, Sequences

CONSTANTS
  PAGE_SIZE,     (* 256 in the code                                        *)
  DevicePages,   (* 4 * NOB_PAGES in the code                              *)
  Bytes,         (* the bytes told apart; 255 is the erased one            *)
  Memories,      (* what the flash may hold: address -> byte               *)
  Starts,        (* the start addresses asked for                          *)
  Counts         (* the numbers of bytes asked for                         *)

READ_WRITE_EXTRA_BYTES   == 4
DUAL_READ_DUMMY_BYTES    == 2
QUAD_IO_READ_DUMMY_BYTES == 5

Addresses == 0..(DevicePages * PAGE_SIZE - 1)

ASSUME WindowAssumption ==
  /\ PAGE_SIZE \in Nat /\ PAGE_SIZE > 4 /\ PAGE_SIZE % 8 = 0 /\ DevicePages \in Nat \ {0}
  /\ 255 \in Bytes /\ Bytes \subseteq 0..255
  /\ Memories \subseteq [Addresses -> Bytes]
  /\ Starts \subseteq Nat /\ Counts \subseteq Nat

VARIABLES
  memory,      (* the flash                                                *)
  call,        (* the call in progress: function, arguments and, for a     *)
               (* verification, the image                                  *)
  StartAddr, NoOfPage,
  ReadBuffer,
  Index,       (* the byte looked at; 0 when the next page is to be read   *)
  isequal,
  label,       (* the address at the beginning of the line being printed   *)
  CntLine,     (* the bytes on that line                                   *)
  printed,     (* the bytes printed so far, with the addresses a reader    *)
               (* of the output gives them                                 *)
  result       (* "none" until the call returns                            *)

vars == <<memory, call, StartAddr, NoOfPage, ReadBuffer, Index, isequal,
          label, CntLine, printed, result>>

-----------------------------------------------------------------------------
(* The transfer of SpiFlashRead carries ByteCount + dummies + extra bytes. *)
Carried == PAGE_SIZE + QUAD_IO_READ_DUMMY_BYTES + READ_WRITE_EXTRA_BYTES

(* The flash sends from the last PAGE_SIZE bytes of the transfer on, and   *)
(* goes round at the end of the device.  Before them the bus carries       *)
(* anything.                                                               *)
Received(a, idle) ==
  [i \in 0..(Carried - 1) |->
     IF i < Carried - PAGE_SIZE THEN idle
     ELSE memory[(a + i - (Carried - PAGE_SIZE)) % (DevicePages * PAGE_SIZE)]]

(* How many pages hold n bytes.                                            *)
Pages(n) == n \div PAGE_SIZE + (IF n % PAGE_SIZE # 0 THEN 1 ELSE 0)

(* Fault for the mutation runs: verify leaves out the last bytes.          *)
WindowShort(f) ==
  IF f = "Spi_Blank_Check" THEN 4..(PAGE_SIZE - 1)
  ELSE 5..(IF f = "qspi_verify_bin" THEN PAGE_SIZE ELSE PAGE_SIZE + READ_WRITE_EXTRA_BYTES)

(* Fault for the mutation runs: the blank check ends one byte earlier.     *)
WindowLess(f) == IF f = "Spi_Blank_Check" THEN 4..(PAGE_SIZE - 2)
                 ELSE 5..(PAGE_SIZE + READ_WRITE_EXTRA_BYTES)

(* The windows: where each loop begins and ends, and what it looks at.     *)
Window(f) == IF f = "Spi_Blank_Check" THEN 4..(PAGE_SIZE - 1)
             ELSE 5..(PAGE_SIZE + READ_WRITE_EXTRA_BYTES)

Look(i) == ReadBuffer[i + READ_WRITE_EXTRA_BYTES]

(* Fault for the mutation runs: the bytes before the page are checked.     *)
CheckedEarly(i) == ReadBuffer[i + DUAL_READ_DUMMY_BYTES]
Checked(i)      == ReadBuffer[i + READ_WRITE_EXTRA_BYTES + DUAL_READ_DUMMY_BYTES]

First(f) == IF f = "Spi_Blank_Check" THEN 4 ELSE 5

-----------------------------------------------------------------------------
Return(r) == result' = r /\ UNCHANGED <<StartAddr, NoOfPage, Index>>

(* Fault for the mutation runs: the start is rounded down to a page.       *)
ExceedsDown(c) == c.f = "qspi_read_flash" /\ c.addr # 0
                  /\ c.addr \div PAGE_SIZE + Pages(c.bytes) > DevicePages

(* qspi_read_flash compares the pages up to the end with the device, but   *)
(* not when it starts at 0.                                                *)
Exceeds(c) == c.f = "qspi_read_flash" /\ c.addr # 0
              /\ Pages(c.addr) + Pages(c.bytes) > DevicePages

Call(c) ==
  /\ result # "none"
  /\ call' = c /\ StartAddr' = c.addr
  /\ NoOfPage' = IF Exceeds(c) THEN 0 ELSE Pages(c.bytes)
  /\ Index' = 0 /\ isequal' = TRUE
  /\ label' = c.addr /\ CntLine' = 0 /\ printed' = <<>>
  /\ result' = "none"
  /\ UNCHANGED <<memory, ReadBuffer>>

(* SpiFlashWriteEnable, the buffer cleared, SpiFlashRead.                  *)
ReadPage ==
  /\ result = "none" /\ Index = 0 /\ NoOfPage # 0
  /\ \E idle \in Bytes : ReadBuffer' = Received(StartAddr, idle)
  /\ Index' = First(call.f) /\ isequal' = TRUE
  /\ UNCHANGED <<memory, call, StartAddr, NoOfPage, label, CntLine, printed, result>>

ReadFails ==
  /\ result = "none" /\ Index = 0 /\ NoOfPage # 0
  /\ Return("XST_FAILURE")
  /\ UNCHANGED <<memory, call, ReadBuffer, isequal, label, CntLine, printed>>

Looking(f) == result = "none" /\ call.f = f /\ Index \in Window(f)

BlankByte ==
  /\ Looking("Spi_Blank_Check")
  /\ IF Checked(Index) # 255
     THEN /\ printed' = <<<<StartAddr + Index, Checked(Index)>>>>
          /\ Return("XST_FAILURE")
     ELSE Index' = Index + 1 /\ UNCHANGED <<StartAddr, NoOfPage, printed, result>>
  /\ UNCHANGED <<memory, call, ReadBuffer, isequal, label, CntLine>>

(* Fault for the mutation runs: the page's bytes are counted from Index 5. *)
NextLabelLate == StartAddr + (Index - 5)
NextLabel     == StartAddr + (Index - 4)

(* Fault for the mutation runs: nine bytes on a line.                      *)
LineFullLate == CntLine > 7
LineFull     == CntLine > 6

PrintByte ==
  /\ Looking("qspi_read_flash")
  /\ printed' = Append(printed, <<label + CntLine, Look(Index)>>)
  /\ IF LineFull THEN CntLine' = 0 /\ label' = NextLabel
     ELSE CntLine' = CntLine + 1 /\ UNCHANGED label
  /\ Index' = Index + 1
  /\ UNCHANGED <<memory, call, StartAddr, NoOfPage, ReadBuffer, isequal, result>>

CompareByte ==
  /\ Looking("qspi_verify_bin")
  /\ isequal' = (isequal /\ Look(Index) = call.image[StartAddr - call.addr + Index - 5])
  /\ Index' = Index + 1
  /\ UNCHANGED <<memory, call, StartAddr, NoOfPage, ReadBuffer, label, CntLine, printed, result>>

(* The loop over the bytes ends: the comparison fails, or the next page.   *)
PageDone ==
  /\ result = "none" /\ Index # 0 /\ Index \notin Window(call.f)
  /\ IF ~isequal THEN Return("XST_FAILURE")
     ELSE /\ StartAddr' = StartAddr + PAGE_SIZE /\ NoOfPage' = NoOfPage - 1
          /\ Index' = 0 /\ UNCHANGED result
  /\ UNCHANGED <<memory, call, ReadBuffer, isequal, label, CntLine, printed>>

CallDone ==
  /\ result = "none" /\ Index = 0 /\ NoOfPage = 0
  /\ Return("XST_SUCCESS")
  /\ UNCHANGED <<memory, call, ReadBuffer, isequal, label, CntLine, printed>>

-----------------------------------------------------------------------------
Scans == [f : {"Spi_Blank_Check", "qspi_read_flash"}, addr : Starts, bytes : Counts]
Verifications == [f : {"qspi_verify_bin"}, addr : Starts, bytes : Counts, image : Memories]

Init ==
  /\ memory \in Memories
  /\ call = [f |-> "none"] /\ StartAddr = 0 /\ NoOfPage = 0
  /\ ReadBuffer = [i \in 0..(Carried - 1) |-> 0] /\ Index = 0 /\ isequal = TRUE
  /\ label = 0 /\ CntLine = 0 /\ printed = <<>> /\ result = "XST_SUCCESS"

Next ==
  \/ (\E c \in Scans : Call(c))
  \/ (\E c \in Verifications : c.bytes <= DevicePages * PAGE_SIZE /\ Call(c))
  \/ ReadPage \/ ReadFails
  \/ BlankByte \/ PrintByte \/ CompareByte
  \/ PageDone \/ CallDone

Spec == Init /\ [][Next]_vars

-----------------------------------------------------------------------------
(* The type of every variable.                                             *)
TypeOK ==
  /\ memory \in Memories
  /\ call.f \in {"none", "Spi_Blank_Check", "qspi_read_flash", "qspi_verify_bin"}
  /\ StartAddr \in Nat /\ NoOfPage \in Nat
  /\ ReadBuffer \in [0..(Carried - 1) -> Bytes \cup {0}]
  /\ Index \in 0..(PAGE_SIZE + READ_WRITE_EXTRA_BYTES + 1) /\ isequal \in BOOLEAN
  /\ label \in Nat /\ CntLine \in 0..7 /\ result \in {"none", "XST_SUCCESS", "XST_FAILURE"}

Ended(f, r) == call.f = f /\ result = r
At(a) == memory[a % (DevicePages * PAGE_SIZE)]

(* Whatever page, file offset and byte differ: a verification that returns *)
(* success compared every byte of the image with its own place in the      *)
(* flash.                                                                  *)
VerifyComparesAll ==
  Ended("qspi_verify_bin", "XST_SUCCESS")
    => \A i \in 0..(call.bytes - 1) : At(call.addr + i) = call.image[i]

(* A reader of the dump of qspi_read_flash sees every byte from the start  *)
(* address on once, in order, at its own address, across the lines and the *)
(* pages, and at least as many as asked for.                               *)
DumpIsMemory ==
  call.f = "qspi_read_flash" =>
    /\ \A j \in DOMAIN printed : printed[j] = <<call.addr + j - 1, At(call.addr + j - 1)>>
    /\ result = "XST_SUCCESS" /\ ~Exceeds(call) => Len(printed) >= call.bytes

(* A blank check fails over a byte of the page it was asked about, never   *)
(* over what the bus carried before it; the address it prints is three too *)
(* high.                                                                   *)
FailMeansProgrammed ==
  Ended("Spi_Blank_Check", "XST_FAILURE") /\ printed # <<>>
    => LET a == printed[1][1] - 3
       IN /\ a \in StartAddr..(StartAddr + PAGE_SIZE - 1)
          /\ printed[1][2] = At(a) /\ At(a) # 255

(* What a blank check that passed is worth: every byte of every page is    *)
(* blank, but for the first byte of a page and its last three, which it    *)
(* does not look at.                                                       *)
BlankCheckCovers ==
  Ended("Spi_Blank_Check", "XST_SUCCESS")
    => \A i \in 0..(Pages(call.bytes) * PAGE_SIZE - 1) :
         i % PAGE_SIZE \in 1..(PAGE_SIZE - 4) => At(call.addr + i) = 255

(* A read from any address but 0 stays inside the device, whatever length  *)
(* was asked for; one from 0 is not limited.                               *)
ReadStaysInDevice ==
  call.f = "qspi_read_flash" /\ call.addr # 0 /\ printed # <<>>
    => call.addr + Len(printed) <= DevicePages * PAGE_SIZE
=============================================================================
