-------------------------- MODULE FlashWindowsProofs --------------------------
(***************************************************************************)
(* Proofs about FlashWindows.tla: which bytes are compared, checked and    *)
(* printed, for every page size, device, memory, start and length.         *)
(*                                                                         *)
(* The invariant says where the loops over pages and bytes are (Place),    *)
(* what is in ReadBuffer (Buffer), and what each of the three functions    *)
(* has seen so far (Compared, Dumped, BlankSoFar).                         *)
(***************************************************************************)
EXTENDS FlashWindows, DivisionFacts, TLAPS

Functions == {"Spi_Blank_Check", "qspi_read_flash", "qspi_verify_bin"}

(* The flash as addresses go round it.                                     *)
Content == [a \in Nat |-> At(a)]

(* The pages a call goes through, and the bytes of those behind it.        *)
Total  == IF Exceeds(call) THEN 0 ELSE Pages(call.bytes)
Behind == (Total - NoOfPage) * PAGE_SIZE

(* One more than the last index of the window.                             *)
End(f) == IF f = "Spi_Blank_Check" THEN PAGE_SIZE ELSE PAGE_SIZE + 5

(* The bytes of the page before the one looked at.                         *)
Done == IF Index = 0 THEN 0 ELSE Index - First(call.f)

(* Where the loops over the pages and over the bytes of one are.           *)
Place ==
  /\ NoOfPage \in Nat /\ Index \in Nat /\ StartAddr \in Nat
  /\ result \in {"none", "XST_SUCCESS", "XST_FAILURE"}
  /\ call.f \in Functions \cup {"none"}
  /\ call.f = "none" => result # "none" /\ Index = 0
  /\ call.f # "none" =>
       /\ call.addr \in Nat /\ call.bytes \in Nat
       /\ Total \in Nat /\ NoOfPage <= Total /\ Behind \in Nat
       /\ StartAddr = call.addr + Behind
  /\ Index # 0 => NoOfPage # 0 /\ First(call.f) <= Index /\ Index <= End(call.f)
  /\ call.f # "none" /\ result = "XST_SUCCESS" => NoOfPage = 0 /\ Index = 0

(* The comparison has not failed before the page.                          *)
Equal ==
  /\ isequal \in BOOLEAN
  /\ Index = 0 => isequal

(* The types of the rest.                                                  *)
Stored ==
  /\ memory \in Memories /\ ReadBuffer \in [0..(Carried - 1) -> Bytes \cup {0}]
  /\ label \in Nat /\ CntLine \in Nat /\ CntLine <= 7

(* The page read is where the loops look for it.                           *)
Buffer ==
  Index # 0 =>
    \A i \in 9..(PAGE_SIZE + 8) : ReadBuffer[i] = Content[StartAddr + i - 9]

(* The bytes compared so far are the image's, unless isequal says not.     *)
Compared ==
  call.f = "qspi_verify_bin" /\ isequal =>
    \A i \in 0..(Behind + Done - 1) : Content[call.addr + i] = call.image[i]

(* The bytes printed so far are the flash's, and the label of the line     *)
(* being printed keeps step with them.                                     *)
Dumped ==
  call.f = "qspi_read_flash" =>
    /\ printed \in Seq(Nat \X Int)
    /\ Len(printed) = Behind + Done
    /\ label + CntLine = call.addr + Len(printed)
    /\ \A j \in 1..Len(printed) :
         printed[j] = <<call.addr + j - 1, Content[call.addr + j - 1]>>

(* The bytes looked at so far are blank, unless the call has failed over   *)
(* one.                                                                    *)
BlankSoFar ==
  call.f = "Spi_Blank_Check" =>
    /\ \A i \in 0..(Behind - 1) :
         i % PAGE_SIZE \in 1..(PAGE_SIZE - 4) => Content[call.addr + i] = 255
    /\ \A k \in 4..(Index - 1) : Content[StartAddr + k - 3] = 255
    /\ printed # <<>> =>
         /\ result = "XST_FAILURE"
         /\ \E k \in 4..(PAGE_SIZE - 1) :
              /\ printed = <<<<StartAddr + k, Content[StartAddr + k - 3]>>>>
              /\ Content[StartAddr + k - 3] # 255

Inv == Place /\ Equal /\ Stored /\ Buffer /\ Compared /\ Dumped /\ BlankSoFar

-----------------------------------------------------------------------------
(* The constants as the proofs use them.                                   *)
LEMMA Sizes ==
  /\ PAGE_SIZE \in Nat \ {0} /\ PAGE_SIZE >= 8 /\ DevicePages \in Nat \ {0}
  /\ Bytes \subseteq 0..255 /\ 255 \in Bytes
  /\ Starts \subseteq Nat /\ Counts \subseteq Nat
  /\ Carried \in Nat /\ Carried - PAGE_SIZE = 9 /\ Carried = PAGE_SIZE + 9
<1>1. PAGE_SIZE \in Nat /\ PAGE_SIZE > 4 /\ PAGE_SIZE % 8 = 0
  BY WindowAssumption
<1>2. PAGE_SIZE >= 8
  BY <1>1, SMT
<1>3. QED
  BY <1>1, <1>2, WindowAssumption, SMT
  DEF Carried, QUAD_IO_READ_DUMMY_BYTES, READ_WRITE_EXTRA_BYTES

(* Pages(n) pages hold n bytes.                                            *)
LEMMA PagesHold ==
  ASSUME NEW n \in Nat
  PROVE  Pages(n) \in Nat /\ Pages(n) * PAGE_SIZE \in Nat /\ n <= Pages(n) * PAGE_SIZE
<1>1. n \div PAGE_SIZE \in Nat /\ n < ((n \div PAGE_SIZE) + 1) * PAGE_SIZE
  BY Division, Sizes
<1>2. CASE n % PAGE_SIZE = 0
  <2>1. Pages(n) = n \div PAGE_SIZE
    BY <1>2, <1>1, SMT DEF Pages
  <2>2. QED
    BY <2>1, <1>1, <1>2, NoRemainder, Sizes
<1>3. CASE n % PAGE_SIZE # 0
  <2>1. Pages(n) = (n \div PAGE_SIZE) + 1
    BY <1>3, <1>1, SMT DEF Pages
  <2>2. Pages(n) \in Nat
    BY <2>1, <1>1, SMT
  <2>3. Pages(n) * PAGE_SIZE \in Nat
    BY <2>2, Sizes, SMT
  <2>4. n < Pages(n) * PAGE_SIZE
    BY <2>1, <1>1
  <2>5. QED
    BY <2>2, <2>3, <2>4, SMT
<1>4. QED
  BY <1>2, <1>3

(* The flash holds bytes wherever it is read.                              *)
LEMMA AtByte ==
  ASSUME memory \in Memories, NEW a \in Nat
  PROVE  At(a) \in Bytes
<1> DEFINE size == DevicePages * PAGE_SIZE
<1>1. size \in Nat \ {0}
  BY Sizes, SMT
<1>2. memory \in [0..(size - 1) -> Bytes]
  BY WindowAssumption DEF Addresses
<1>3. a % size \in 0..(size - 1)
  <2> HIDE DEF size
  <2>1. QED
    BY <1>1, SMT
<1>4. QED
  BY <1>2, <1>3 DEF At

(* What stays when the flash and the call do.                              *)
LEMMA Frozen ==
  ASSUME memory' = memory, call' = call
  PROVE  Content' = Content /\ Total' = Total /\ (NoOfPage' = NoOfPage => Behind' = Behind)
BY DEF Content, At, Total, Behind, Exceeds

(* SpiFlashRead puts the page where the loops look for it.                 *)
LEMMA PageReceived ==
  ASSUME memory \in Memories, StartAddr \in Nat, NEW idle \in Bytes
  PROVE  /\ Received(StartAddr, idle) \in [0..(Carried - 1) -> Bytes]
         /\ \A i \in 9..(PAGE_SIZE + 8) :
              Received(StartAddr, idle)[i] = Content[StartAddr + i - 9]
<1> DEFINE r == Received(StartAddr, idle)
<1>1. \A i \in 0..(Carried - 1) :
        r[i] = IF i < 9 THEN idle ELSE At(StartAddr + i - 9)
  BY Sizes, SMT DEF Received, At
<1>2. \A i \in 9..(Carried - 1) : StartAddr + i - 9 \in Nat
  BY Sizes, SMT
<1>3. \A i \in 9..(Carried - 1) : At(StartAddr + i - 9) \in Bytes
  BY <1>2, AtByte
<1>4. r = [i \in 0..(Carried - 1) |-> r[i]]
  BY DEF Received
<1>5. \A i \in 0..(Carried - 1) : r[i] \in Bytes
  <2> TAKE i \in 0..(Carried - 1)
  <2>1. CASE i < 9
    BY <2>1, <1>1, Sizes
  <2>2. CASE ~(i < 9)
    <3> HIDE DEF r
    <3>1. i \in 9..(Carried - 1)
      BY <2>2, Sizes, SMT
    <3>2. r[i] = At(StartAddr + i - 9)
      BY <2>2, <1>1
    <3>3. QED
      BY <3>1, <3>2, <1>3
  <2>3. QED
    BY <2>1, <2>2
<1>6. r \in [0..(Carried - 1) -> Bytes]
  <2> HIDE DEF r
  <2>1. QED
    BY <1>4, <1>5
<1>7. \A i \in 9..(PAGE_SIZE + 8) : r[i] = Content[StartAddr + i - 9]
  <2> TAKE i \in 9..(PAGE_SIZE + 8)
  <2>1. i \in 0..(Carried - 1) /\ ~(i < 9) /\ i \in 9..(Carried - 1)
    BY Sizes, SMT
  <2>2. Content[StartAddr + i - 9] = At(StartAddr + i - 9)
    BY <1>2, <2>1 DEF Content
  <2>3. r[i] = At(StartAddr + i - 9)
    <3> HIDE DEF r
    <3>1. QED
      BY <1>1, <2>1
  <2>4. QED
    BY <2>2, <2>3
<1>8. QED
  BY <1>6, <1>7

(* The invariant holds initially.                                          *)
LEMMA InitInv == Init => Inv
<1> SUFFICES ASSUME Init PROVE Inv
  OBVIOUS
<1> USE DEF Init
<1>1. Place
  BY Sizes, SMT DEF Place
<1>2. Equal
  BY DEF Equal
<1>3. Stored
  BY Sizes, SMT DEF Stored
<1>4. Buffer
  BY DEF Buffer
<1>5. Compared /\ Dumped /\ BlankSoFar
  BY DEF Compared, Dumped, BlankSoFar
<1>6. QED
  BY <1>1, <1>2, <1>3, <1>4, <1>5 DEF Inv

-----------------------------------------------------------------------------
(* A call begins with nothing behind it.                                   *)
LEMMA CallStep ==
  ASSUME Inv, NEW c \in Scans \cup Verifications, Call(c)
  PROVE  Inv'
<1> USE DEF Call
<1>1. /\ c.f \in Functions /\ c.addr \in Nat /\ c.bytes \in Nat
  BY Sizes DEF Scans, Verifications, Functions
<1>2. Pages(c.bytes) \in Nat
  BY <1>1, PagesHold
<1>3. Total' = NoOfPage' /\ NoOfPage' \in Nat
  BY <1>2 DEF Total, Exceeds, Pages
<1>4. Behind' = 0
  <2>1. Behind' = (Total' - NoOfPage') * PAGE_SIZE
    BY DEF Behind
  <2>2. Total' - NoOfPage' = 0
    BY <1>3, SMT
  <2>3. QED
    BY <2>1, <2>2, Sizes, SMT
<1>5. Done' = 0
  BY DEF Done
<1>6. Place'
  BY <1>1, <1>3, <1>4, SMT DEF Place, Functions
<1>7. Equal'
  BY DEF Equal
<1>8. Stored'
  BY <1>1 DEF Inv, Stored
<1>9. Buffer'
  BY DEF Buffer
<1>10. Compared'
  BY <1>4, <1>5, SMT DEF Compared
<1>11. Dumped'
  <2>1. /\ printed' \in Seq(Nat \X Int) /\ Len(printed') = 0
    BY SMT
  <2>2. label' + CntLine' = c.addr + Len(printed')
    BY <2>1, <1>1
  <2>3. Len(printed') = Behind' + Done'
    BY <2>1, <1>4, <1>5
  <2>4. \A j \in 1..Len(printed') : FALSE
    BY <2>1
  <2>5. QED
    BY <2>1, <2>2, <2>3, <2>4 DEF Dumped
<1>12. BlankSoFar'
  <2>1. \A i \in 0..(Behind' - 1) : FALSE
    BY <1>4, SMT
  <2>2. \A k \in 4..(Index' - 1) : FALSE
    BY SMT
  <2>3. QED
    BY <2>1, <2>2 DEF BlankSoFar
<1>13. QED
  BY <1>6, <1>7, <1>8, <1>9, <1>10, <1>11, <1>12 DEF Inv

(* A page read is in the buffer, and none of its bytes has been seen.      *)
LEMMA ReadStep ==
  ASSUME Inv, ReadPage
  PROVE  Inv'
<1> USE DEF ReadPage
<1>1. Content' = Content /\ Total' = Total /\ Behind' = Behind
  BY Frozen
<1>2. call.f \in Functions /\ Index = 0 /\ Index' = First(call.f) /\ First(call.f) \in {4, 5}
  BY DEF Inv, Place, First
<1>3. Done = 0 /\ Done' = 0
  BY <1>2, SMT DEF Done, First
<1>4. Place'
  BY <1>1, <1>2, Sizes, SMT DEF Inv, Place, First, End
<1>5. Equal'
  BY DEF Equal
<1>6. PICK idle \in Bytes : ReadBuffer' = Received(StartAddr, idle)
  OBVIOUS
<1>7. Stored' /\ Buffer'
  <2>1. memory \in Memories /\ StartAddr \in Nat
    BY DEF Inv, Stored, Place
  <2>2. /\ ReadBuffer' \in [0..(Carried - 1) -> Bytes]
        /\ \A i \in 9..(PAGE_SIZE + 8) : ReadBuffer'[i] = Content[StartAddr + i - 9]
    BY <1>6, <2>1, PageReceived
  <2>3. ReadBuffer' \in [0..(Carried - 1) -> Bytes \cup {0}]
    BY <2>2
  <2>4. QED
    BY <2>2, <2>3, <1>1 DEF Inv, Stored, Buffer
<1>8. Compared'
  BY <1>1, <1>3 DEF Inv, Equal, Compared
<1>9. Dumped'
  BY <1>1, <1>3 DEF Inv, Dumped
<1>10. BlankSoFar'
  <2>1. CASE call.f = "Spi_Blank_Check"
    <3>1. \A k \in 4..(Index' - 1) : FALSE
      BY <1>2, <2>1, SMT DEF First
    <3>2. QED
      BY <3>1, <2>1, <1>1 DEF Inv, BlankSoFar
  <2>2. QED
    BY <2>1 DEF BlankSoFar
<1>11. QED
  BY <1>4, <1>5, <1>7, <1>8, <1>9, <1>10 DEF Inv

(* A call that ends, well or badly, keeps what it has seen.                *)
LEMMA ReturnStep ==
  ASSUME Inv, result = "none", NEW r \in {"XST_SUCCESS", "XST_FAILURE"}, Return(r),
         r = "XST_SUCCESS" => NoOfPage = 0 /\ Index = 0,
         UNCHANGED <<memory, call, ReadBuffer, isequal, label, CntLine, printed>>
  PROVE  Inv'
<1> USE DEF Return
<1>1. Content' = Content /\ Total' = Total /\ Behind' = Behind
  BY Frozen
<1>2. Done' = Done
  BY DEF Done
<1>3. Place'
  BY <1>1 DEF Inv, Place
<1>4. Equal' /\ Stored'
  BY DEF Inv, Equal, Stored
<1>5. Buffer' /\ Compared' /\ Dumped'
  BY <1>1, <1>2 DEF Inv, Buffer, Compared, Dumped
<1>6. BlankSoFar'
  BY <1>1 DEF Inv, BlankSoFar
<1>7. QED
  BY <1>3, <1>4, <1>5, <1>6 DEF Inv

(* The blank check looks at a byte three before the one it names.          *)
LEMMA BlankStep ==
  ASSUME Inv, BlankByte
  PROVE  Inv'
<1> USE DEF BlankByte, Looking
<1>1. Content' = Content /\ Total' = Total /\ (NoOfPage' = NoOfPage => Behind' = Behind)
  BY Frozen
<1>2. /\ call.f = "Spi_Blank_Check" /\ Index \in 4..(PAGE_SIZE - 1) /\ result = "none"
      /\ PAGE_SIZE \in Nat /\ PAGE_SIZE >= 8 /\ Index # 0
  BY Sizes, SMT DEF Window
<1>3. Checked(Index) = Content[StartAddr + Index - 3]
  <2>1. Index + 6 \in 9..(PAGE_SIZE + 8)
    BY <1>2, SMT
  <2>2. ReadBuffer[Index + 6] = Content[StartAddr + (Index + 6) - 9]
    BY <1>2, <2>1 DEF Inv, Buffer
  <2>3. StartAddr + (Index + 6) - 9 = StartAddr + Index - 3
    BY <1>2, SMT DEF Inv, Place
  <2>4. Index + 4 + 2 = Index + 6
    BY <1>2
  <2>5. QED
    BY <2>2, <2>3, <2>4 DEF Checked, READ_WRITE_EXTRA_BYTES, DUAL_READ_DUMMY_BYTES
<1>4. Compared' /\ Dumped'
  BY <1>2 DEF Compared, Dumped
<1>5. printed = <<>>
  BY <1>2 DEF Inv, BlankSoFar
<1>6. CASE Checked(Index) # 255
  <2> USE DEF Return
  <2>1. printed' = <<<<StartAddr + Index, Content[StartAddr + Index - 3]>>>>
    BY <1>3, <1>6
  <2>2. Place'
    BY <1>1, <1>6, <1>2 DEF Inv, Place
  <2>3. Equal' /\ Stored' /\ Buffer'
    BY <1>1, <1>6 DEF Inv, Equal, Stored, Buffer
  <2>4. BlankSoFar'
    <3>1. /\ Content[StartAddr + Index - 3] # 255
      BY <1>3, <1>6
    <3>2. \E k \in 4..(PAGE_SIZE - 1) :
              /\ printed' = <<<<StartAddr + k, Content[StartAddr + k - 3]>>>>
              /\ Content[StartAddr + k - 3] # 255
      BY <1>2, <2>1, <3>1
    <3>3. QED
      BY <1>1, <1>2, <1>6, <3>2 DEF Inv, BlankSoFar
  <2>5. QED
    BY <1>4, <2>2, <2>3, <2>4 DEF Inv
<1>7. CASE Checked(Index) = 255
  <2>1. Place'
    BY <1>1, <1>7, <1>2, SMT DEF Inv, Place, First, End
  <2>2. Equal' /\ Stored' /\ Buffer'
    BY <1>1, <1>2, <1>7 DEF Inv, Equal, Stored, Buffer
  <2>3. \A k \in 4..(Index' - 1) : Content[StartAddr + k - 3] = 255
    <3> TAKE k \in 4..(Index' - 1)
    <3>1. k = Index \/ k \in 4..(Index - 1)
      BY <1>2, <1>7, SMT
    <3>2. QED
      BY <3>1, <1>2, <1>3, <1>7 DEF Inv, BlankSoFar
  <2>4. BlankSoFar'
    BY <1>1, <1>2, <1>5, <1>7, <2>3 DEF Inv, BlankSoFar
  <2>5. QED
    BY <1>4, <2>1, <2>2, <2>4 DEF Inv
<1>8. QED
  BY <1>6, <1>7

(* What the dump and the verification look at is the page's byte.          *)
LEMMA Looked ==
  ASSUME Inv, call.f \in {"qspi_read_flash", "qspi_verify_bin"}, Index # 0,
         Index \in Window(call.f)
  PROVE  /\ Index \in 5..(PAGE_SIZE + 4) /\ Done = Index - 5 /\ PAGE_SIZE \in Nat
         /\ Look(Index) = Content[call.addr + Behind + Done]
<1>1. Index \in 5..(PAGE_SIZE + 4) /\ Done = Index - 5 /\ PAGE_SIZE \in Nat
  BY Sizes, SMT DEF Window, READ_WRITE_EXTRA_BYTES, Done, First
<1>2. Index + 4 \in 9..(PAGE_SIZE + 8)
  BY <1>1, SMT
<1>3. ReadBuffer[Index + 4] = Content[StartAddr + (Index + 4) - 9]
  BY <1>2 DEF Inv, Buffer
<1>4. StartAddr + (Index + 4) - 9 = call.addr + Behind + Done
  BY <1>1, SMT DEF Inv, Place
<1>5. QED
  BY <1>1, <1>3, <1>4 DEF Look, READ_WRITE_EXTRA_BYTES

(* The loops of the dump and of the verification go on to the next byte.   *)
LEMMA NextByte ==
  ASSUME Inv, call.f \in {"qspi_read_flash", "qspi_verify_bin"}, Index # 0,
         Index \in Window(call.f), Index' = Index + 1, result = "none",
         UNCHANGED <<memory, call, StartAddr, NoOfPage, ReadBuffer, result>>
  PROVE  /\ Content' = Content /\ Behind' = Behind /\ Done' = Done + 1
         /\ Place' /\ Buffer'
<1>1. Content' = Content /\ Total' = Total /\ Behind' = Behind
  BY Frozen
<1>2. Index \in 5..(PAGE_SIZE + 4) /\ Done = Index - 5 /\ PAGE_SIZE \in Nat
  BY Looked
<1>3. Done' = Done + 1
  BY <1>2, SMT DEF Done, First
<1>4. Place'
  BY <1>1, <1>2, SMT DEF Inv, Place, First, End
<1>5. Buffer'
  BY <1>1 DEF Inv, Buffer
<1>6. QED
  BY <1>1, <1>3, <1>4, <1>5

(* The address a reader of the dump gives a byte is the byte's own.        *)
LEMMA PrintStep ==
  ASSUME Inv, PrintByte
  PROVE  Inv'
<1> DEFINE at == call.addr + Behind + Done
<1>1. /\ call.f = "qspi_read_flash" /\ Index # 0 /\ result = "none"
      /\ Index \in Window(call.f) /\ Index' = Index + 1
  BY Sizes, SMT DEF PrintByte, Looking, Window
<1>2. Index \in 5..(PAGE_SIZE + 4) /\ Done = Index - 5 /\ PAGE_SIZE \in Nat
  BY <1>1, Looked
<1>3. Look(Index) = Content[at]
  BY <1>1, Looked
<1>4. /\ printed' = Append(printed, <<label + CntLine, Look(Index)>>)
      /\ IF LineFull THEN CntLine' = 0 /\ label' = NextLabel
                     ELSE CntLine' = CntLine + 1 /\ label' = label
      /\ UNCHANGED <<memory, call, StartAddr, NoOfPage, ReadBuffer, isequal, result>>
  BY DEF PrintByte
<1>5. /\ Content' = Content /\ Behind' = Behind /\ Done' = Done + 1
      /\ Place' /\ Buffer'
  BY <1>1, <1>4, NextByte
<1>6. /\ call.addr \in Nat /\ Behind \in Nat /\ StartAddr = call.addr + Behind
      /\ label \in Nat /\ CntLine \in Nat /\ CntLine <= 7
  BY <1>1 DEF Inv, Place, Stored
<1>7. /\ printed \in Seq(Nat \X Int)
      /\ \A j \in 1..Len(printed) :
           printed[j] = <<call.addr + j - 1, Content[call.addr + j - 1]>>
  BY <1>1 DEF Inv, Dumped
<1>8. Len(printed) = Behind + Done /\ label + CntLine = call.addr + Len(printed)
  BY <1>1 DEF Inv, Dumped
<1>9. at \in Nat /\ at = call.addr + Len(printed) /\ Len(printed) \in Nat /\ Done \in Nat
  BY <1>2, <1>6, <1>8, SMT
<1>10. at = StartAddr + (Index - 5)
  BY <1>2, <1>6, SMT
<1> HIDE DEF at
<1>11. Content[at] \in Int
  <2>1. At(at) \in Bytes
    BY <1>9, AtByte DEF Inv, Stored
  <2>2. Content[at] = At(at)
    BY <1>9 DEF Content
  <2>3. \A b \in Bytes : b \in Int
    BY Sizes, SMT
  <2>4. QED
    BY <2>1, <2>2, <2>3
<1>12. printed' = Append(printed, <<at, Content[at]>>)
  BY <1>4, <1>3, <1>8, <1>9
<1>13. CntLine' \in Nat /\ CntLine' <= 7 /\ label' \in Nat /\ label' + CntLine' = at + 1
  <2>1. CASE LineFull
    <3>1. CntLine = 7 /\ CntLine' = 0 /\ label' = StartAddr + (Index - 4)
      BY <2>1, <1>4, <1>6 DEF LineFull, NextLabel
    <3>2. QED
      BY <3>1, <1>10, <1>2, <1>6, SMT
  <2>2. CASE ~LineFull
    <3>1. CntLine <= 6 /\ CntLine' = CntLine + 1 /\ label' = label
      BY <2>2, <1>4, <1>6 DEF LineFull
    <3>2. QED
      BY <3>1, <1>6, <1>8, <1>9, SMT
  <2>3. QED
    BY <2>1, <2>2
<1>14. Dumped'
  <2>1. <<at, Content[at]>> \in Nat \X Int
    BY <1>9, <1>11
  <2>2. Len(printed') = Len(printed) + 1
    BY <2>1, <1>7, <1>12
  <2>3. printed' \in Seq(Nat \X Int)
    BY <2>1, <1>7, <1>12
  <2>4. label' + CntLine' = call.addr + Len(printed')
    <3>1. call.addr + (Len(printed) + 1) = at + 1
      BY <1>6, <1>9, SMT
    <3>2. QED
      BY <3>1, <1>13, <2>2
  <2>5. Len(printed') = Behind' + Done'
    BY <1>2, <1>5, <1>6, <1>8, <2>2, SMT
  <2>6. ASSUME NEW j \in 1..Len(printed')
        PROVE  printed'[j] = <<call.addr + j - 1, Content[call.addr + j - 1]>>
    <3>1. CASE j \in 1..Len(printed)
      BY <3>1, <1>7, <1>12
    <3>2. CASE j = Len(printed) + 1
      <4>1. call.addr + j - 1 = at
        BY <3>2, <1>6, <1>9, SMT
      <4>2. printed'[j] = <<at, Content[at]>>
        BY <3>2, <1>7, <1>12, <2>1
      <4>3. QED
        BY <4>1, <4>2
    <3>3. QED
      BY <3>1, <3>2, <2>2, <1>9, SMT
  <2>7. QED
    BY <2>3, <2>4, <2>5, <2>6, <1>4, <1>5 DEF Dumped
<1>15. Equal'
  BY <1>1, <1>4, <1>2 DEF Inv, Equal
<1>16. Stored'
  BY <1>4, <1>13 DEF Inv, Stored
<1>17. Compared' /\ BlankSoFar'
  BY <1>1, <1>4 DEF Compared, BlankSoFar
<1>18. QED
  BY <1>5, <1>14, <1>15, <1>16, <1>17 DEF Inv

(* A byte is compared with the image's byte of the same place.             *)
LEMMA CompareStep ==
  ASSUME Inv, CompareByte
  PROVE  Inv'
<1> USE DEF CompareByte, Looking
<1>1. /\ call.f = "qspi_verify_bin" /\ Index # 0 /\ result = "none"
      /\ Index \in Window(call.f) /\ Index' = Index + 1
  BY Sizes, SMT DEF Window
<1>2. /\ Index \in 5..(PAGE_SIZE + 4) /\ Done = Index - 5 /\ PAGE_SIZE \in Nat
      /\ Look(Index) = Content[call.addr + Behind + Done]
  BY <1>1, Looked
<1>3. /\ Content' = Content /\ Behind' = Behind /\ Done' = Done + 1
      /\ Place' /\ Buffer'
  BY <1>1, NextByte
<1>4. call.addr \in Nat /\ Behind \in Nat /\ StartAddr = call.addr + Behind
  BY <1>1 DEF Inv, Place
<1>5. StartAddr - call.addr + Index - 5 = Behind + Done
  BY <1>2, <1>4, SMT
<1>6. isequal' = (isequal /\ Content[call.addr + Behind + Done] = call.image[Behind + Done])
  BY <1>2, <1>5
<1>7. Equal'
  <2> DEFINE same == isequal /\ Content[call.addr + Behind + Done] = call.image[Behind + Done]
  <2>1. same \in BOOLEAN /\ isequal' = same
    BY <1>6
  <2>2. Index' # 0
    BY <1>1, <1>2, SMT
  <2> HIDE DEF same
  <2>3. QED
    BY <2>1, <2>2 DEF Equal
<1>8. Compared'
  <2>1. CASE isequal'
    <3>1. isequal /\ Content[call.addr + Behind + Done] = call.image[Behind + Done]
      BY <2>1, <1>6
    <3>2. ASSUME NEW i \in 0..(Behind' + Done' - 1)
          PROVE  Content[call.addr + i] = call.image[i]
      <4>1. i \in 0..(Behind + Done - 1) \/ i = Behind + Done
        BY <1>2, <1>3, <1>4, SMT
      <4>2. call.addr + (Behind + Done) = call.addr + Behind + Done
        BY <1>2, <1>4, SMT
      <4>3. CASE i \in 0..(Behind + Done - 1)
        BY <4>3, <1>1, <3>1 DEF Inv, Compared
      <4>4. CASE i = Behind + Done
        BY <4>4, <4>2, <3>1
      <4>5. QED
        BY <4>1, <4>3, <4>4
    <3>3. QED
      BY <3>2, <1>3 DEF Compared
  <2>2. QED
    BY <2>1 DEF Compared
<1>9. Stored'
  BY DEF Inv, Stored
<1>10. Dumped' /\ BlankSoFar'
  BY <1>1 DEF Dumped, BlankSoFar
<1>11. QED
  BY <1>3, <1>7, <1>8, <1>9, <1>10 DEF Inv

(* One page more lies behind.                                              *)
LEMMA PageBehind ==
  ASSUME Inv, result = "none", Index # 0, NoOfPage' = NoOfPage - 1,
         UNCHANGED <<memory, call>>
  PROVE  /\ Content' = Content /\ Total' = Total
         /\ Behind \in Nat /\ Behind' = Behind + PAGE_SIZE
         /\ \A i \in Behind..(Behind + PAGE_SIZE - 1) : i % PAGE_SIZE = i - Behind
<1>1. Content' = Content /\ Total' = Total
  BY Frozen
<1>2. Total \in Nat /\ NoOfPage \in Nat /\ NoOfPage <= Total /\ NoOfPage # 0 /\ Behind \in Nat
  BY DEF Inv, Place
<1> DEFINE past == Total - NoOfPage
<1>3. past \in Nat
  BY <1>2, SMT
<1>4. Behind = past * PAGE_SIZE /\ Behind' = (Total' - NoOfPage') * PAGE_SIZE
  BY DEF Behind
<1>5. Total' - NoOfPage' = past + 1
  BY <1>1, <1>2, SMT
<1>6. Behind' = (past + 1) * PAGE_SIZE
  BY <1>4, <1>5
<1> HIDE DEF past
<1>7. Behind' = Behind + PAGE_SIZE
  BY <1>3, <1>4, <1>6, Sizes, NextMultiple
<1>8. ASSUME NEW i \in Behind..(Behind + PAGE_SIZE - 1)
      PROVE  i % PAGE_SIZE = i - Behind
  <2> DEFINE r == i - Behind
  <2>1. r \in 0..(PAGE_SIZE - 1) /\ Behind + r = i
    BY <1>2, Sizes, SMT
  <2> HIDE DEF r
  <2>2. (past * PAGE_SIZE + r) % PAGE_SIZE = r
    <3>1. r \in 0..(PAGE_SIZE - 1) /\ PAGE_SIZE \in Nat \ {0}
      BY <2>1, Sizes
    <3>2. QED
      BY <1>3, <3>1, Remainder, Zenon
  <2>3. i % PAGE_SIZE = r
    BY <1>4, <2>1, <2>2
  <2>4. QED
    BY <2>3 DEF r
<1>9. QED
  BY <1>1, <1>2, <1>7, <1>8

(* At the end of a page every byte of the window has been looked at.       *)
LEMMA PageStep ==
  ASSUME Inv, PageDone
  PROVE  Inv'
<1>1. /\ result = "none" /\ Index # 0 /\ Index \notin Window(call.f)
      /\ UNCHANGED <<memory, call, ReadBuffer, isequal, label, CntLine, printed>>
  BY DEF PageDone
<1>2. CASE ~isequal
  <2>1. Return("XST_FAILURE")
    BY <1>2 DEF PageDone
  <2>2. QED
    BY <1>1, <2>1, ReturnStep
<1>3. CASE isequal
  <2>1. /\ StartAddr' = StartAddr + PAGE_SIZE /\ NoOfPage' = NoOfPage - 1
        /\ Index' = 0 /\ result' = result
    BY <1>3 DEF PageDone
  <2>2. call' = call /\ isequal' = isequal /\ label' = label /\ CntLine' = CntLine
        /\ printed' = printed
    BY <1>1
  <2>3. /\ call.f \in Functions /\ call.addr \in Nat /\ StartAddr = call.addr + Behind
        /\ NoOfPage \in Nat /\ NoOfPage # 0 /\ Index \in Nat
        /\ First(call.f) <= Index /\ Index <= End(call.f)
        /\ Total \in Nat /\ NoOfPage <= Total
    BY <1>1 DEF Inv, Place
  <2>4. Index = End(call.f)
    BY <1>1, <2>3, Sizes, SMT DEF Window, First, End, Functions, READ_WRITE_EXTRA_BYTES
  <2>5. /\ Content' = Content /\ Total' = Total
        /\ Behind \in Nat /\ Behind' = Behind + PAGE_SIZE
    BY <1>1, <2>1, PageBehind
  <2>6. \A i \in Behind..(Behind + PAGE_SIZE - 1) : i % PAGE_SIZE = i - Behind
    BY <1>1, <2>1, PageBehind
  <2>7. Done' = 0
    BY <2>1 DEF Done
  <2>8. ASSUME call.f # "Spi_Blank_Check"
        PROVE  Behind' + Done' = Behind + Done
    <3>1. Done = PAGE_SIZE
      BY <1>1, <2>4, <2>8, Sizes, SMT DEF Done, First, End
    <3>2. QED
      BY <3>1, <2>5, <2>7, Sizes, SMT
  <2>9. Place'
    <3>1. Behind' \in Nat /\ StartAddr' = call.addr + Behind' /\ StartAddr' \in Nat
      BY <2>1, <2>3, <2>5, Sizes, SMT
    <3>2. NoOfPage' \in Nat /\ NoOfPage' <= Total'
      BY <2>1, <2>3, <2>5, SMT
    <3>3. QED
      BY <1>1, <2>1, <2>3, <2>5, <3>1, <3>2 DEF Inv, Place, Functions
  <2>10. Equal' /\ Stored' /\ Buffer'
    BY <1>1, <1>3, <2>1 DEF Inv, Equal, Stored, Buffer
  <2>11. Compared' /\ Dumped'
    <3>1. CASE call.f = "qspi_verify_bin"
      <4>1. \A i \in 0..(Behind + Done - 1) : Content[call.addr + i] = call.image[i]
        BY <1>3, <3>1 DEF Inv, Compared
      <4>2. Done = PAGE_SIZE
        BY <1>1, <2>4, <3>1, Sizes, SMT DEF Done, First, End
      <4>3. Behind' + Done' - 1 = Behind + Done - 1
        BY <4>2, <2>5, <2>7, Sizes, SMT
      <4>4. \A i \in 0..(Behind' + Done' - 1) : Content[call.addr + i] = call.image[i]
        BY <4>1, <4>3
      <4>5. Compared'
        BY <4>4, <2>2, <2>5 DEF Compared
      <4>6. QED
        BY <4>5, <3>1, <2>2 DEF Dumped
    <3>2. CASE call.f = "qspi_read_flash"
      <4>1. Len(printed) = Behind' + Done'
        BY <2>8, <3>2 DEF Inv, Dumped
      <4>2. /\ printed \in Seq(Nat \X Int)
            /\ label + CntLine = call.addr + Len(printed)
            /\ \A j \in 1..Len(printed) :
                 printed[j] = <<call.addr + j - 1, Content[call.addr + j - 1]>>
        BY <3>2 DEF Inv, Dumped
      <4>3. Dumped'
        BY <4>1, <4>2, <2>2, <2>5 DEF Dumped
      <4>4. QED
        BY <4>3, <3>2, <2>2 DEF Compared
    <3>3. CASE call.f \notin {"qspi_verify_bin", "qspi_read_flash"}
      BY <2>2, <3>3 DEF Compared, Dumped
    <3>4. QED
      BY <3>1, <3>2, <3>3
  <2>12. BlankSoFar'
    <3>1. CASE call.f = "Spi_Blank_Check"
      <4>1. \A k \in 4..(PAGE_SIZE - 1) : Content[StartAddr + k - 3] = 255
        BY <2>4, <3>1 DEF Inv, BlankSoFar, End
      <4>2. ASSUME NEW i \in 0..(Behind' - 1), i % PAGE_SIZE \in 1..(PAGE_SIZE - 4)
            PROVE  Content[call.addr + i] = 255
        <5>1. CASE i \in 0..(Behind - 1)
          BY <4>2, <5>1, <3>1 DEF Inv, BlankSoFar
        <5>2. CASE i \in Behind..(Behind + PAGE_SIZE - 1)
          <6>1. i - Behind \in 1..(PAGE_SIZE - 4)
            BY <4>2, <5>2, <2>6
          <6>2. i - Behind + 3 \in 4..(PAGE_SIZE - 1)
            BY <6>1, <5>2, <2>5, Sizes, SMT
          <6>3. StartAddr + (i - Behind + 3) - 3 = call.addr + i
            BY <2>3, <2>5, <5>2, SMT
          <6>4. QED
            BY <4>1, <6>2, <6>3
        <5>3. QED
          BY <5>1, <5>2, <2>5, Sizes, SMT
      <4>3. \A k \in 4..(Index' - 1) : FALSE
        BY <2>1, SMT
      <4>4. printed' = <<>>
        BY <1>1, <3>1 DEF Inv, BlankSoFar
      <4>5. QED
        BY <1>1, <2>5, <4>2, <4>3, <4>4 DEF BlankSoFar
    <3>2. CASE call.f # "Spi_Blank_Check"
      BY <1>1, <3>2 DEF BlankSoFar
    <3>3. QED
      BY <3>1, <3>2
  <2>13. QED
    BY <2>9, <2>10, <2>11, <2>12 DEF Inv
<1>4. QED
  BY <1>2, <1>3

(* The invariant holds at every step.                                      *)
LEMMA NextInv == Inv /\ [Next]_vars => Inv'
<1> SUFFICES ASSUME Inv, [Next]_vars PROVE Inv'
  OBVIOUS
<1>1. ASSUME NEW c \in Scans, Call(c) PROVE Inv'
  BY <1>1, CallStep
<1>2. ASSUME NEW c \in Verifications, Call(c) PROVE Inv'
  BY <1>2, CallStep
<1>3. CASE ReadPage
  BY <1>3, ReadStep
<1>4. CASE ReadFails
  BY <1>4, ReturnStep DEF ReadFails
<1>5. CASE BlankByte
  BY <1>5, BlankStep
<1>6. CASE PrintByte
  BY <1>6, PrintStep
<1>7. CASE CompareByte
  BY <1>7, CompareStep
<1>8. CASE PageDone
  BY <1>8, PageStep
<1>9. CASE CallDone
  BY <1>9, ReturnStep DEF CallDone
<1>10. CASE UNCHANGED vars
  <2>1. UNCHANGED <<memory, call, StartAddr, NoOfPage, ReadBuffer, Index, isequal, label,
                    CntLine, printed, result>>
    BY <1>10 DEF vars
  <2>2. Content' = Content /\ Total' = Total /\ Behind' = Behind
    BY <2>1, Frozen
  <2>3. Done' = Done
    BY <2>1 DEF Done
  <2>4. Place' /\ Equal' /\ Stored' /\ Buffer'
    BY <2>1, <2>2 DEF Inv, Place, Equal, Stored, Buffer
  <2>5. Compared' /\ Dumped' /\ BlankSoFar'
    BY <2>1, <2>2, <2>3 DEF Inv, Compared, Dumped, BlankSoFar
  <2>6. QED
    BY <2>4, <2>5 DEF Inv
<1>11. QED
  BY <1>1, <1>2, <1>3, <1>4, <1>5, <1>6, <1>7, <1>8, <1>9, <1>10 DEF Next

-----------------------------------------------------------------------------
(* The invariant holds in every reachable state.                           *)
THEOREM Invariant == Spec => []Inv
BY InitInv, NextInv, PTL DEF Spec

(* Every variable of the three functions keeps its type, whatever the page *)
(* size, the start and the length: the line counter stays within a line    *)
(* and the buffer index within the buffer.                                 *)
THEOREM TypeCorrect == Spec => []TypeOK
<1>1. Inv => TypeOK
  <2> SUFFICES ASSUME Inv PROVE TypeOK
    OBVIOUS
  <2>1. Index \in 0..(PAGE_SIZE + READ_WRITE_EXTRA_BYTES + 1)
    BY Sizes, SMT DEF Inv, Place, Functions, First, End, READ_WRITE_EXTRA_BYTES
  <2>2. CntLine \in 0..7
    BY SMT DEF Inv, Stored
  <2>3. QED
    BY <2>1, <2>2 DEF Inv, Place, Equal, Stored, Functions, TypeOK
<1>2. QED
  BY Invariant, <1>1, PTL

(* A verification that returns success compared every byte of the image    *)
(* with its own place in the flash (qspi_verify_bin).                      *)
THEOREM VerifyCompares == Spec => []VerifyComparesAll
<1>1. Inv => VerifyComparesAll
  <2> SUFFICES ASSUME Inv, call.f = "qspi_verify_bin", result = "XST_SUCCESS",
                      NEW i \in 0..(call.bytes - 1)
               PROVE  At(call.addr + i) = call.image[i]
    BY DEF VerifyComparesAll, Ended
  <2>1. call.addr \in Nat /\ call.bytes \in Nat /\ NoOfPage = 0 /\ Index = 0
    BY DEF Inv, Place
  <2>2. Pages(call.bytes) * PAGE_SIZE \in Nat /\ call.bytes <= Pages(call.bytes) * PAGE_SIZE
        /\ Pages(call.bytes) \in Nat
    BY <2>1, PagesHold
  <2>3. Total = Pages(call.bytes)
    BY DEF Total, Exceeds
  <2>4. Behind = Pages(call.bytes) * PAGE_SIZE /\ Done = 0
    BY <2>1, <2>2, <2>3 DEF Behind, Done
  <2>5. i \in 0..(Behind + Done - 1)
    BY <2>1, <2>2, <2>4, SMT
  <2>6. Content[call.addr + i] = call.image[i]
    BY <2>1, <2>5 DEF Inv, Equal, Compared
  <2>7. call.addr + i \in Nat
    BY <2>1, SMT
  <2>8. QED
    BY <2>6, <2>7 DEF Content
<1>2. QED
  BY Invariant, <1>1, PTL

(* The dump shows every byte once, in order and at its own address, and at *)
(* least as many as asked for (qspi_read_flash).                           *)
THEOREM DumpShowsMemory == Spec => []DumpIsMemory
<1>1. Inv => DumpIsMemory
  <2> SUFFICES ASSUME Inv, call.f = "qspi_read_flash" PROVE DumpIsMemory
    BY DEF DumpIsMemory
  <2>1. call.addr \in Nat /\ call.bytes \in Nat
    BY DEF Inv, Place
  <2>2. printed \in Seq(Nat \X Int) /\ Len(printed) = Behind + Done
    BY DEF Inv, Dumped
  <2>3. ASSUME NEW j \in DOMAIN printed
        PROVE  printed[j] = <<call.addr + j - 1, At(call.addr + j - 1)>>
    <3>1. j \in 1..Len(printed)
      BY <2>2
    <3>2. call.addr + j - 1 \in Nat
      BY <2>1, <3>1, SMT
    <3>3. Content[call.addr + j - 1] = At(call.addr + j - 1)
      BY <3>2 DEF Content
    <3>4. QED
      BY <3>1, <3>3 DEF Inv, Dumped
  <2>4. ASSUME result = "XST_SUCCESS", ~Exceeds(call)
        PROVE  Len(printed) >= call.bytes
    <3>1. NoOfPage = 0 /\ Index = 0
      BY <2>4 DEF Inv, Place
    <3>2. Pages(call.bytes) * PAGE_SIZE \in Nat /\ call.bytes <= Pages(call.bytes) * PAGE_SIZE
          /\ Pages(call.bytes) \in Nat
      BY <2>1, PagesHold
    <3>3. Behind = Pages(call.bytes) * PAGE_SIZE /\ Done = 0
      BY <2>4, <3>1, <3>2 DEF Behind, Total, Done
    <3>4. QED
      BY <2>1, <2>2, <3>2, <3>3, SMT
  <2>5. QED
    BY <2>3, <2>4 DEF DumpIsMemory
<1>2. QED
  BY Invariant, <1>1, PTL

(* A blank check that fails over a byte names, three too high, a byte of   *)
(* the page that is not blank (Spi_Blank_Check).                           *)
THEOREM FailShowsProgrammed == Spec => []FailMeansProgrammed
<1>1. Inv => FailMeansProgrammed
  <2> SUFFICES ASSUME Inv, call.f = "Spi_Blank_Check", printed # <<>>
               PROVE  /\ printed[1][1] - 3 \in StartAddr..(StartAddr + PAGE_SIZE - 1)
                      /\ printed[1][2] = At(printed[1][1] - 3) /\ At(printed[1][1] - 3) # 255
    BY DEF FailMeansProgrammed, Ended
  <2>1. PICK k \in 4..(PAGE_SIZE - 1) :
          /\ printed = <<<<StartAddr + k, Content[StartAddr + k - 3]>>>>
          /\ Content[StartAddr + k - 3] # 255
    BY DEF Inv, BlankSoFar
  <2>2. printed[1][1] = StartAddr + k
    BY <2>1
  <2>3. printed[1][2] = Content[StartAddr + k - 3]
    BY <2>1
  <2>4. /\ StartAddr + k - 3 \in StartAddr..(StartAddr + PAGE_SIZE - 1)
        /\ StartAddr + k - 3 \in Nat
    BY Sizes, SMT DEF Inv, Place
  <2>5. Content[StartAddr + k - 3] = At(StartAddr + k - 3)
    BY <2>4 DEF Content
  <2>6. printed[1][1] - 3 = StartAddr + k - 3
    <3>1. StartAddr \in Nat /\ k \in Nat
      BY Sizes DEF Inv, Place
    <3>2. (StartAddr + k) - 3 = StartAddr + k - 3
      BY <3>1, SMT
    <3>3. QED
      BY <2>2, <3>2
  <2>7. QED
    BY <2>1, <2>3, <2>4, <2>5, <2>6
<1>2. QED
  BY Invariant, <1>1, PTL

(* After a blank check that passed every byte of every page is blank, but  *)
(* for a page's first byte and its last three (Spi_Blank_Check).           *)
THEOREM BlankCovers == Spec => []BlankCheckCovers
<1>1. Inv => BlankCheckCovers
  <2> SUFFICES ASSUME Inv, call.f = "Spi_Blank_Check", result = "XST_SUCCESS",
                      NEW i \in 0..(Pages(call.bytes) * PAGE_SIZE - 1),
                      i % PAGE_SIZE \in 1..(PAGE_SIZE - 4)
               PROVE  At(call.addr + i) = 255
    BY DEF BlankCheckCovers, Ended
  <2>1. call.addr \in Nat /\ call.bytes \in Nat /\ NoOfPage = 0
    BY DEF Inv, Place
  <2>2. Pages(call.bytes) \in Nat /\ Pages(call.bytes) * PAGE_SIZE \in Nat
    BY <2>1, PagesHold
  <2>3. Behind = Pages(call.bytes) * PAGE_SIZE
    BY <2>1, <2>2 DEF Behind, Total, Exceeds
  <2>4. Content[call.addr + i] = 255
    BY <2>3 DEF Inv, BlankSoFar
  <2>5. call.addr + i \in Nat
    BY <2>1, <2>2, SMT
  <2>6. QED
    BY <2>4, <2>5 DEF Content
<1>2. QED
  BY Invariant, <1>1, PTL

(* A read from any address but 0 stays inside the device: both numbers of  *)
(* pages are rounded up before they are compared (qspi_read_flash).        *)
THEOREM ReadStays == Spec => []ReadStaysInDevice
<1>1. Inv => ReadStaysInDevice
  <2> SUFFICES ASSUME Inv, call.f = "qspi_read_flash", call.addr # 0, printed # <<>>
               PROVE  call.addr + Len(printed) <= DevicePages * PAGE_SIZE
    BY DEF ReadStaysInDevice
  <2>1. /\ call.addr \in Nat /\ call.bytes \in Nat /\ Total \in Nat /\ NoOfPage \in Nat
        /\ NoOfPage <= Total /\ Behind \in Nat /\ Index \in Nat
        /\ Index # 0 => NoOfPage # 0 /\ 5 <= Index /\ Index <= PAGE_SIZE + 5
    BY DEF Inv, Place, First, End
  <2>2. printed \in Seq(Nat \X Int) /\ Len(printed) = Behind + Done /\ Len(printed) # 0
    BY DEF Inv, Dumped
  <2>3. Pages(call.addr) \in Nat /\ Pages(call.bytes) \in Nat
        /\ Pages(call.addr) * PAGE_SIZE \in Nat /\ call.addr <= Pages(call.addr) * PAGE_SIZE
    BY <2>1, PagesHold
  <2> DEFINE past == Total - NoOfPage
  <2>4. past \in Nat /\ past <= Total /\ Behind = past * PAGE_SIZE
    BY <2>1, SMT DEF Behind
  <2>5. Len(printed) <= Total * PAGE_SIZE
    <3>1. past * PAGE_SIZE <= Total * PAGE_SIZE
      BY <2>1, <2>4, Sizes, TimesMonotonic
    <3>2. CASE Index = 0
      BY <2>2, <2>4, <3>1, <3>2 DEF Done
    <3>3. CASE Index # 0
      <4>1. past + 1 <= Total /\ Done <= PAGE_SIZE /\ Done \in Nat
        BY <2>1, <3>3, Sizes, SMT DEF Done, First
      <4>2. (past + 1) * PAGE_SIZE <= Total * PAGE_SIZE
        BY <2>1, <2>4, <4>1, Sizes, TimesMonotonic
      <4>3. (past + 1) * PAGE_SIZE = Behind + PAGE_SIZE
        BY <2>4, Sizes, NextMultiple
      <4>4. Behind + Done <= Behind + PAGE_SIZE
        BY <2>1, <4>1, Sizes, SMT
      <4>5. Behind + PAGE_SIZE <= Total * PAGE_SIZE
        BY <4>2, <4>3
      <4>6. Total * PAGE_SIZE \in Nat /\ Behind + Done \in Nat /\ Behind + PAGE_SIZE \in Nat
        BY <2>1, <4>1, Sizes, SMT
      <4> DEFINE all == Total * PAGE_SIZE
                 seen == Behind + Done
                 pages == Behind + PAGE_SIZE
      <4>7. Len(printed) = seen /\ seen <= pages /\ pages <= all
            /\ seen \in Nat /\ pages \in Nat /\ all \in Nat
        BY <2>2, <4>4, <4>5, <4>6
      <4> HIDE DEF all, seen, pages
      <4>8. Len(printed) <= all
        BY <4>7, SMT
      <4>9. QED
        BY <4>8 DEF all
    <3>4. QED
      BY <3>2, <3>3
  <2>6. Total # 0
    <3>1. SUFFICES ASSUME Total = 0 PROVE FALSE
      OBVIOUS
    <3>2. NoOfPage = 0 /\ Index = 0
      BY <2>1, <3>1, SMT
    <3>3. Behind = 0 /\ Done = 0
      BY <3>1, <3>2, Sizes, SMT DEF Behind, Done
    <3>4. QED
      BY <2>2, <3>3
  <2>7. ~Exceeds(call) /\ Total = Pages(call.bytes)
    BY <2>6 DEF Total
  <2>8. Pages(call.addr) + Pages(call.bytes) <= DevicePages
    BY <2>3, <2>7, Sizes, SMT DEF Exceeds
  <2>9. (Pages(call.addr) + Pages(call.bytes)) * PAGE_SIZE <= DevicePages * PAGE_SIZE
    BY <2>3, <2>8, Sizes, TimesMonotonic
  <2>10. (Pages(call.addr) + Pages(call.bytes)) * PAGE_SIZE
           = Pages(call.addr) * PAGE_SIZE + Pages(call.bytes) * PAGE_SIZE
    BY <2>3, Sizes, SMT
  <2> DEFINE a == Pages(call.addr) * PAGE_SIZE
             b == Pages(call.bytes) * PAGE_SIZE
             c == DevicePages * PAGE_SIZE
  <2>11. /\ a \in Nat /\ b \in Nat /\ c \in Nat /\ a + b <= c
         /\ call.addr <= a /\ Len(printed) <= b /\ Len(printed) \in Nat
    <3>1. b \in Nat /\ c \in Nat
      <4>1. Pages(call.bytes) * PAGE_SIZE \in Nat
        BY <2>1, PagesHold
      <4>2. c \in Nat
        BY Sizes, SMT
      <4>3. QED
        BY <4>1, <4>2
    <3>2. a + b <= c
      BY <2>9, <2>10
    <3>3. Len(printed) \in Nat
      BY <2>2
    <3>4. QED
      BY <2>3, <2>5, <2>7, <3>1, <3>2, <3>3
  <2> HIDE DEF a, b, c
  <2>12. call.addr + Len(printed) <= c
    BY <2>1, <2>11, SMT
  <2>13. QED
    BY <2>12 DEF c
<1>2. QED
  BY Invariant, <1>1, PTL
===============================================================================
