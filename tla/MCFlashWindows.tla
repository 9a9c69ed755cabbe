---------------------------- MODULE MCFlashWindows ----------------------------
(* Pages of eight bytes, two in the device; flash and image with at most   *)
(* one programmed byte; starts on, inside and past the pages.              *)
EXTENDS FlashWindows

MCBytes == {0, 255}
MCMemories ==
  {[a \in Addresses |-> IF a = p THEN 0 ELSE 255] : p \in Addresses \cup {-1}}
MCStarts == {0, 3, 8, 19}
MCCounts == {0, 5, 8, 11, 24}
===============================================================================
