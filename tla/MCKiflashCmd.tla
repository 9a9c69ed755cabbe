---------------------------- MODULE MCKiflashCmd ----------------------------
(* KiflashCmd for TLC, laid out like the code's flash: five sectors of one *)
(* page on four dies: golden; timer1, whose image begins in the second of  *)
(* its two sectors; user; timer2.                                          *)
EXTENDS KiflashCmd, TLC

MCSlots   == {0}
MCSectors == 0..4
MCDie     == [s \in MCSectors |-> <<0, 1, 1, 2, 3>>[s + 1]]
MCRegions ==
  [golden |-> [file |-> "golden", base |-> 0, first |-> 0, last |-> 1],
   timer1 |-> [file |-> "timer1", base |-> 2, first |-> 1, last |-> 3],
   user   |-> [file |-> "user",   base |-> 3, first |-> 3, last |-> 4],
   timer2 |-> [file |-> "timer2", base |-> 4, first |-> 4, last |-> 5]]

(* A directory with all images, one of them reaching into the sectors of   *)
(* the next region, one ending in a partial page; a directory that lacks   *)
(* files, with an image that reaches into the next one.                    *)
Whole ==
  [golden |-> <<{"a"}, {"8"}>>, timer1 |-> <<{"a", "8"}>>, user |-> <<{"a"}>>,
   timer2 |-> <<{"8"}>>, fixed |-> <<{"a"}>>]
Lacking == [timer1 |-> <<{"a"}, {"8"}>>, user |-> <<>>]
MCDisks == {Whole, Lacking}

MCOptions ==
  {[name |-> "reflash"], [name |-> "program", region |-> "timer1"],
   [name |-> "verify", region |-> "user"], [name |-> "blankCheck", page |-> 2, pages |-> 2],
   [name |-> "programDie", die |-> 2], [name |-> "flashGeo"], [name |-> "quadEnable"]}

ASSUME MCErasedApart == ErasedApart

(* A new flash.                                                            *)
MCInit == Init /\ store = [p \in Page |-> Blank]
MCSpec == MCInit /\ [][Next]_vars
=============================================================================
