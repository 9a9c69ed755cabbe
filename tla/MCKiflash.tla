----------------------------- MODULE MCKiflash ------------------------------
(* Kiflash for TLC: five sectors of one page (golden, user, user, timer,   *)
(* timer), all of the same content at first, and images of up to three     *)
(* pages, which is one too many: empty, whole, with a partial last page.   *)
EXTENDS Kiflash, TLC

MCSectors == 0..4
MCSlots   == {0}
MCDie     == [s \in Sectors |-> 0]
MCImages  == {<<>>, <<{"a", "b"}>>, <<{"a"}, {"b"}, {"a"}>>}

(* For several workers: golden, user, timer and an image of one page.      *)
MCThreeSectors == 0..2
MCOnePage      == {<<{"a"}>>}

SameEverywhere == \E c \in Contents : store = [p \in Page |-> c]
MCInit     == Init /\ SameEverywhere
MCSpec     == MCInit /\ [][Next]_vars
MCFairSpec == MCSpec /\ Fairness

MCTwoInit  == Init /\ store = [p \in Page |-> Junk]
MCTwoSpec  == MCTwoInit /\ [][Next]_vars
=============================================================================
