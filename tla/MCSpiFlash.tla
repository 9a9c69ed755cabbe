----------------------------- MODULE MCSpiFlash -----------------------------
(* SpiFlash for TLC: all sectors on one die.                               *)
EXTENDS SpiFlash

MCDie == [s \in Sectors |-> 0]
=============================================================================
