---------------------------- MODULE MCXdmaEngine ----------------------------
(* A few callers, a short ring.  In the run without liveness the callers   *)
(* are interchangeable.                                                    *)
EXTENDS XdmaEngine, TLC

MCInterrupt == {FALSE}
MCBoth == BOOLEAN
MCSync == {"sync"}
MCAll == {"sync", "aio"}

Symmetry == Permutations(Clients)
=============================================================================
