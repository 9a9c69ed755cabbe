------------------------------ MODULE SpiPort ------------------------------
(***************************************************************************)
(* What the SPI driver promises the flash layer, and nothing of how: a     *)
(* port that exchanges a requested number of bytes with the slave.  The    *)
(* flash layer (flash_qspi_rw.c) sees exactly this: it hands XSpi_Transfer *)
(* a byte count and looks at the returned status.                          *)
(***************************************************************************)
EXTENDS Naturals

CONSTANT MaxBytes  (* longest transfer a client asks for *)

VARIABLES
  port,     (* "closed", "open" (inside a transfer) or "stuck" (given up)  *)
  req,      (* bytes asked for by the transfer that holds the port         *)
  crossed,  (* bytes that have crossed the bus for that transfer           *)
  reported  (* TRUE after a transfer reported success, until the next call *)

portVars == <<port, req, crossed, reported>>

PortInit == port = "closed" /\ req = 0 /\ crossed = 0 /\ reported = FALSE

(* A transfer of n bytes starts; only a closed port accepts one.           *)
Open(n) ==
  /\ port = "closed"
  /\ port' = "open" /\ req' = n /\ crossed' = 0 /\ reported' = FALSE

(* One byte crosses the bus.  It may still do so after the driver gave up. *)
Cross ==
  /\ port \in {"open", "stuck"}
  /\ crossed < req
  /\ crossed' = crossed + 1
  /\ UNCHANGED <<port, req, reported>>

(* Success is reported only when every requested byte has crossed.         *)
Succeed ==
  /\ port = "open" /\ crossed = req
  /\ port' = "closed" /\ req' = 0 /\ crossed' = 0 /\ reported' = TRUE

(* The driver gives up waiting; the port stays taken.                      *)
GiveUp ==
  /\ port = "open"
  /\ port' = "stuck"
  /\ UNCHANGED <<req, crossed, reported>>

(* The port is taken away from the transfer: abort, reset, or process end. *)
Recover ==
  /\ port' = "closed" /\ req' = 0 /\ crossed' = 0 /\ reported' = FALSE

(* Any other call: refused, or about something else than the transfer.     *)
Other ==
  /\ reported' = FALSE
  /\ UNCHANGED <<port, req, crossed>>

PortNext ==
  \/ \E n \in 1..MaxBytes : Open(n)
  \/ Cross \/ Succeed \/ GiveUp \/ Recover \/ Other

PortSpec == PortInit /\ [][PortNext]_portVars
=============================================================================
