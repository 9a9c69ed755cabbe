----------------------------- MODULE FlashStore -----------------------------
(***************************************************************************)
(* What the flash layer (the SpiFlash... functions of flash_qspi_rw.c)     *)
(* promises its callers: a store of pages, and calls that take effect at   *)
(* most once, between their beginning and their successful return.  A call *)
(* that fails, or whose process ends, may still take effect later (an      *)
(* orphan), but no call returns success while an orphan is outstanding,    *)
(* except the status read, which waits for nothing.                        *)
(*                                                                         *)
(* Erasing is promised less: it may return success with its effect still   *)
(* outstanding, because GetStatus drops what its last steps return.        *)
(***************************************************************************)
EXTENDS FlashPages

VARIABLES
  store,    (* the content of every page                                   *)
  job,      (* the call in progress, or NoJob                              *)
  applied,  (* its effect has taken place                                  *)
  orphan,   (* an earlier call whose effect may still take place, or NoJob *)
  result,   (* what the last call returned                                 *)
  answer    (* the page it answered with, if it was a read that succeeded  *)

storeVars == <<store, job, applied, orphan, result, answer>>

StoreInit ==
  /\ store \in [Page -> Contents]
  /\ job = NoJob /\ applied = FALSE /\ orphan = NoJob
  /\ result = "none" /\ answer = Blank

Begin(j) ==
  /\ job = NoJob
  /\ job' = j /\ applied' = FALSE /\ result' = "none" /\ answer' = Blank
  /\ UNCHANGED <<store, orphan>>

Apply ==
  /\ job # NoJob /\ ~applied /\ orphan = NoJob
  /\ store' \in Outcomes(job, store) /\ applied' = TRUE
  /\ UNCHANGED <<job, orphan, result, answer>>

(* The status read is the one call that does not wait for a ready flash.   *)
Waits(j) == j.name # "SpiFlashGetStatusPrint"

(* Success: the effect has taken place, except that an erase may be late;  *)
(* a read answers with the content of its page.                            *)
Succeed ==
  /\ job # NoJob /\ (Waits(job) => orphan = NoJob)
  /\ applied \/ ~Modifies(job) \/ Erases(job)
  /\ orphan' = IF Erases(job) /\ ~applied THEN job ELSE orphan
  /\ answer' = IF job.name = "SpiFlashRead" THEN store[job.page] ELSE Blank
  /\ result' = "XST_SUCCESS" /\ job' = NoJob /\ applied' = FALSE
  /\ UNCHANGED store

(* Failure, or the end of the process (r = "none").                        *)
Fail(r) ==
  /\ job # NoJob
  /\ \/ UNCHANGED orphan
     \/ ~applied /\ Modifies(job) /\ orphan = NoJob /\ orphan' = job
  /\ result' = r /\ job' = NoJob /\ applied' = FALSE /\ answer' = Blank
  /\ UNCHANGED store

(* An orphan takes effect, perhaps partly, or never does.                  *)
OrphanEnds ==
  /\ orphan # NoJob /\ orphan' = NoJob
  /\ store' \in After(orphan, store) \cup Damage(orphan, store)
  /\ UNCHANGED <<job, applied, result, answer>>

(* The process ends between two calls.                                     *)
Rest ==
  /\ job = NoJob /\ result' = "none" /\ answer' = Blank
  /\ UNCHANGED <<store, job, applied, orphan>>

StoreNext ==
  \/ \E j \in Job : Begin(j)
  \/ Apply \/ Succeed \/ Fail("XST_FAILURE") \/ Fail("none")
  \/ OrphanEnds \/ Rest

StoreSpec == StoreInit /\ [][StoreNext]_storeVars
=============================================================================
