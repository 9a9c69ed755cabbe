----------------------------- MODULE XdmaEngine -----------------------------
(***************************************************************************)
(* One scatter-gather engine of the XDMA driver (libxdma.c): callers that  *)
(* read or write synchronously (xdma_xfer_submit) or asynchronously        *)
(* (xdma_xfer_submit_nowait), the queue of transfers, the service of the   *)
(* engine by interrupt or by polling, timeouts, errors, and the device     *)
(* going offline and online again.                                         *)
(*                                                                         *)
(* What the driver does under the engine's spinlock is one action; the     *)
(* engine core and the other threads run between any two of them.          *)
(***************************************************************************)
EXTENDS Integers, Sequences, FiniteSets, SequencesExt

CONSTANTS
  Clients,      (* the threads that read and write                         *)
  NoClient,
  Modes,        (* values of the module parameter poll_mode                *)
  Kinds,        (* which calls they make: "sync", "aio"                    *)
  MaxDesc,      (* XDMA_TRANSFER_MAX_DESC: the descriptors of the ring     *)
  MaxRequest,   (* bound: the descriptors of a request                     *)
  Timeouts,     (* a wait may end early: by its timeout or by a signal     *)
  Offlines      (* the device may go offline                               *)

ASSUME XdmaAssumption ==
  /\ NoClient \notin Clients /\ Modes \subseteq BOOLEAN /\ Kinds \subseteq {"sync", "aio"}
  /\ MaxDesc \in Nat \ {0} /\ MaxRequest \in 1..MaxDesc
  /\ Timeouts \in BOOLEAN /\ Offlines \in BOOLEAN

(* req->tfer[2] of each caller's request.                                  *)
Transfer == Clients \X {0, 1}
Ring     == 0..(MaxDesc - 1)
Word     == 4 * MaxDesc     (* bound: the modulus of the u32 counters      *)

VARIABLES
  poll_mode,
  power,       (* the device: "on", "leaving" once its flag is set, "off"  *)
  descLock,    (* who holds engine->desc_lock                              *)
  desc_idx,    (* the next free descriptor                                 *)
  desc,        (* the ring: whose descriptor, and whether it stops the engine *)
  engine,      (* struct xdma_engine: running, shutdown, list              *)
               (* (transfer_list), dequeued (desc_dequeued), status        *)
  xfer,        (* struct xdma_transfer: state, first, num (desc_num)       *)
  client,      (* the calls: pc, kind, left (nents), tfer (tfer_idx),      *)
               (* seen (the writeback polled)                              *)
  work,        (* engine->work is scheduled                                *)
  hw,          (* the core: control and status registers, its place in the *)
               (* ring, its counts                                         *)
  moved        (* history: the descriptors of a transfer carried out       *)

vars == <<poll_mode, power, descLock, desc_idx, desc, engine, xfer, client, work, hw, moved>>

Lesser(a, b) == IF a <= b THEN a ELSE b

-----------------------------------------------------------------------------
(* The core.  It begins a run when its run bit is raised, carries out      *)
(* descriptors until one stops it, and reports the end of a run in its     *)
(* status, by an interrupt if that is enabled, or in host memory.          *)
Idle == [run |-> FALSE, busy |-> FALSE, next |-> 0, count |-> 0,
         event |-> FALSE, err |-> FALSE, enabled |-> TRUE, wb |-> 0, wbErr |-> FALSE]

RunFrom(h, first) ==
  IF h.run THEN h ELSE [h EXCEPT !.run = TRUE, !.busy = TRUE, !.next = first, !.count = 0]

StatusOf(h) == [busy |-> h.busy, err |-> h.err]
Cleared(h)  == [h EXCEPT !.event = FALSE, !.err = FALSE]
Stopped(h)  == [h EXCEPT !.run = FALSE]      (* xdma_engine_stop           *)

HwDescriptor ==
  /\ hw.busy
  /\ LET d == desc[hw.next]
     IN /\ moved' = [moved EXCEPT ![d.xfer] = Lesser(moved[d.xfer] + 1, MaxDesc)]
        /\ \E reports \in {d.last, TRUE} :
             hw' = [hw EXCEPT !.busy = ~d.last, !.event = hw.event \/ d.last,
                              !.next = (hw.next + 1) % MaxDesc, !.count = hw.count + 1,
                              !.wb = IF poll_mode /\ reports THEN hw.count + 1 ELSE hw.wb]
  /\ UNCHANGED <<poll_mode, power, descLock, desc_idx, desc, engine, xfer, client, work>>

HwError ==
  /\ hw.busy
  /\ hw' = [hw EXCEPT !.busy = FALSE, !.event = TRUE, !.err = TRUE, !.wbErr = poll_mode]
  /\ UNCHANGED <<poll_mode, power, descLock, desc_idx, desc, engine, xfer, client, work, moved>>

HwHalts ==
  /\ hw.busy /\ ~hw.run
  /\ hw' = [hw EXCEPT !.busy = FALSE]
  /\ UNCHANGED <<poll_mode, power, descLock, desc_idx, desc, engine, xfer, client, work, moved>>

-----------------------------------------------------------------------------
(* What a function of the service works on and returns.                    *)
With(e, h, x) == [engine |-> e, hw |-> h, xfer |-> x]
Stop(s)       == With(s.engine, Stopped(s.hw), s.xfer)

(* engine_start, on a queue that is not empty.                             *)
Start(s) ==
  LET h == RunFrom(s.hw, s.xfer[Head(s.engine.list)].first)
  IN With([s.engine EXCEPT !.running = TRUE, !.shutdown = FALSE, !.dequeued = 0,
                           !.status = StatusOf(h)], h, s.xfer)

(* engine_status_read, with clear                                          *)
ReadStatus(s) == With([s.engine EXCEPT !.status = StatusOf(s.hw)], Cleared(s.hw), s.xfer)

(* engine_service_shutdown                                                 *)
Shutdown(s) == With([s.engine EXCEPT !.running = FALSE], Stopped(s.hw), s.xfer)

(* The head of the queue leaves it in this state.                          *)
Dequeue(s, state) ==
  LET x == Head(s.engine.list)
  IN With([s.engine EXCEPT !.list = Tail(s.engine.list),
                           !.dequeued = (s.engine.dequeued + s.xfer[x].num) % Word],
          s.hw, [s.xfer EXCEPT ![x].state = state])

(* engine_service_transfer_list: the transfers but the last that n         *)
(* completed descriptors cover; n is counted down.                         *)
PassHead(w) ==
  LET l == w.s.engine.list
  IN IF l # <<>> /\ w.n > w.s.xfer[Head(l)].num
     THEN [s |-> Dequeue(w.s, "COMPLETED"), n |-> w.n - w.s.xfer[Head(l)].num]
     ELSE w

ServiceList(s, n) ==
  LET after[k \in 0..Len(s.engine.list)] ==      (* k looks at the head     *)
        IF k = 0 THEN [s |-> s, n |-> n] ELSE PassHead(after[k - 1])
  IN after[Len(s.engine.list)]

(* Fault for the mutation runs: one completed descriptor is enough.        *)
ServiceFinalAny(s, n) ==
  IF s.engine.list = <<>> THEN s
  ELSE IF n > 0 THEN Dequeue(s, "COMPLETED")
  ELSE Dequeue(Stop(s), "FAILED")

(* Fault: after an error the transfer stays, to be tried again.            *)
ServiceFinalRetry(s, n) ==
  IF s.engine.list = <<>> THEN s
  ELSE IF s.engine.status.err /\ ~poll_mode THEN Stop(s)
  ELSE Dequeue(s, IF n < s.xfer[Head(s.engine.list)].num THEN "FAILED" ELSE "COMPLETED")

(* engine_service_final_transfer, engine_err_handle                        *)
ServiceFinal(s, n) ==
  IF s.engine.list = <<>> THEN s
  ELSE IF s.engine.status.err THEN Dequeue(Stop(s), "FAILED")
  ELSE IF n < s.xfer[Head(s.engine.list)].num THEN Dequeue(s, "FAILED")
  ELSE Dequeue(s, "COMPLETED")

(* Fault for the mutation runs: a queue that is not empty is not restarted. *)
ResumeNever(s) == s

(* engine_service_resume                                                   *)
Resume(s) == IF ~s.engine.running /\ s.engine.list # <<>> THEN Start(s) ELSE s

NoWriteback(s) == With(s.engine, [s.hw EXCEPT !.wb = 0, !.wbErr = FALSE], s.xfer)

(* engine_service, with the descriptor count and the error flag of the     *)
(* writeback; both are absent when an interrupt calls it.                  *)
Service(s, wb, wbErr) ==
  IF ~s.engine.running THEN ReadStatus(s)
  ELSE LET read  == IF wb = 0 \/ wbErr THEN ReadStatus(s) ELSE s
           quiet == IF ~read.engine.status.busy \/ wb # 0 THEN Shutdown(read) ELSE read
           count == IF wb = 0 THEN quiet.hw.count ELSE wb
           rest  == ServiceList(quiet, (count - quiet.engine.dequeued) % Word)
           final == ServiceFinal(rest.s, rest.n)
       IN Resume(IF poll_mode THEN NoWriteback(final) ELSE final)

State == With(engine, hw, xfer)

(* An asynchronous request is over when its last transfer is: io_done,     *)
(* xdma_xfer_completion, xdma_request_free.                                *)
LastOf(c) == <<c, client[c].tfer>>
IoDoneFirst(c, s) ==      (* fault: the first transfer ends the request    *)
  client[c].pc = "queued" /\ <<c, 0>> \in ToSet(engine.list) \ ToSet(s.engine.list)
IoDone(c, s) == /\ client[c].pc = "queued"
                /\ LastOf(c) \in ToSet(engine.list) \ ToSet(s.engine.list)

Become(s) ==
  /\ engine' = s.engine /\ hw' = s.hw /\ xfer' = s.xfer

Callbacks(s) ==
  client' = [c \in Clients |-> IF IoDone(c, s) THEN [client[c] EXCEPT !.pc = "over"] ELSE client[c]]

-----------------------------------------------------------------------------
(* The interrupt: xdma_isr or xdma_channel_irq, and engine_service_work.   *)
Isr ==
  /\ ~poll_mode /\ power # "off" /\ hw.enabled /\ hw.event
  /\ hw' = [hw EXCEPT !.enabled = FALSE] /\ work' = TRUE
  /\ UNCHANGED <<poll_mode, power, descLock, desc_idx, desc, engine, xfer, client, moved>>

Reenabled(s) == [s.hw EXCEPT !.enabled = TRUE]

EngineServiceWork ==
  /\ work /\ work' = FALSE
  /\ LET s == Service(State, 0, FALSE)
     IN Become(With(s.engine, Reenabled(s), s.xfer)) /\ Callbacks(s)
  /\ UNCHANGED <<poll_mode, power, descLock, desc_idx, desc, moved>>

-----------------------------------------------------------------------------
(* The callers.                                                            *)
At(c, l) == client[c].pc = l
Goto(c, l) == client' = [client EXCEPT ![c].pc = l]

(* The request is freed, the call returns; asynchronous calls returned     *)
(* when the request was queued.                                            *)
Return(c) ==
  /\ Goto(c, "over")
  /\ descLock' = IF descLock = c THEN NoClient ELSE descLock

NoTransfer == [state |-> "NEW", first |-> 0, num |-> 0]
NoCall == [pc |-> "idle", kind |-> "sync", left |-> 0, tfer |-> 0, seen |-> [wb |-> 0, err |-> FALSE]]

(* The caller has its result; nothing of the request is left.  Bound: a    *)
(* request's memory is not given out again while it is on the queue.       *)
Over(c) ==
  /\ At(c, "over") /\ {<<c, 0>>, <<c, 1>>} \cap ToSet(engine.list) = {}
  /\ client' = [client EXCEPT ![c] = NoCall]
  /\ xfer' = [x \in Transfer |-> IF x[1] = c THEN NoTransfer ELSE xfer[x]]
  /\ moved' = [x \in Transfer |-> IF x[1] = c THEN 0 ELSE moved[x]]
  /\ UNCHANGED <<poll_mode, power, descLock, desc_idx, desc, engine, work, hw>>

(* A call made while the device is offline is refused at once.             *)
Call(c, kind, n) ==
  /\ At(c, "idle") /\ power = "on" /\ (kind = "aio" => ~poll_mode)
  /\ client' = [client EXCEPT ![c] = [NoCall EXCEPT !.kind = kind, !.left = n,
                                         !.pc = IF kind = "sync" THEN "lock" ELSE "init"]]
  /\ UNCHANGED <<poll_mode, power, descLock, desc_idx, desc, engine, xfer, work, hw, moved>>

LockDesc(c) ==
  /\ At(c, "lock") /\ descLock = NoClient /\ descLock' = c /\ Goto(c, "init")
  /\ UNCHANGED <<poll_mode, power, desc_idx, desc, engine, xfer, work, hw, moved>>

Current(c) == <<c, client[c].tfer>>

(* A transfer's memory: tfer[] is part of a request that is freed when the *)
(* call returns or its callback has run.                                   *)
Allocated(x) == client[x[1]].pc \notin {"idle", "lock", "over", "lost"}

InUse(i) ==
  LET x == desc[i].xfer
  IN /\ x \in Transfer /\ Allocated(x) /\ xfer[x].state \in {"NEW", "SUBMITTED"}
     /\ i \in xfer[x].first..(xfer[x].first + xfer[x].num - 1)

(* Fault for the mutation runs: the ring is taken to be one longer.        *)
RoomLong == MaxDesc + 1 - desc_idx
Room     == MaxDesc - desc_idx     (* up to the end of the ring            *)

(* transfer_init: the descriptors up to the end of the ring.  Bounds: no   *)
(* requests so many that the ring goes round onto descriptors in use,      *)
(* which nothing in the code prevents ("TODO", libxdma.c:3219); and none   *)
(* whose second part, after others took descriptors, has no room up to the *)
(* end of the ring either: tfer[2] has no place for a third.               *)
TransferInit(c) ==
  /\ At(c, "init")
  /\ LET x == Current(c)
         n == Lesser(client[c].left, Room)
         taken == desc_idx..(desc_idx + n - 1)
     IN /\ \A i \in Ring \cap taken : ~InUse(i)
        /\ client[c].tfer = 1 => n = client[c].left
        /\ xfer' = [xfer EXCEPT ![x] = [state |-> "NEW", first |-> desc_idx, num |-> n]]
        /\ desc' = [i \in Ring |->
             IF i \in taken THEN [xfer |-> x, last |-> i = desc_idx + n - 1] ELSE desc[i]]
        /\ desc_idx' = (desc_idx + n) % MaxDesc
        /\ moved' = [moved EXCEPT ![x] = 0]
        /\ client' = [client EXCEPT ![c].pc = "queue", ![c].left = client[c].left - n]
  /\ UNCHANGED <<poll_mode, power, descLock, engine, work, hw>>

(* transfer_queue                                                          *)
QueueRefused(c) ==
  /\ At(c, "queue") /\ (power # "on" \/ engine.shutdown)
  /\ Return(c)
  /\ UNCHANGED <<poll_mode, power, desc_idx, desc, engine, xfer, work, hw, moved>>

(* Fault for the mutation runs: the engine is started whatever it does.    *)
StartedAlways(s) == Start(Stop(s))
StartedIfIdle(s) == IF s.engine.running THEN s ELSE Start(s)

TransferQueue(c) ==
  /\ At(c, "queue") /\ power = "on" /\ ~engine.shutdown
  /\ LET x == Current(c)
         s == With([engine EXCEPT !.list = Append(engine.list, x)], hw,
                   [xfer EXCEPT ![x].state = "SUBMITTED"])
     IN Become(StartedIfIdle(s))
  /\ client' = [client EXCEPT
       ![c].pc   = IF client[c].kind = "sync" THEN "wait"
                   ELSE IF client[c].left > 0 THEN "init" ELSE "queued",
       ![c].tfer = IF client[c].kind = "aio" /\ client[c].left > 0
                   THEN client[c].tfer + 1 ELSE client[c].tfer]
  /\ UNCHANGED <<poll_mode, power, descLock, desc_idx, desc, work, moved>>

(* The wait for the transfer's state, woken, timed out or interrupted.     *)
WakeUp(c) ==
  /\ At(c, "wait") /\ ~poll_mode /\ xfer[Current(c)].state # "SUBMITTED"
  /\ Goto(c, "finish")
  /\ UNCHANGED <<poll_mode, power, descLock, desc_idx, desc, engine, xfer, work, hw, moved>>

TimeOut(c) ==
  /\ Timeouts /\ At(c, "wait") /\ ~poll_mode
  /\ Goto(c, "finish")
  /\ UNCHANGED <<poll_mode, power, descLock, desc_idx, desc, engine, xfer, work, hw, moved>>

(* engine_service_wb_monitor, until the count, an error or its timeout     *)
Monitor(c) ==
  /\ At(c, "wait") /\ poll_mode
  /\ hw.wbErr \/ hw.wb >= xfer[Current(c)].num \/ Timeouts
  /\ client' = [client EXCEPT ![c].pc = "service", ![c].seen = [wb |-> hw.wb, err |-> hw.wbErr]]
  /\ UNCHANGED <<poll_mode, power, descLock, desc_idx, desc, engine, xfer, work, hw, moved>>

(* engine_service_poll                                                     *)
EngineServicePoll(c) ==
  /\ At(c, "service")
  /\ Become(Service(State, client[c].seen.wb, client[c].seen.err))
  /\ Goto(c, "finish")
  /\ UNCHANGED <<poll_mode, power, descLock, desc_idx, desc, work, moved>>

(* After the wait, under the lock: the rest of the request, or the return. *)
Completed(c) ==
  /\ At(c, "finish") /\ xfer[Current(c)].state = "COMPLETED"
  /\ IF client[c].left > 0 THEN Goto(c, "init") /\ UNCHANGED descLock ELSE Return(c)
  /\ UNCHANGED <<poll_mode, power, desc_idx, desc, engine, xfer, work, hw, moved>>

Failed(c) ==
  /\ At(c, "finish") /\ xfer[Current(c)].state = "FAILED"
  /\ Return(c)
  /\ UNCHANGED <<poll_mode, power, desc_idx, desc, engine, xfer, work, hw, moved>>

(* transfer_abort; a transfer that is not the first is left where it is.   *)
AbortNothing(l, x) == l       (* fault: the aborted transfer stays         *)
Abort(l, x) == IF l # <<>> /\ Head(l) = x THEN Tail(l) ELSE l

(* ... and xdma_engine_stop; engine->running stays.  The status is read    *)
(* before, by engine_status_read with its dump of the registers.           *)
TimedOut(c) ==
  /\ At(c, "finish") /\ xfer[Current(c)].state = "SUBMITTED"
  /\ engine' = [engine EXCEPT !.list = Abort(engine.list, Current(c)), !.status = StatusOf(hw)]
  /\ xfer' = [xfer EXCEPT ![Current(c)].state = "ABORTED"]
  /\ hw' = Stopped(hw)
  /\ Return(c)
  /\ UNCHANGED <<poll_mode, power, desc_idx, desc, work, moved>>

(* The same when engine_reg_dump finds no engine identifier, as with a     *)
(* device that is off the bus or in reset: nothing is aborted or stopped,  *)
(* but the request is freed all the same, its transfer still on the queue. *)
(* Freed memory is taken to keep its content.  Bounds: that caller makes   *)
(* no further call, and every other register read is answered.             *)
TimedOutUnread(c) ==
  /\ At(c, "finish") /\ xfer[Current(c)].state = "SUBMITTED"
  /\ Goto(c, "lost")
  /\ descLock' = IF descLock = c THEN NoClient ELSE descLock
  /\ UNCHANGED <<poll_mode, power, desc_idx, desc, engine, xfer, work, hw, moved>>

-----------------------------------------------------------------------------
(* xdma_device_offline: the flag, then, under the lock, the engine.        *)
OfflineFlag ==
  /\ Offlines /\ power = "on" /\ power' = "leaving"
  /\ UNCHANGED <<poll_mode, descLock, desc_idx, desc, engine, xfer, client, work, hw, moved>>

OfflineStop ==
  /\ power = "leaving" /\ power' = "off"
  /\ engine' = [engine EXCEPT !.shutdown = TRUE, !.running = FALSE]
  /\ hw' = [Stopped(hw) EXCEPT !.enabled = FALSE]
  /\ UNCHANGED <<poll_mode, descLock, desc_idx, desc, xfer, client, work, moved>>

(* xdma_device_online                                                      *)
Online ==
  /\ power = "off" /\ power' = "on"
  /\ engine' = [engine EXCEPT !.shutdown = FALSE]
  /\ hw' = [hw EXCEPT !.enabled = TRUE]
  /\ UNCHANGED <<poll_mode, descLock, desc_idx, desc, xfer, client, work, moved>>

-----------------------------------------------------------------------------
Init ==
  /\ poll_mode \in Modes /\ power = "on" /\ descLock = NoClient /\ desc_idx = 0
  /\ desc = [i \in Ring |-> [xfer |-> <<NoClient, 0>>, last |-> TRUE]]
  /\ engine = [running |-> FALSE, shutdown |-> FALSE, list |-> <<>>, dequeued |-> 0,
               status |-> [busy |-> FALSE, err |-> FALSE]]
  /\ xfer = [x \in Transfer |-> NoTransfer] /\ client = [c \in Clients |-> NoCall]
  /\ work = FALSE /\ hw = Idle /\ moved = [x \in Transfer |-> 0]

ClientStep(c) ==
  \/ LockDesc(c) \/ TransferInit(c) \/ QueueRefused(c) \/ TransferQueue(c)
  \/ WakeUp(c) \/ Monitor(c) \/ EngineServicePoll(c)
  \/ Completed(c) \/ Failed(c) \/ Over(c)
  \/ TimedOut(c) \/ TimedOutUnread(c)

HwStep == HwDescriptor \/ HwError \/ HwHalts

Next ==
  \/ (\E c \in Clients, kind \in Kinds, n \in 1..MaxRequest : Call(c, kind, n))
  \/ (\E c \in Clients : ClientStep(c))
  \/ (\E c \in Clients : TimeOut(c))
  \/ HwStep \/ Isr \/ EngineServiceWork
  \/ OfflineFlag \/ OfflineStop \/ Online

Spec == Init /\ [][Next]_vars

(* The core works, interrupts and work items are served, and a caller that *)
(* polls goes on polling; nothing more is asked of the callers.  What ends *)
(* a work item is EngineServiceWork, what takes a caller from "service" to *)
(* "finish" is EngineServicePoll.                                          *)
WorkDone    == work /\ work' = FALSE
PollDone(c) == At(c, "service") /\ Goto(c, "finish")

FairSpec ==
  /\ Spec
  /\ WF_vars(HwStep) /\ WF_vars(Isr) /\ WF_work(WorkDone)
  /\ (\A c \in Clients : WF_vars(Monitor(c)) /\ WF_client(PollDone(c)))

-----------------------------------------------------------------------------
(* The type of every variable.                                             *)
TypeOK ==
  /\ poll_mode \in Modes /\ power \in {"on", "leaving", "off"}
  /\ descLock \in Clients \cup {NoClient} /\ desc_idx \in Ring
  /\ desc \in [Ring -> [xfer : Transfer \cup {<<NoClient, 0>>}, last : BOOLEAN]]
  /\ engine.running \in BOOLEAN /\ engine.shutdown \in BOOLEAN
  /\ engine.list \in Seq(Transfer) /\ engine.dequeued \in 0..(Word - 1)
  /\ \A x \in Transfer :
       /\ xfer[x].state \in {"NEW", "SUBMITTED", "COMPLETED", "FAILED", "ABORTED"}
       /\ xfer[x].first + xfer[x].num <= MaxDesc
  /\ \A c \in Clients :
       /\ client[c].pc \in {"idle", "lock", "init", "queue", "queued", "wait", "service", "finish",
                            "over", "lost"}
       /\ client[c].tfer \in {0, 1}
  /\ work \in BOOLEAN /\ hw.next \in Ring /\ hw.count \in 0..MaxDesc
  /\ \A x \in Transfer : moved[x] \in 0..MaxDesc

(* "mark transfer as succesfully completed" (libxdma.c:826): when the      *)
(* driver says so, the core has carried out every descriptor of the        *)
(* transfer, whatever counts it shares with the transfers around it.       *)
CompletedMeansMoved ==
  \A x \in Transfer : xfer[x].state = "COMPLETED" => moved[x] = xfer[x].num

(* Nothing is left on the queue of the engine when its memory is freed, by *)
(* a caller that goes on or by the callback of its own completion in the   *)
(* middle of the service of others; and nothing is queued twice.           *)
NoFreedOnList ==
  /\ \A x \in ToSet(engine.list) : Allocated(x) /\ xfer[x].state = "SUBMITTED"
  /\ Cardinality(ToSet(engine.list)) = Len(engine.list)

(* The same when waits time out or are interrupted, at any point of the    *)
(* service or of the device going offline and coming back (libxdma.c:3619  *)
(* to 3665), until a caller that timed out finds no engine identifier:     *)
(* what it then leaves on the queue is the only way a freed transfer gets  *)
(* or stays there.                                                         *)
Lost(c) == At(c, "lost")

NoFreedUnlessLost == (\E c \in Clients : Lost(c)) \/ NoFreedOnList

(* No transfer is forgotten on the queue, and none is started out of turn: *)
(* between two steps of the driver the engine runs exactly when transfers  *)
(* are queued, and the core works on the first of them.                    *)
ServesHead ==
  /\ engine.running = (engine.list # <<>>)
  /\ hw.busy => desc[hw.next].xfer = Head(engine.list)

(* The core does not touch the memory of a request that has been given     *)
(* back to its caller.                                                     *)
QuietAfterReturn == hw.busy => Allocated(desc[hw.next].xfer)

(* Every transfer that is queued ends, though the interrupt is disabled    *)
(* from the handler to the end of the work item, while the core goes on to *)
(* raise events; and so it does by polling.                                *)
SubmittedEnds ==
  \A x \in Transfer : (xfer[x].state = "SUBMITTED") ~> (xfer[x].state # "SUBMITTED")
=============================================================================
