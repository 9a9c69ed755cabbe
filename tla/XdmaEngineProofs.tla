--------------------------- MODULE XdmaEngineProofs ---------------------------
(***************************************************************************)
(* Proofs about XdmaEngine.tla: what it means that a transfer completed,   *)
(* what is on the queue and what the core works on, for any callers, ring  *)
(* and requests, as long as no wait ends early and the device stays        *)
(* online; and, when it does not, what is on the queue of an engine that   *)
(* is only used synchronously, until a caller finds no engine identifier.  *)
(***************************************************************************)
EXTENDS XdmaEngine, FiniteSetTheorems, SequenceTheorems, TLAPS

-----------------------------------------------------------------------------
States == {"NEW", "SUBMITTED", "COMPLETED", "FAILED", "ABORTED"}
Labels == {"idle", "lock", "init", "queue", "queued", "wait", "service", "finish", "over"}
Inside == {"init", "queue", "wait", "service", "finish"}

(* The types of the driver's variables.                                    *)
Engines ==
  [running : BOOLEAN, shutdown : BOOLEAN, list : Seq(Transfer),
   dequeued : 0..(Word - 1), status : [busy : BOOLEAN, err : BOOLEAN]]
Cores ==
  [run : BOOLEAN, busy : BOOLEAN, next : Ring, count : 0..MaxDesc, event : BOOLEAN,
   err : BOOLEAN, enabled : BOOLEAN, wb : Nat, wbErr : BOOLEAN]
Transfers == [state : States, first : Ring, num : 0..MaxDesc]
CallRecords ==
  [pc : Labels, kind : {"sync", "aio"}, left : 0..MaxRequest, tfer : {0, 1},
   seen : [wb : Nat, err : BOOLEAN]]

Types ==
  /\ poll_mode \in Modes /\ power \in {"on", "leaving", "off"} /\ work \in BOOLEAN
  /\ descLock \in Clients \cup {NoClient} /\ desc_idx \in Ring
  /\ desc \in [Ring -> [xfer : Transfer \cup {<<NoClient, 0>>}, last : BOOLEAN]]
  /\ engine \in Engines /\ hw \in Cores
  /\ xfer \in [Transfer -> Transfers]
  /\ \A x \in Transfer : xfer[x].first + xfer[x].num <= MaxDesc
  /\ client \in [Clients -> CallRecords] /\ moved \in [Transfer -> 0..MaxDesc]

Sync(c) == client[c].kind = "sync"
Waiting(x) == xfer[x].state = "SUBMITTED"

(* Where the calls are, and what has become of their transfers.            *)
CallAt(c) ==
  /\ descLock = c <=> Sync(c) /\ client[c].pc \in Inside
  /\ Sync(c) \/ client[c].pc \in {"init", "queue", "queued", "over"}
  /\ Sync(c) => client[c].pc # "queued" /\ client[c].tfer = 0
  /\ poll_mode => Sync(c)
  /\ client[c].tfer = 0 => xfer[<<c, 1>>] = NoTransfer
  /\ client[c].pc \in {"idle", "lock"} => xfer[<<c, 0>>] = NoTransfer /\ client[c].tfer = 0
  /\ client[c].pc \in {"lock", "init"} => client[c].left > 0
  /\ client[c].pc = "init"  => ~Waiting(Current(c))
  /\ client[c].pc = "queue" => xfer[Current(c)].state = "NEW" /\ xfer[Current(c)].num > 0
  /\ client[c].pc \in {"init", "queue"} /\ client[c].tfer = 1 => xfer[<<c, 0>>].state # "NEW"
  /\ client[c].pc = "queue" /\ client[c].tfer = 1 => client[c].left = 0
  /\ client[c].pc = "queued" => Waiting(LastOf(c))
  /\ client[c].pc = "wait" => Waiting(Current(c))
       \/ (~poll_mode /\ xfer[Current(c)].state \in {"COMPLETED", "FAILED"})
  /\ client[c].pc = "service" => poll_mode /\ Waiting(Current(c))
  /\ client[c].pc = "finish" => xfer[Current(c)].state \in {"COMPLETED", "FAILED"}
  /\ client[c].pc = "over" => ~Waiting(<<c, 0>>) /\ ~Waiting(<<c, 1>>)

Calls == \A c \in Clients : CallAt(c)

(* The queue holds what has been submitted, each once; the two parts of a  *)
(* request in their order.                                                 *)
Queue ==
  LET l == engine.list
  IN /\ \A x \in Transfer : Waiting(x) => (\E i \in 1..Len(l) : l[i] = x) /\ xfer[x].num > 0
     /\ \A i \in 1..Len(l) : Waiting(l[i])
     /\ \A i, j \in 1..Len(l) : i < j => l[i] # l[j] /\ (l[i][1] = l[j][1] => l[i][2] = 0)

(* The descriptors of a transfer stay its own until it has been carried    *)
(* out, and the last of them stops the core.                               *)
Owns(x) ==
  \A i \in xfer[x].first..(xfer[x].first + xfer[x].num - 1) :
    desc[i] = [xfer |-> x, last |-> i = xfer[x].first + xfer[x].num - 1]

Descriptors == \A x \in Transfer : xfer[x].state \in {"NEW", "SUBMITTED"} /\ Allocated(x) => Owns(x)

(* The core and the transfer x that it carries out.                        *)
Serving(x) ==
  /\ hw.run /\ engine.dequeued = 0 /\ moved[x] = hw.count /\ hw.count <= xfer[x].num
  /\ hw.busy => ~hw.err /\ hw.count < xfer[x].num /\ hw.next = xfer[x].first + hw.count
  /\ ~hw.busy => hw.event /\ (hw.err \/ hw.count = xfer[x].num)
  /\ poll_mode =>
       /\ hw.wb <= hw.count /\ hw.wbErr = hw.err /\ ~engine.status.err
       /\ ~hw.busy /\ ~hw.err => hw.wb = hw.count

Core ==
  /\ power = "on" /\ ~engine.shutdown /\ engine.running = (engine.list # <<>>)
  /\ IF engine.list = <<>> THEN ~hw.run /\ ~hw.busy /\ ~hw.err /\ hw.wb = 0 /\ ~hw.wbErr
     ELSE Serving(Head(engine.list))
  /\ poll_mode => ~work
  /\ ~poll_mode => /\ hw.enabled = ~work /\ (work => hw.event)
                   /\ (hw.event => ~hw.busy /\ engine.list # <<>>)
                   /\ hw.wb = 0 /\ ~hw.wbErr
  /\ \A c \in Clients : client[c].pc = "service" =>
       /\ client[c].seen = [wb |-> hw.wb, err |-> hw.wbErr] /\ ~hw.busy

(* What has been carried out.                                              *)
Carried ==
  /\ \A x \in Transfer : xfer[x].state = "NEW" => moved[x] = 0
  /\ \A x \in Transfer : Waiting(x) /\ x # Head(engine.list) => moved[x] = 0
  /\ CompletedMeansMoved

Inv == Types /\ Calls /\ Queue /\ Descriptors /\ Core /\ Carried

-----------------------------------------------------------------------------
(* Induction over the natural numbers, for a set.                          *)
LEMMA SetInduction ==
  ASSUME NEW S, 0 \in S, \A n \in Nat : n \in S => n + 1 \in S
  PROVE  Nat \subseteq S
<1> DEFINE T == Nat \ S
           R == OpToRel(<, Nat)
<1>1. SUFFICES ASSUME T # {} PROVE FALSE
  OBVIOUS
<1>2. IsWellFoundedOn(R, Nat)
  BY NatLessThanWellFounded, Zenon
<1>3. T \subseteq Nat
  OBVIOUS
<1> HIDE DEF T, R
<1>4. PICK x \in T : \A y \in T : ~ (<<y, x>> \in R)
  BY <1>1, <1>2, <1>3, WFMin
<1>5. x \in Nat /\ x \notin S /\ x # 0
  BY DEF T
<1>6. x - 1 \in T
  BY <1>5 DEF T
<1>7. <<x - 1, x>> \in R
  BY <1>5, SMT DEF R, OpToRel
<1>8. QED
  BY <1>4, <1>6, <1>7

(* The walk of engine_service_transfer_list, one transfer after the other. *)
LEMMA ServiceWalk ==
  ASSUME NEW s, NEW n, s.engine.list \in Seq(Transfer)
  PROVE  \E f : /\ f[0] = [s |-> s, n |-> n]
                /\ \A k \in 1..Len(s.engine.list) : f[k] = PassHead(f[k - 1])
                /\ ServiceList(s, n) = f[Len(s.engine.list)]
<1> DEFINE L == Len(s.engine.list)
           w0 == [s |-> s, n |-> n]
           Walk(f, m) == f = [k \in 0..m |-> IF k = 0 THEN w0 ELSE PassHead(f[k - 1])]
           S == {m \in Nat : \E f : Walk(f, m)}
<1>0. L \in Nat
  BY LenProperties
<1>1. 0 \in S
  <2>1. Walk([k \in 0..0 |-> w0], 0)
    OBVIOUS
  <2>2. QED
    BY <2>1
<1>2. ASSUME NEW m \in Nat, m \in S PROVE m + 1 \in S
  <2>1. PICK f : Walk(f, m)
    BY <1>2
  <2> DEFINE g == [k \in 0..(m + 1) |-> IF k = m + 1 THEN PassHead(f[m]) ELSE f[k]]
  <2>2. ASSUME NEW k \in 0..(m + 1)
        PROVE  g[k] = IF k = 0 THEN w0 ELSE PassHead(g[k - 1])
    <3>1. CASE k = m + 1
      <4>1. g[m] = f[m] /\ k - 1 = m /\ k # 0
        BY <3>1
      <4>2. QED
        BY <3>1, <4>1
    <3>2. CASE k # m + 1 /\ k # 0
      <4>1. k \in 0..m /\ k - 1 \in 0..m /\ k - 1 # m + 1
        BY <3>2
      <4>2. g[k] = f[k] /\ g[k - 1] = f[k - 1]
        BY <4>1, <3>2
      <4>3. f[k] = PassHead(f[k - 1])
        BY <2>1, <4>1, <3>2
      <4>4. QED
        BY <4>2, <4>3, <3>2
    <3>3. CASE k = 0
      <4>1. 0 \in 0..m /\ 0 # m + 1 /\ 0 \in 0..(m + 1)
        OBVIOUS
      <4>2. f[0] = w0
        BY <2>1, <4>1
      <4>3. QED
        BY <3>3, <4>1, <4>2
    <3>4. QED
      BY <3>1, <3>2, <3>3
  <2>3. g = [k \in 0..(m + 1) |-> IF k = 0 THEN w0 ELSE PassHead(g[k - 1])]
    <3> DEFINE h == [k \in 0..(m + 1) |-> IF k = 0 THEN w0 ELSE PassHead(g[k - 1])]
    <3>1. DOMAIN g = DOMAIN h /\ g = [k \in DOMAIN g |-> g[k]] /\ h = [k \in DOMAIN h |-> h[k]]
      OBVIOUS
    <3>2. \A k \in 0..(m + 1) : g[k] = h[k]
      BY <2>2
    <3>3. QED
      BY <3>1, <3>2, Zenon
  <2>4. \E e : Walk(e, m + 1)
    <3> HIDE DEF g
    <3>1. Walk(g, m + 1)
      BY <2>3
    <3>2. QED
      BY <3>1
  <2>5. QED
    BY <2>4
<1>3. L \in S
  <2> HIDE DEF S
  <2>1. Nat \subseteq S
    BY <1>1, <1>2, SetInduction
  <2>2. QED
    BY <2>1, <1>0
<1>4. \E f : Walk(f, L)
  BY <1>3
<1> DEFINE after[k \in 0..L] == IF k = 0 THEN [s |-> s, n |-> n] ELSE PassHead(after[k - 1])
<1>5. Walk(after, L)
  BY <1>4
<1>6. ServiceList(s, n) = after[L]
  BY DEF ServiceList
<1> HIDE DEF after
<1>7. after[0] = w0
  <2>1. 0 \in 0..L
    BY <1>0
  <2>2. QED
    BY <1>5, <2>1
<1>8. \A k \in 1..L : after[k] = PassHead(after[k - 1])
  <2> SUFFICES ASSUME NEW k \in 1..L PROVE after[k] = PassHead(after[k - 1])
    OBVIOUS
  <2>1. k \in 0..L /\ k # 0
    BY <1>0
  <2>2. QED
    BY <1>5, <2>1
<1>9. QED
  BY <1>6, <1>7, <1>8

(* Descriptors that do not cover more than the head complete nothing here. *)
LEMMA ServiceListStays ==
  ASSUME NEW s, NEW n, s.engine.list \in Seq(Transfer),
         s.engine.list = <<>> \/ ~(n > s.xfer[Head(s.engine.list)].num)
  PROVE  ServiceList(s, n) = [s |-> s, n |-> n]
<1> DEFINE w == [s |-> s, n |-> n]
           L == Len(s.engine.list)
<1>1. PICK f : /\ f[0] = w
               /\ \A k \in 1..L : f[k] = PassHead(f[k - 1])
               /\ ServiceList(s, n) = f[L]
  BY ServiceWalk
<1>2. PassHead(w) = w
  BY DEF PassHead
<1>3. L \in Nat
  BY LenProperties
<1> DEFINE S == {k \in Nat : k <= L => f[k] = w}
<1> HIDE DEF w, L
<1>4. 0 \in S
  BY <1>1
<1>5. ASSUME NEW k \in Nat, k \in S PROVE k + 1 \in S
  <2>1. SUFFICES ASSUME k + 1 <= L PROVE f[k + 1] = w
    OBVIOUS
  <2>2. k + 1 \in 1..L /\ k <= L /\ (k + 1) - 1 = k
    BY <2>1, <1>3
  <2>3. f[k + 1] = PassHead(f[k]) /\ f[k] = w
    BY <1>1, <1>5, <2>2
  <2>4. QED
    BY <2>3, <1>2
<1>6. L \in S
  <2> HIDE DEF S
  <2>1. Nat \subseteq S
    BY <1>4, <1>5, SetInduction
  <2>2. QED
    BY <2>1, <1>3
<1>7. f[L] = w
  BY <1>6, <1>3
<1>8. QED
  BY <1>1, <1>7 DEF w

(* A queue of one transfer.                                                *)
LEMMA ServiceListOne ==
  ASSUME NEW s, NEW n, s.engine.list \in Seq(Transfer), Len(s.engine.list) = 1
  PROVE  ServiceList(s, n) = PassHead([s |-> s, n |-> n])
<1>1. PICK f : /\ f[0] = [s |-> s, n |-> n]
               /\ \A k \in 1..Len(s.engine.list) : f[k] = PassHead(f[k - 1])
               /\ ServiceList(s, n) = f[Len(s.engine.list)]
  BY ServiceWalk
<1>2. f[1] = PassHead(f[1 - 1]) /\ 1 - 1 = 0
  BY <1>1
<1>3. QED
  BY <1>1, <1>2

-----------------------------------------------------------------------------
(* The functions of the service, on a state written out.                   *)
LEMMA Parts ==
  ASSUME NEW en, NEW h, NEW xf
  PROVE  With(en, h, xf).engine = en /\ With(en, h, xf).hw = h /\ With(en, h, xf).xfer = xf
BY DEF With

(* What the functions make of the engine, the core and the transfers.      *)
StatusRead(en, h) == [en EXCEPT !.status = StatusOf(h)]
Halted(en)        == [en EXCEPT !.running = FALSE]
Without(en, m)    == [en EXCEPT !.list = Tail(en.list), !.dequeued = (en.dequeued + m) % Word]
Begun(en, h)      == [en EXCEPT !.running = TRUE, !.shutdown = FALSE, !.dequeued = 0,
                                !.status = StatusOf(h)]
NoCount(h)        == [h EXCEPT !.wb = 0, !.wbErr = FALSE]
Marked(xf, x, r)  == [xf EXCEPT ![x].state = r]

LEMMA StateParts == State.engine = engine /\ State.hw = hw /\ State.xfer = xfer
BY DEF State, With

LEMMA ReadStatusIs ==
  ASSUME NEW en, NEW h, NEW xf
  PROVE  ReadStatus(With(en, h, xf)) = With(StatusRead(en, h), Cleared(h), xf)
<1> DEFINE s == With(en, h, xf)
<1>1. s.engine = en /\ s.hw = h /\ s.xfer = xf
  BY Parts
<1> HIDE DEF s
<1>2. ReadStatus(s) = With(StatusRead(en, h), Cleared(h), xf)
  BY <1>1, Zenon DEF ReadStatus, StatusRead
<1>3. QED
  BY <1>2 DEF s

LEMMA ShutdownIs ==
  ASSUME NEW en, NEW h, NEW xf
  PROVE  Shutdown(With(en, h, xf)) = With(Halted(en), Stopped(h), xf)
<1> DEFINE s == With(en, h, xf)
<1>1. s.engine = en /\ s.hw = h /\ s.xfer = xf
  BY Parts
<1> HIDE DEF s
<1>2. Shutdown(s) = With(Halted(en), Stopped(h), xf)
  BY <1>1, Zenon DEF Shutdown, Halted
<1>3. QED
  BY <1>2 DEF s

LEMMA StopIs ==
  ASSUME NEW en, NEW h, NEW xf
  PROVE  Stop(With(en, h, xf)) = With(en, Stopped(h), xf)
<1> DEFINE s == With(en, h, xf)
<1>1. s.engine = en /\ s.hw = h /\ s.xfer = xf
  BY Parts
<1> HIDE DEF s
<1>2. Stop(s) = With(en, Stopped(h), xf)
  BY <1>1, Zenon DEF Stop
<1>3. QED
  BY <1>2 DEF s

LEMMA NoWritebackIs ==
  ASSUME NEW en, NEW h, NEW xf
  PROVE  NoWriteback(With(en, h, xf)) = With(en, NoCount(h), xf)
<1> DEFINE s == With(en, h, xf)
<1>1. s.engine = en /\ s.hw = h /\ s.xfer = xf
  BY Parts
<1> HIDE DEF s
<1>2. NoWriteback(s) = With(en, NoCount(h), xf)
  BY <1>1, Zenon DEF NoWriteback, NoCount
<1>3. QED
  BY <1>2 DEF s

LEMMA DequeueIs ==
  ASSUME NEW en, NEW h, NEW xf, NEW r
  PROVE  Dequeue(With(en, h, xf), r)
           = With(Without(en, xf[Head(en.list)].num), h, Marked(xf, Head(en.list), r))
<1> DEFINE s == With(en, h, xf)
<1>1. s.engine = en /\ s.hw = h /\ s.xfer = xf
  BY Parts
<1> HIDE DEF s
<1>2. Dequeue(s, r) = With(Without(en, xf[Head(en.list)].num), h, Marked(xf, Head(en.list), r))
  BY <1>1, Zenon DEF Dequeue, Without, Marked
<1>3. QED
  BY <1>2 DEF s

LEMMA StartIs ==
  ASSUME NEW en, NEW h, NEW xf
  PROVE  Start(With(en, h, xf))
           = With(Begun(en, RunFrom(h, xf[Head(en.list)].first)),
                  RunFrom(h, xf[Head(en.list)].first), xf)
<1> DEFINE s == With(en, h, xf)
<1>1. s.engine = en /\ s.hw = h /\ s.xfer = xf
  BY Parts
<1> HIDE DEF s
<1>2. Start(s) = With(Begun(en, RunFrom(h, xf[Head(en.list)].first)),
                      RunFrom(h, xf[Head(en.list)].first), xf)
  BY <1>1, Zenon DEF Start, Begun
<1>3. QED
  BY <1>2 DEF s

(* Their fields.                                                           *)
LEMMA CoreParts ==
  ASSUME NEW h \in Cores
  PROVE  /\ StatusOf(h) \in [busy : BOOLEAN, err : BOOLEAN]
         /\ StatusOf(h).busy = h.busy /\ StatusOf(h).err = h.err
         /\ Cleared(h) \in Cores /\ Cleared(h).run = h.run /\ Cleared(h).busy = h.busy
         /\ Cleared(h).next = h.next /\ Cleared(h).count = h.count /\ ~Cleared(h).event
         /\ ~Cleared(h).err /\ Cleared(h).enabled = h.enabled /\ Cleared(h).wb = h.wb
         /\ Cleared(h).wbErr = h.wbErr
BY DEF Cores, Cleared, StatusOf

LEMMA StoppedParts ==
  ASSUME NEW h \in Cores
  PROVE  /\ Stopped(h) \in Cores /\ ~Stopped(h).run /\ Stopped(h).busy = h.busy
         /\ Stopped(h).next = h.next /\ Stopped(h).count = h.count /\ Stopped(h).event = h.event
         /\ Stopped(h).err = h.err /\ Stopped(h).enabled = h.enabled /\ Stopped(h).wb = h.wb
         /\ Stopped(h).wbErr = h.wbErr
BY DEF Cores, Stopped

LEMMA NoCountParts ==
  ASSUME NEW h \in Cores
  PROVE  /\ NoCount(h) \in Cores /\ NoCount(h).run = h.run /\ NoCount(h).busy = h.busy
         /\ NoCount(h).next = h.next /\ NoCount(h).count = h.count /\ NoCount(h).event = h.event
         /\ NoCount(h).err = h.err /\ NoCount(h).enabled = h.enabled /\ NoCount(h).wb = 0
         /\ ~NoCount(h).wbErr
BY DEF Cores, NoCount

LEMMA RunParts ==
  ASSUME NEW h \in Cores, NEW i \in Ring, ~h.run
  PROVE  LET g == RunFrom(h, i)
         IN /\ g \in Cores /\ g.run /\ g.busy /\ g.next = i /\ g.count = 0 /\ g.event = h.event
            /\ g.err = h.err /\ g.enabled = h.enabled /\ g.wb = h.wb /\ g.wbErr = h.wbErr
<1>1. 0 \in 0..MaxDesc
  BY XdmaAssumption
<1>2. QED
  BY <1>1 DEF Cores, RunFrom

LEMMA StatusReadParts ==
  ASSUME NEW en \in Engines, NEW h \in Cores
  PROVE  /\ StatusRead(en, h) \in Engines /\ StatusRead(en, h).list = en.list
         /\ StatusRead(en, h).running = en.running /\ StatusRead(en, h).shutdown = en.shutdown
         /\ StatusRead(en, h).dequeued = en.dequeued
         /\ StatusRead(en, h).status.busy = h.busy /\ StatusRead(en, h).status.err = h.err
BY CoreParts DEF Engines, StatusRead

LEMMA HaltedParts ==
  ASSUME NEW en \in Engines
  PROVE  /\ Halted(en) \in Engines /\ Halted(en).list = en.list /\ ~Halted(en).running
         /\ Halted(en).shutdown = en.shutdown /\ Halted(en).dequeued = en.dequeued
         /\ Halted(en).status = en.status
BY DEF Engines, Halted

LEMMA BegunParts ==
  ASSUME NEW en \in Engines, NEW h \in Cores
  PROVE  /\ Begun(en, h) \in Engines /\ Begun(en, h).list = en.list /\ Begun(en, h).running
         /\ ~Begun(en, h).shutdown /\ Begun(en, h).dequeued = 0
         /\ Begun(en, h).status.busy = h.busy /\ Begun(en, h).status.err = h.err
<1>1. StatusOf(h) \in [busy : BOOLEAN, err : BOOLEAN] /\ StatusOf(h).busy = h.busy /\ StatusOf(h).err = h.err
  BY CoreParts
<1>2. 0 \in 0..(Word - 1)
  BY XdmaAssumption DEF Word
<1>3. QED
  BY <1>1, <1>2 DEF Engines, Begun

LEMMA WithoutParts ==
  ASSUME NEW en \in Engines, NEW m \in Nat, en.list # <<>>
  PROVE  /\ Without(en, m) \in Engines /\ Without(en, m).list = Tail(en.list)
         /\ Without(en, m).running = en.running /\ Without(en, m).shutdown = en.shutdown
         /\ Without(en, m).status = en.status
<1>1. en.list \in Seq(Transfer) /\ en.dequeued \in Nat
  BY XdmaAssumption DEF Engines, Word
<1>2. Tail(en.list) \in Seq(Transfer)
  BY <1>1, HeadTailProperties
<1>3. (en.dequeued + m) % Word \in 0..(Word - 1)
  BY <1>1, XdmaAssumption DEF Word
<1>4. QED
  BY <1>2, <1>3 DEF Engines, Without

LEMMA MarkedParts ==
  ASSUME NEW xf \in [Transfer -> Transfers], NEW x \in Transfer, NEW r \in States
  PROVE  /\ Marked(xf, x, r) \in [Transfer -> Transfers] /\ Marked(xf, x, r)[x].state = r
         /\ \A y \in Transfer : /\ Marked(xf, x, r)[y].first = xf[y].first
                                /\ Marked(xf, x, r)[y].num = xf[y].num
                                /\ y # x => Marked(xf, x, r)[y] = xf[y]
BY DEF Marked, Transfers

(* The head leaves a queue: carried out, or failed.                        *)
LEMMA FinalOne ==
  ASSUME NEW en \in Engines, NEW h \in Cores, NEW xf, NEW n \in Nat,
         en.list # <<>>, xf[Head(en.list)].num \in Nat, ~h.busy, ~h.err, ~h.run
  PROVE  \E en1 \in Engines, h1 \in Cores :
           /\ ServiceFinal(With(en, h, xf), n)
                = With(en1, h1, Marked(xf, Head(en.list),
                    IF en.status.err \/ n < xf[Head(en.list)].num THEN "FAILED" ELSE "COMPLETED"))
           /\ en1.list = Tail(en.list) /\ en1.running = en.running /\ en1.shutdown = en.shutdown
           /\ ~h1.busy /\ ~h1.err /\ ~h1.run /\ h1.enabled = h.enabled
           /\ h1.wb = h.wb /\ h1.wbErr = h.wbErr /\ h1.event = h.event
<1> DEFINE x == Head(en.list)
           s == With(en, h, xf)
           en1 == Without(en, xf[x].num)
           r == IF en.status.err \/ n < xf[x].num THEN "FAILED" ELSE "COMPLETED"
<1>1. s.engine = en /\ s.xfer = xf
  BY Parts
<1>2. /\ en1 \in Engines /\ en1.list = Tail(en.list) /\ en1.running = en.running
      /\ en1.shutdown = en.shutdown
  BY WithoutParts
<1>3. CASE en.status.err
  <2> DEFINE h1 == Stopped(h)
  <2>1. Stop(s) = With(en, h1, xf)
    BY StopIs
  <2>2. Dequeue(With(en, h1, xf), "FAILED") = With(en1, h1, Marked(xf, x, "FAILED"))
    BY DequeueIs
  <2>3. /\ h1 \in Cores /\ ~h1.busy /\ ~h1.err /\ ~h1.run /\ h1.enabled = h.enabled
        /\ h1.wb = h.wb /\ h1.wbErr = h.wbErr /\ h1.event = h.event
    BY StoppedParts
  <2> HIDE DEF s, h1, en1
  <2>4. ServiceFinal(s, n) = Dequeue(Stop(s), "FAILED")
    BY <1>1, <1>3 DEF ServiceFinal
  <2>5. ServiceFinal(s, n) = With(en1, h1, Marked(xf, x, r))
    BY <1>3, <2>1, <2>2, <2>4
  <2>6. QED
    BY <1>2, <2>3, <2>5 DEF s
<1>4. CASE ~en.status.err
  <2>1. Dequeue(s, r) = With(en1, h, Marked(xf, x, r))
    BY DequeueIs
  <2> HIDE DEF s, en1
  <2>2. ServiceFinal(s, n) = Dequeue(s, r)
    BY <1>1, <1>4 DEF ServiceFinal
  <2>3. ServiceFinal(s, n) = With(en1, h, Marked(xf, x, r))
    BY <2>1, <2>2
  <2>4. QED
    BY <1>2, <2>3 DEF s
<1>5. QED
  BY <1>3, <1>4

(* The engine is started on what is queued.                                *)
LEMMA ResumeOne ==
  ASSUME NEW en \in Engines, NEW h \in Cores, NEW xf, ~en.running, ~h.run, ~h.busy,
         en.list # <<>> => xf[Head(en.list)].first \in Ring
  PROVE  \E en1 \in Engines, h1 \in Cores :
           /\ Resume(With(en, h, xf)) = With(en1, h1, xf)
           /\ en1.list = en.list /\ en1.running = (en.list # <<>>)
           /\ (~en.shutdown => ~en1.shutdown)
           /\ h1.err = h.err /\ h1.enabled = h.enabled /\ h1.wb = h.wb
           /\ h1.wbErr = h.wbErr /\ h1.event = h.event
           /\ IF en.list = <<>> THEN ~h1.run /\ ~h1.busy
              ELSE /\ h1.run /\ h1.busy /\ h1.next = xf[Head(en.list)].first /\ h1.count = 0
                   /\ en1.dequeued = 0 /\ en1.status.err = h.err
<1> DEFINE s == With(en, h, xf)
           i == xf[Head(en.list)].first
<1>1. s.engine = en
  BY Parts
<1>2. CASE en.list = <<>>
  <2> HIDE DEF s
  <2>1. Resume(s) = s
    BY <1>1, <1>2 DEF Resume
  <2>2. en.running = (en.list # <<>>)
    BY <1>2 DEF Engines
  <2>3. QED
    BY <1>2, <2>1, <2>2 DEF s
<1>3. CASE en.list # <<>>
  <2> DEFINE h1 == RunFrom(h, i)
             en1 == Begun(en, h1)
  <2>1. Start(s) = With(en1, h1, xf)
    BY StartIs
  <2> HIDE DEF s
  <2>2. Resume(s) = Start(s)
    BY <1>1, <1>3 DEF Resume
  <2>3. i \in Ring
    BY <1>3
  <2> HIDE DEF i
  <2>4. /\ h1 \in Cores /\ h1.run /\ h1.busy /\ h1.next = i /\ h1.count = 0 /\ h1.event = h.event
        /\ h1.err = h.err /\ h1.enabled = h.enabled /\ h1.wb = h.wb /\ h1.wbErr = h.wbErr
    BY <2>3, RunParts
  <2> HIDE DEF h1
  <2>5. /\ en1 \in Engines /\ en1.list = en.list /\ en1.running /\ ~en1.shutdown
        /\ en1.dequeued = 0 /\ en1.status.err = h1.err
    BY <2>4, BegunParts
  <2> HIDE DEF en1
  <2>6. en1.running = (en.list # <<>>)
    BY <1>3, <2>5 DEF Engines
  <2>7. QED
    BY <1>3, <2>1, <2>2, <2>4, <2>5, <2>6 DEF s, i
<1>4. QED
  BY <1>2, <1>3

(* What becomes of the head of the queue, once the core is done with it    *)
(* (wb is the count of the writeback, zero for an interrupt)...            *)
Outcome(wb) ==
  IF hw.err \/ (IF wb = 0 THEN hw.count ELSE wb) < xfer[Head(engine.list)].num
  THEN "FAILED" ELSE "COMPLETED"

(* ... and what the engine and the core are then.                          *)
Begins(en, h, wb) ==
  /\ en.list = Tail(engine.list) /\ en.running = (Tail(engine.list) # <<>>) /\ ~en.shutdown
  /\ ~h.err /\ h.enabled = hw.enabled /\ (wb = 0 => ~h.event)
  /\ h.wb = (IF poll_mode THEN 0 ELSE hw.wb)
  /\ h.wbErr = (IF poll_mode THEN FALSE ELSE hw.wbErr)
  /\ IF Tail(engine.list) = <<>> THEN ~h.run /\ ~h.busy
     ELSE /\ h.run /\ h.busy /\ h.next = xfer[Head(Tail(engine.list))].first /\ h.count = 0
          /\ en.dequeued = 0 /\ ~en.status.err

(* The service of a queue whose head has been carried out, or has failed:  *)
(* the head leaves it, and the engine is started on the next.              *)
LEMMA ServiceResult ==
  ASSUME engine \in Engines, hw \in Cores, xfer \in [Transfer -> Transfers], poll_mode \in BOOLEAN,
         engine.running, ~engine.shutdown, engine.list # <<>>, engine.dequeued = 0,
         ~hw.busy, NEW wb \in Nat, NEW e, e = TRUE \/ e = FALSE,
         hw.count <= xfer[Head(engine.list)].num, wb <= xfer[Head(engine.list)].num,
         wb # 0 /\ e = FALSE => ~engine.status.err /\ ~hw.err
  PROVE  \E en \in Engines, h \in Cores :
            /\ Service(State, wb, e) = With(en, h, Marked(xfer, Head(engine.list), Outcome(wb)))
            /\ Begins(en, h, wb)
<1> DEFINE x == Head(engine.list)
           l == Tail(engine.list)
           reads == wb = 0 \/ e
           read  == IF wb = 0 \/ e THEN ReadStatus(State) ELSE State
           quiet == IF ~read.engine.status.busy \/ wb # 0 THEN Shutdown(read) ELSE read
           count == IF wb = 0 THEN quiet.hw.count ELSE wb
           rest  == ServiceList(quiet, (count - quiet.engine.dequeued) % Word)
           final == ServiceFinal(rest.s, rest.n)
           done  == IF poll_mode THEN NoWriteback(final) ELSE final
           n == IF wb = 0 THEN hw.count ELSE wb
           r == IF hw.err \/ n < xfer[x].num THEN "FAILED" ELSE "COMPLETED"
           xf == Marked(xfer, x, r)
<1>1. /\ engine.list \in Seq(Transfer) /\ x \in Transfer /\ l \in Seq(Transfer)
      /\ xfer[x].num \in 0..MaxDesc
  <2>1. engine.list \in Seq(Transfer)
    BY DEF Engines
  <2>2. x \in Transfer /\ l \in Seq(Transfer)
    BY <2>1, HeadTailProperties
  <2>3. QED
    BY <2>1, <2>2 DEF Transfers
<1>2. MaxDesc \in Nat \ {0} /\ Word = 4 * MaxDesc /\ n \in 0..MaxDesc
  BY <1>1, XdmaAssumption DEF Word, Cores
<1>3. Service(State, wb, e) = Resume(done)
  <2>1. State.engine.running
    BY StateParts
  <2>2. QED
    BY <2>1 DEF Service
<1>4. PICK en1 \in Engines, h1 \in Cores :
        /\ read = With(en1, h1, xfer)
        /\ en1.list = engine.list /\ en1.running = engine.running /\ en1.shutdown = engine.shutdown
        /\ en1.dequeued = engine.dequeued /\ en1.status.err = hw.err /\ (reads => ~en1.status.busy)
        /\ ~h1.busy /\ ~h1.err /\ h1.count = hw.count /\ h1.enabled = hw.enabled
        /\ h1.wb = hw.wb /\ h1.wbErr = hw.wbErr /\ (reads => ~h1.event)
  <2>1. State = With(engine, hw, xfer)
    BY DEF State
  <2>2. CASE reads
    <3> DEFINE e1 == StatusRead(engine, hw)
               g1 == Cleared(hw)
    <3>1. read = With(e1, g1, xfer)
      BY <2>1, <2>2, ReadStatusIs
    <3>2. /\ e1 \in Engines /\ e1.list = engine.list /\ e1.running = engine.running
          /\ e1.shutdown = engine.shutdown /\ e1.dequeued = engine.dequeued
          /\ e1.status.busy = hw.busy /\ e1.status.err = hw.err
      BY StatusReadParts
    <3>3. /\ g1 \in Cores /\ g1.busy = hw.busy /\ ~g1.err /\ g1.count = hw.count
          /\ g1.enabled = hw.enabled /\ g1.wb = hw.wb /\ g1.wbErr = hw.wbErr /\ ~g1.event
      BY CoreParts
    <3> HIDE DEF read, reads, e1, g1
    <3>4. QED
      BY <3>1, <3>2, <3>3
  <2>3. CASE ~reads
    <3>1. read = With(engine, hw, xfer) /\ ~engine.status.err /\ ~hw.err
      BY <2>1, <2>3
    <3>2. engine.status.err = hw.err
      BY <3>1 DEF Engines, Cores
    <3> HIDE DEF read, reads
    <3>3. QED
      BY <2>3, <3>1, <3>2
  <2>4. QED
    BY <2>2, <2>3
<1>5. PICK en2 \in Engines, h2 \in Cores :
        /\ quiet = With(en2, h2, xfer)
        /\ en2.list = engine.list /\ ~en2.running /\ ~en2.shutdown
        /\ en2.dequeued = 0 /\ en2.status.err = hw.err
        /\ ~h2.busy /\ ~h2.err /\ ~h2.run /\ h2.count = hw.count /\ h2.enabled = hw.enabled
        /\ h2.wb = hw.wb /\ h2.wbErr = hw.wbErr /\ (reads => ~h2.event)
  <2> HIDE DEF read
  <2>1. ~read.engine.status.busy \/ wb # 0
    BY <1>4, Parts
  <2>2. quiet = Shutdown(With(en1, h1, xfer))
    BY <1>4, <2>1
  <2>3. quiet = With(Halted(en1), Stopped(h1), xfer)
    BY <2>2, ShutdownIs
  <2>4. /\ Halted(en1) \in Engines /\ Halted(en1).list = engine.list /\ ~Halted(en1).running
        /\ ~Halted(en1).shutdown /\ Halted(en1).dequeued = 0 /\ Halted(en1).status.err = hw.err
    BY <1>4, HaltedParts
  <2>5. /\ Stopped(h1) \in Cores /\ ~Stopped(h1).run /\ ~Stopped(h1).busy /\ ~Stopped(h1).err
        /\ Stopped(h1).count = hw.count /\ Stopped(h1).enabled = hw.enabled
        /\ Stopped(h1).wb = hw.wb /\ Stopped(h1).wbErr = hw.wbErr /\ (reads => ~Stopped(h1).event)
    BY <1>4, StoppedParts
  <2> HIDE DEF quiet, reads
  <2>6. QED
    BY <2>3, <2>4, <2>5
<1> HIDE DEF read, reads
<1>6. final = ServiceFinal(With(en2, h2, xfer), n)
  <2> HIDE DEF quiet
  <2>1. quiet.hw = h2 /\ quiet.engine = en2 /\ quiet.xfer = xfer
    BY <1>5, Parts
  <2>2. count = n /\ (count - quiet.engine.dequeued) % Word = n
    <3>1. count = n
      BY <2>1, <1>5
    <3>2. quiet.engine.dequeued = 0
      BY <2>1, <1>5
    <3> HIDE DEF n, count
    <3>3. (n - 0) % Word = n
      BY <1>2
    <3>4. QED
      BY <3>1, <3>2, <3>3
  <2> HIDE DEF count, n
  <2>3. ServiceList(quiet, n) = [s |-> quiet, n |-> n]
    <3>1. quiet.engine.list \in Seq(Transfer) /\ quiet.xfer[Head(quiet.engine.list)].num = xfer[x].num
      BY <1>1, <1>5, <2>1
    <3>2. ~(n > quiet.xfer[Head(quiet.engine.list)].num)
      <4>1. n <= xfer[x].num
        BY DEF n
      <4>2. QED
        BY <1>1, <1>2, <3>1, <4>1
    <3>3. QED
      BY <3>1, <3>2, ServiceListStays
  <2>4. rest = [s |-> quiet, n |-> n]
    BY <2>2, <2>3
  <2> HIDE DEF rest
  <2>5. QED
    BY <2>4, <1>5
<1> HIDE DEF quiet, count, rest
<1>7. PICK en3 \in Engines, h3 \in Cores :
        /\ final = With(en3, h3, xf)
        /\ en3.list = l /\ ~en3.running /\ ~en3.shutdown
        /\ ~h3.busy /\ ~h3.err /\ ~h3.run /\ h3.enabled = hw.enabled
        /\ h3.wb = hw.wb /\ h3.wbErr = hw.wbErr /\ (reads => ~h3.event)
  <2> HIDE DEF final, n
  <2>1. PICK en3 \in Engines, h3 \in Cores :
           /\ ServiceFinal(With(en2, h2, xfer), n)
                = With(en3, h3, Marked(xfer, Head(en2.list),
                    IF en2.status.err \/ n < xfer[Head(en2.list)].num THEN "FAILED" ELSE "COMPLETED"))
           /\ en3.list = Tail(en2.list) /\ en3.running = en2.running /\ en3.shutdown = en2.shutdown
           /\ ~h3.busy /\ ~h3.err /\ ~h3.run /\ h3.enabled = h2.enabled
           /\ h3.wb = h2.wb /\ h3.wbErr = h2.wbErr /\ h3.event = h2.event
    <3>1. n \in Nat /\ en2.list # <<>> /\ xfer[Head(en2.list)].num \in Nat
      BY <1>1, <1>2, <1>5
    <3>2. QED
      BY <1>5, <3>1, FinalOne
  <2>2. final = With(en3, h3, xf)
    BY <1>5, <1>6, <2>1
  <2> HIDE DEF xf
  <2>3. QED
    BY <1>5, <2>1, <2>2
<1>8. PICK h4 \in Cores :
        /\ done = With(en3, h4, xf)
        /\ ~h4.busy /\ ~h4.err /\ ~h4.run /\ h4.enabled = hw.enabled
        /\ h4.wb = (IF poll_mode THEN 0 ELSE hw.wb)
        /\ h4.wbErr = (IF poll_mode THEN FALSE ELSE hw.wbErr) /\ (reads => ~h4.event)
  <2> HIDE DEF final, xf
  <2>1. CASE poll_mode
    <3>1. done = With(en3, NoCount(h3), xf)
      BY <1>7, <2>1, NoWritebackIs
    <3>2. /\ NoCount(h3) \in Cores /\ ~NoCount(h3).run /\ ~NoCount(h3).busy /\ ~NoCount(h3).err
          /\ NoCount(h3).enabled = hw.enabled /\ NoCount(h3).wb = 0 /\ ~NoCount(h3).wbErr
          /\ (reads => ~NoCount(h3).event)
      BY <1>7, NoCountParts
    <3>3. NoCount(h3).wbErr = FALSE
      BY <3>2 DEF Cores
    <3> HIDE DEF done
    <3>4. QED
      BY <2>1, <3>1, <3>2, <3>3
  <2>2. CASE ~poll_mode
    <3>1. done = With(en3, h3, xf)
      BY <1>7, <2>2
    <3> HIDE DEF done
    <3>2. QED
      BY <2>2, <3>1, <1>7
  <2>3. QED
    BY <2>1, <2>2
<1> HIDE DEF final, done
<1>9. l # <<>> => xf[Head(l)].first = xfer[Head(l)].first /\ xfer[Head(l)].first \in Ring
  <2>1. SUFFICES ASSUME l # <<>> PROVE xf[Head(l)].first = xfer[Head(l)].first /\ xfer[Head(l)].first \in Ring
    OBVIOUS
  <2>2. Head(l) \in Transfer
    BY <1>1, <2>1, HeadTailProperties
  <2>3. r \in States
    BY DEF States
  <2> HIDE DEF r
  <2>4. xf[Head(l)].first = xfer[Head(l)].first
    BY <1>1, <2>2, <2>3, MarkedParts
  <2>5. xfer[Head(l)].first \in Ring
    BY <2>2 DEF Transfers
  <2>6. QED
    BY <2>4, <2>5
<1> HIDE DEF xf
<1>10. PICK en5 \in Engines, h5 \in Cores :
        /\ Resume(With(en3, h4, xf)) = With(en5, h5, xf)
        /\ en5.list = en3.list /\ en5.running = (en3.list # <<>>)
        /\ (~en3.shutdown => ~en5.shutdown)
        /\ h5.err = h4.err /\ h5.enabled = h4.enabled /\ h5.wb = h4.wb
        /\ h5.wbErr = h4.wbErr /\ h5.event = h4.event
        /\ IF en3.list = <<>> THEN ~h5.run /\ ~h5.busy
           ELSE /\ h5.run /\ h5.busy /\ h5.next = xf[Head(en3.list)].first /\ h5.count = 0
                /\ en5.dequeued = 0 /\ en5.status.err = h4.err
  <2>1. en3.list # <<>> => xf[Head(en3.list)].first \in Ring
    BY <1>7, <1>9
  <2>2. ~en3.running /\ ~h4.run /\ ~h4.busy
    BY <1>7, <1>8
  <2>3. QED
    BY <2>1, <2>2, ResumeOne
<1>11. Service(State, wb, e) = With(en5, h5, xf)
  BY <1>3, <1>8, <1>10
<1> HIDE DEF l
<1>12. /\ en5.list = l /\ en5.running = (l # <<>>) /\ ~en5.shutdown
       /\ ~h5.err /\ h5.enabled = hw.enabled
       /\ (reads => ~h5.event)
       /\ h5.wb = (IF poll_mode THEN 0 ELSE hw.wb)
       /\ h5.wbErr = (IF poll_mode THEN FALSE ELSE hw.wbErr)
       /\ IF l = <<>> THEN ~h5.run /\ ~h5.busy
          ELSE /\ h5.run /\ h5.busy /\ h5.next = xfer[Head(l)].first /\ h5.count = 0
               /\ en5.dequeued = 0 /\ ~en5.status.err
  BY <1>7, <1>8, <1>9, <1>10
<1>13. QED
  <2>1. r = Outcome(wb)
    BY DEF r, n, Outcome
  <2>2. Begins(en5, h5, wb)
    BY <1>12 DEF Begins, reads, l
  <2> HIDE DEF r
  <2>3. QED
    BY <1>11, <2>1, <2>2 DEF xf

-----------------------------------------------------------------------------
(* Facts of every state of the invariant.                                  *)
LEMMA Ranges ==
  /\ MaxDesc \in Nat \ {0} /\ Word = 4 * MaxDesc /\ Word \in Nat
  /\ MaxRequest \in 1..MaxDesc /\ NoClient \notin Clients
BY XdmaAssumption DEF Word

LEMMA TransferParts ==
  /\ \A x \in Transfer : x[1] \in Clients /\ x[2] \in {0, 1} /\ x = <<x[1], x[2]>>
                         /\ (x = <<x[1], 0>> \/ x = <<x[1], 1>>)
  /\ \A c \in Clients : <<c, 0>> \in Transfer /\ <<c, 1>> \in Transfer
BY DEF Transfer

LEMMA TypeFacts ==
  ASSUME Types
  PROVE  /\ engine \in Engines /\ hw \in Cores /\ xfer \in [Transfer -> Transfers]
         /\ engine.list \in Seq(Transfer) /\ poll_mode \in BOOLEAN
         /\ client \in [Clients -> CallRecords]
         /\ \A x \in Transfer : /\ xfer[x].first \in Ring /\ xfer[x].num \in 0..MaxDesc
                                /\ xfer[x].state \in States
         /\ \A c \in Clients : /\ Current(c) \in Transfer /\ LastOf(c) = Current(c)
                               /\ Current(c) = <<c, client[c].tfer>> /\ client[c].tfer \in {0, 1}
<1>1. /\ engine \in Engines /\ hw \in Cores /\ xfer \in [Transfer -> Transfers]
      /\ client \in [Clients -> CallRecords]
  BY DEF Types
<1>2. engine.list \in Seq(Transfer)
  BY <1>1 DEF Engines
<1>3. poll_mode \in BOOLEAN
  BY XdmaAssumption DEF Types
<1>4. ASSUME NEW x \in Transfer
      PROVE  xfer[x].first \in Ring /\ xfer[x].num \in 0..MaxDesc /\ xfer[x].state \in States
  BY <1>1, <1>4 DEF Transfers
<1>5. ASSUME NEW c \in Clients
      PROVE  /\ Current(c) \in Transfer /\ LastOf(c) = Current(c)
             /\ Current(c) = <<c, client[c].tfer>> /\ client[c].tfer \in {0, 1}
  BY <1>1, <1>5 DEF CallRecords, Current, LastOf, Transfer
<1>6. QED
  BY <1>1, <1>2, <1>3, <1>4, <1>5

(* No caller is lost while no wait ends early.                             *)
LEMMA AllocatedIs ==
  ASSUME Types, NEW x \in Transfer
  PROVE  Allocated(x) <=> client[x[1]].pc \notin {"idle", "lock", "over"}
<1>1. x[1] \in Clients
  BY TransferParts
<1>2. client[x[1]].pc \in Labels
  BY <1>1 DEF Types, CallRecords
<1>3. QED
  BY <1>2 DEF Allocated, Labels

(* A transfer that waits has its memory, and its descriptors.              *)
LEMMA WaitingFacts ==
  ASSUME Types, Calls, Queue, Descriptors, NEW x \in Transfer, Waiting(x)
  PROVE  Allocated(x) /\ xfer[x].num > 0 /\ Owns(x)
<1> DEFINE c == x[1]
<1>1. c \in Clients /\ (x = <<c, 0>> \/ x = <<c, 1>>)
  BY TransferParts
<1>2. CallAt(c)
  BY <1>1 DEF Calls
<1>3. xfer[x].state # "NEW" /\ xfer[x].state = "SUBMITTED"
  BY DEF Waiting
<1>4. xfer[x] # NoTransfer
  BY <1>3 DEF NoTransfer
<1> HIDE DEF c
<1>5. client[c].pc \notin {"idle", "lock", "over"}
  BY <1>1, <1>2, <1>3, <1>4 DEF CallAt, Waiting
<1>6. Allocated(x)
  BY <1>5, AllocatedIs DEF c
<1>7. xfer[x].num > 0
  BY DEF Queue
<1>8. Owns(x)
  BY <1>3, <1>6 DEF Descriptors
<1>9. QED
  BY <1>6, <1>7, <1>8

(* The head of the queue.                                                  *)
LEMMA HeadFacts ==
  ASSUME Types, Calls, Queue, Descriptors, engine.list # <<>>
  PROVE  LET x == Head(engine.list)
         IN /\ x \in Transfer /\ Waiting(x) /\ Allocated(x) /\ Owns(x) /\ xfer[x].num \in 1..MaxDesc
            /\ Len(engine.list) \in Nat /\ 1 \in 1..Len(engine.list) /\ x = engine.list[1]
<1> DEFINE x == Head(engine.list)
<1>1. engine.list \in Seq(Transfer)
  BY TypeFacts
<1>2. x \in Transfer /\ Len(engine.list) \in Nat /\ 1 \in 1..Len(engine.list) /\ x = engine.list[1]
  BY <1>1, LenProperties, HeadTailProperties, EmptySeq
<1> HIDE DEF x
<1>3. Waiting(x)
  BY <1>2 DEF Queue
<1>4. Allocated(x) /\ xfer[x].num > 0 /\ Owns(x)
  BY <1>2, <1>3, WaitingFacts
<1>5. xfer[x].num \in 1..MaxDesc
  BY <1>2, <1>4, TypeFacts, Ranges
<1>6. QED
  BY <1>2, <1>3, <1>4, <1>5 DEF x

-----------------------------------------------------------------------------
(* The core.                                                               *)
LEMMA BusyFacts ==
  ASSUME Inv, hw.busy
  PROVE  LET x == Head(engine.list)
         IN /\ engine.list # <<>> /\ x \in Transfer /\ Waiting(x) /\ Allocated(x) /\ Serving(x)
            /\ desc[hw.next] = [xfer |-> x, last |-> hw.count + 1 = xfer[x].num]
            /\ hw.count < xfer[x].num /\ xfer[x].num \in 1..MaxDesc /\ hw.count \in Nat
            /\ hw.next = xfer[x].first + hw.count /\ hw.next + 1 <= MaxDesc
            /\ (hw.count + 1 < xfer[x].num => hw.next + 1 < MaxDesc)
            /\ \A c \in Clients : client[c].pc # "service"
            /\ (~poll_mode => ~hw.event /\ ~work)
<1> DEFINE x == Head(engine.list)
<1>1. engine.list # <<>>
  BY DEF Inv, Core
<1>2. x \in Transfer /\ Waiting(x) /\ Allocated(x) /\ Owns(x) /\ xfer[x].num \in 1..MaxDesc
  BY <1>1, HeadFacts DEF Inv
<1>3. Serving(x)
  BY <1>1 DEF Inv, Core
<1> HIDE DEF x
<1>4. hw.count < xfer[x].num /\ hw.next = xfer[x].first + hw.count
  BY <1>3 DEF Serving
<1>5. hw.count \in Nat /\ xfer[x].first \in 0..(MaxDesc - 1) /\ xfer[x].first + xfer[x].num <= MaxDesc
  <2>1. hw.count \in Nat
    BY TypeFacts DEF Inv, Cores
  <2>2. xfer[x].first \in Ring /\ xfer[x].first + xfer[x].num <= MaxDesc
    BY <1>2, TypeFacts DEF Inv, Types
  <2>3. QED
    BY <2>1, <2>2 DEF Ring
<1>6. desc[hw.next] = [xfer |-> x, last |-> hw.count + 1 = xfer[x].num]
  <2>1. hw.next \in xfer[x].first..(xfer[x].first + xfer[x].num - 1)
    BY <1>2, <1>4, <1>5, Ranges
  <2>2. desc[hw.next] = [xfer |-> x, last |-> hw.next = xfer[x].first + xfer[x].num - 1]
    BY <1>2, <2>1 DEF Owns
  <2>3. (hw.next = xfer[x].first + xfer[x].num - 1) = (hw.count + 1 = xfer[x].num)
    BY <1>2, <1>4, <1>5, Ranges
  <2>4. QED
    BY <2>2, <2>3
<1>7. hw.next + 1 <= MaxDesc /\ (hw.count + 1 < xfer[x].num => hw.next + 1 < MaxDesc)
  BY <1>2, <1>4, <1>5, Ranges
<1>8. /\ \A c \in Clients : client[c].pc # "service"
      /\ ~poll_mode => ~hw.event /\ ~work
  BY DEF Inv, Core
<1>9. QED
  BY <1>1, <1>2, <1>3, <1>4, <1>5, <1>6, <1>7, <1>8 DEF x

LEMMA HwDescriptorKeeps ==
  ASSUME Inv, HwDescriptor
  PROVE  Inv'
<1> DEFINE x == Head(engine.list)
           d == desc[hw.next]
           last == hw.count + 1 = xfer[x].num
<1>1. /\ hw.busy
      /\ moved' = [moved EXCEPT ![d.xfer] = Lesser(moved[d.xfer] + 1, MaxDesc)]
      /\ UNCHANGED <<poll_mode, power, descLock, desc_idx, desc, engine, xfer, client, work>>
  BY DEF HwDescriptor
<1>2. PICK reports \in {d.last, TRUE} :
        hw' = [hw EXCEPT !.busy = ~d.last, !.event = hw.event \/ d.last,
                         !.next = (hw.next + 1) % MaxDesc, !.count = hw.count + 1,
                         !.wb = IF poll_mode /\ reports THEN hw.count + 1 ELSE hw.wb]
  BY DEF HwDescriptor
<1>3. /\ engine.list # <<>> /\ x \in Transfer /\ Waiting(x) /\ Allocated(x) /\ Serving(x)
      /\ d = [xfer |-> x, last |-> last]
      /\ hw.count < xfer[x].num /\ xfer[x].num \in 1..MaxDesc /\ hw.count \in Nat
      /\ hw.next = xfer[x].first + hw.count /\ hw.next + 1 <= MaxDesc
      /\ (hw.count + 1 < xfer[x].num => hw.next + 1 < MaxDesc)
      /\ \A c \in Clients : client[c].pc # "service"
      /\ (~poll_mode => ~hw.event /\ ~work)
  BY <1>1, BusyFacts
<1>4. d.xfer = x /\ d.last = last
  BY <1>3
<1> HIDE DEF x, d, last
<1>5. (hw.next + 1) % MaxDesc \in Ring /\ (~last => (hw.next + 1) % MaxDesc = hw.next + 1)
  <2>1. hw.next \in 0..(MaxDesc - 1) /\ MaxDesc \in Nat \ {0}
    BY TypeFacts, Ranges DEF Inv, Cores, Ring
  <2>2. (hw.next + 1) % MaxDesc \in Ring
    BY <2>1 DEF Ring
  <2>3. ASSUME ~last PROVE (hw.next + 1) % MaxDesc = hw.next + 1
    <3>1. hw.next + 1 < MaxDesc
      BY <1>3, <2>3, Ranges DEF last
    <3>2. QED
      BY <2>1, <3>1
  <2>4. QED
    BY <2>2, <2>3
<1>6. /\ hw' \in Cores /\ hw'.run = hw.run /\ hw'.busy = ~last /\ hw'.event = (hw.event \/ last)
      /\ hw'.next = (hw.next + 1) % MaxDesc /\ hw'.count = hw.count + 1
      /\ hw'.wb = (IF poll_mode /\ reports THEN hw.count + 1 ELSE hw.wb)
      /\ hw'.err = hw.err /\ hw'.enabled = hw.enabled /\ hw'.wbErr = hw.wbErr
  <2> DEFINE b == IF poll_mode /\ reports THEN hw.count + 1 ELSE hw.wb
             v == hw.event \/ last
             k == (hw.next + 1) % MaxDesc
             q == ~last
  <2>1. hw \in Cores /\ last \in BOOLEAN
    BY TypeFacts DEF Inv, last
  <2>2. b \in Nat /\ v \in BOOLEAN /\ q \in BOOLEAN /\ k \in Ring
        /\ hw.count + 1 \in 0..MaxDesc
    BY <1>3, <1>5, <2>1, Ranges DEF Cores
  <2>3. hw' = [hw EXCEPT !.busy = q, !.event = v, !.next = k, !.count = hw.count + 1, !.wb = b]
    BY <1>2, <1>4
  <2> HIDE DEF b, v, k, q
  <2>4. /\ hw' \in Cores /\ hw'.run = hw.run /\ hw'.busy = q /\ hw'.event = v
        /\ hw'.next = k /\ hw'.count = hw.count + 1 /\ hw'.wb = b
        /\ hw'.err = hw.err /\ hw'.enabled = hw.enabled /\ hw'.wbErr = hw.wbErr
    BY <2>1, <2>2, <2>3 DEF Cores
  <2>5. QED
    BY <2>4 DEF b, v, k, q
<1>7. moved[x] = hw.count /\ hw.err = FALSE /\ hw.run
  BY <1>1, <1>3, TypeFacts DEF Serving, Inv, Cores
<1>8. /\ moved' \in [Transfer -> 0..MaxDesc] /\ moved'[x] = hw.count + 1
      /\ \A y \in Transfer : y # x => moved'[y] = moved[y]
  <2>1. Lesser(moved[x] + 1, MaxDesc) = hw.count + 1 /\ hw.count + 1 \in 0..MaxDesc
    BY <1>3, <1>7, Ranges DEF Lesser
  <2>2. moved \in [Transfer -> 0..MaxDesc]
    BY DEF Inv, Types
  <2>3. QED
    BY <1>1, <1>3, <1>4, <2>1, <2>2
<1>9. Types'
  BY <1>1, <1>6, <1>8 DEF Inv, Types
<1>10. Calls'
  BY <1>1 DEF Inv, Calls, CallAt, Sync, Waiting, Current, LastOf
<1>11. Queue'
  BY <1>1 DEF Inv, Queue, Waiting
<1>12. Descriptors'
  BY <1>1 DEF Inv, Descriptors, Owns, Allocated
<1>13. Serving(x)'
  <2>1. engine.dequeued = 0 /\ (poll_mode => hw.wb <= hw.count /\ hw.wbErr = hw.err /\ ~engine.status.err)
    BY <1>3 DEF Serving
  <2>2. hw.wb \in Nat /\ hw'.wb \in Nat
    BY <1>6, TypeFacts DEF Inv, Cores
  <2>3. poll_mode => hw'.wb <= hw'.count /\ (~hw'.busy => hw'.wb = hw'.count)
    <3>1. last => reports
      BY <1>4
    <3>2. hw'.busy = ~last /\ hw'.count = hw.count + 1
      BY <1>6
    <3>3. CASE poll_mode /\ reports
      <4>1. hw'.wb = hw.count + 1
        BY <1>6, <3>3
      <4>2. QED
        BY <1>3, <3>2, <4>1
    <3>4. CASE poll_mode /\ ~reports
      <4>1. hw'.wb = hw.wb /\ hw'.busy
        BY <1>6, <3>1, <3>2, <3>4
      <4>2. QED
        BY <1>3, <2>1, <2>2, <3>2, <3>4, <4>1
    <3>5. QED
      BY <3>3, <3>4
  <2>4. ~last => hw.count + 1 < xfer[x].num
    BY <1>3, Ranges DEF last
  <2>5. last => hw.count + 1 = xfer[x].num
    BY DEF last
  <2>6. hw'.next = xfer[x].first + hw'.count \/ last
    <3>1. xfer[x].first \in Nat
      BY <1>3, TypeFacts DEF Inv, Ring
    <3>2. QED
      BY <1>3, <1>5, <1>6, <3>1
  <2>7. x' = x
    BY <1>1 DEF x
  <2>8. hw'.count <= xfer[x].num /\ moved'[x] = hw'.count /\ hw'.run /\ ~hw'.err
        /\ (hw'.busy => ~last) /\ (~hw'.busy => last /\ hw'.event)
    <3>1. hw'.busy = ~last /\ hw'.event = (hw.event \/ last) /\ last \in BOOLEAN
      BY <1>6 DEF last
    <3>2. (hw'.busy => ~last) /\ (~hw'.busy => last /\ hw'.event)
      BY <3>1, Zenon
    <3>3. hw'.count <= xfer[x].num
      BY <1>3, <1>6, Ranges
    <3>4. moved'[x] = hw'.count /\ hw'.run /\ ~hw'.err
      BY <1>6, <1>7, <1>8
    <3>5. QED
      BY <3>2, <3>3, <3>4
  <2>9. QED
    BY <1>1, <1>6, <1>7, <2>1, <2>3, <2>4, <2>5, <2>6, <2>7, <2>8 DEF Serving
<1>14. Core'
  <2>1. Head(engine.list)' = x /\ x' = x
    BY <1>1 DEF x
  <2>2. ~poll_mode => hw'.wb = 0 /\ ~hw'.wbErr /\ (hw'.event => ~hw'.busy) /\ ~work /\ hw'.enabled = ~work
    <3>1. ~poll_mode => hw.wb = 0 /\ ~hw.wbErr /\ hw.enabled = ~work
      BY DEF Inv, Core
    <3>2. QED
      BY <1>3, <1>6, <3>1
  <2>3. power = "on" /\ ~engine.shutdown /\ engine.running = (engine.list # <<>>) /\ (poll_mode => ~work)
    BY DEF Inv, Core
  <2>4. QED
    BY <1>1, <1>3, <1>13, <2>1, <2>2, <2>3 DEF Core
<1>15. Carried'
  <2>1. x = Head(engine.list) /\ xfer[x].state = "SUBMITTED"
    BY <1>3 DEF x, Waiting
  <2>2. Carried
    BY DEF Inv
  <2>3. QED
    BY <1>1, <1>8, <2>1, <2>2 DEF Carried, CompletedMeansMoved, Waiting
<1>16. QED
  BY <1>9, <1>10, <1>11, <1>12, <1>14, <1>15 DEF Inv

LEMMA HwErrorKeeps ==
  ASSUME Inv, HwError
  PROVE  Inv'
<1> DEFINE x == Head(engine.list)
<1>1. /\ hw.busy
      /\ hw' = [hw EXCEPT !.busy = FALSE, !.event = TRUE, !.err = TRUE, !.wbErr = poll_mode]
      /\ UNCHANGED <<poll_mode, power, descLock, desc_idx, desc, engine, xfer, client, work, moved>>
  BY DEF HwError
<1>2. /\ engine.list # <<>> /\ Serving(x) /\ \A c \in Clients : client[c].pc # "service"
      /\ (~poll_mode => ~hw.event /\ ~work)
  BY <1>1, BusyFacts
<1> HIDE DEF x
<1>3. /\ hw' \in Cores /\ hw'.run = hw.run /\ ~hw'.busy /\ hw'.event /\ hw'.err /\ hw'.count = hw.count
      /\ hw'.enabled = hw.enabled /\ hw'.wb = hw.wb /\ hw'.wbErr = poll_mode
  BY <1>1, TypeFacts DEF Inv, Cores
<1>4. Types'
  BY <1>1, <1>3 DEF Inv, Types
<1>5. Calls'
  BY <1>1 DEF Inv, Calls, CallAt, Sync, Waiting, Current, LastOf
<1>6. Queue'
  BY <1>1 DEF Inv, Queue, Waiting
<1>7. Descriptors'
  BY <1>1 DEF Inv, Descriptors, Owns, Allocated
<1>8. Serving(x)'
  <2>1. x' = x
    BY <1>1 DEF x
  <2>2. QED
    BY <1>1, <1>2, <1>3, <2>1, TypeFacts DEF Serving, Inv, Cores
<1>9. Core'
  <2>1. Head(engine.list)' = x /\ x' = x
    BY <1>1 DEF x
  <2>2. ~poll_mode => hw.wb = 0 /\ hw.enabled = ~work
    BY DEF Inv, Core
  <2>3. power = "on" /\ ~engine.shutdown /\ engine.running = (engine.list # <<>>) /\ (poll_mode => ~work)
    BY DEF Inv, Core
  <2>4. QED
    BY <1>1, <1>2, <1>3, <1>8, <2>1, <2>2, <2>3 DEF Core
<1>10. Carried'
  BY <1>1 DEF Inv, Carried, CompletedMeansMoved, Waiting
<1>11. QED
  BY <1>4, <1>5, <1>6, <1>7, <1>9, <1>10 DEF Inv

LEMMA HwHaltsNever ==
  ASSUME Inv, HwHalts
  PROVE  FALSE
BY BusyFacts DEF HwHalts, Serving

LEMMA IsrKeeps ==
  ASSUME Inv, Isr
  PROVE  Inv'
<1> DEFINE x == Head(engine.list)
<1>1. /\ ~poll_mode /\ hw.event /\ hw' = [hw EXCEPT !.enabled = FALSE] /\ work' = TRUE
      /\ UNCHANGED <<poll_mode, power, descLock, desc_idx, desc, engine, xfer, client, moved>>
  BY DEF Isr
<1>2. /\ hw' \in Cores /\ hw'.run = hw.run /\ hw'.busy = hw.busy /\ hw'.event = hw.event
      /\ hw'.err = hw.err /\ hw'.count = hw.count /\ hw'.next = hw.next
      /\ hw'.enabled = FALSE /\ hw'.wb = hw.wb /\ hw'.wbErr = hw.wbErr
  BY <1>1, TypeFacts DEF Inv, Cores
<1>3. Types'
  BY <1>1, <1>2 DEF Inv, Types
<1>4. Calls'
  BY <1>1 DEF Inv, Calls, CallAt, Sync, Waiting, Current, LastOf
<1>5. Queue'
  BY <1>1 DEF Inv, Queue, Waiting
<1>6. Descriptors'
  BY <1>1 DEF Inv, Descriptors, Owns, Allocated
<1>7. engine.list # <<>> => Serving(x)'
  <2>1. engine.list # <<>> => Serving(x)
    BY DEF Inv, Core
  <2> HIDE DEF x
  <2>2. x' = x
    BY <1>1 DEF x
  <2>3. QED
    BY <1>1, <1>2, <2>1, <2>2 DEF Serving
<1>8. Core'
  <2>1. Head(engine.list)' = x /\ x' = x
    BY <1>1
  <2> HIDE DEF x
  <2>2. Core
    BY DEF Inv
  <2>3. QED
    BY <1>1, <1>2, <1>7, <2>1, <2>2 DEF Core
<1>9. Carried'
  BY <1>1 DEF Inv, Carried, CompletedMeansMoved, Waiting
<1>10. QED
  BY <1>3, <1>4, <1>5, <1>6, <1>8, <1>9 DEF Inv

-----------------------------------------------------------------------------
(* The callers: steps of one of them that change nothing else.             *)
LEMMA OneCaller ==
  ASSUME Inv, NEW c \in Clients,
         UNCHANGED <<poll_mode, power, desc_idx, desc, engine, xfer, work, hw, moved>>,
         client' \in [Clients -> CallRecords], \A d \in Clients : d # c => client'[d] = client[d],
         descLock' \in Clients \cup {NoClient},
         \A d \in Clients : d # c => (descLock' = d <=> descLock = d),
         CallAt(c)',
         client[c].pc \in {"idle", "lock"} \/ client'[c].pc \in {"idle", "lock", "over"}
           \/ client[c].pc # "over",
         client'[c].pc = "service" =>
           client'[c].seen = [wb |-> hw.wb, err |-> hw.wbErr] /\ ~hw.busy
  PROVE  Inv'
<1>1. Types'
  BY DEF Inv, Types
<1>2. Calls'
  <2>1. ASSUME NEW d \in Clients PROVE CallAt(d)'
    <3>1. CASE d = c
      BY <3>1
    <3>2. CASE d # c
      <4>1. client'[d] = client[d] /\ (descLock' = d <=> descLock = d)
        BY <3>2
      <4>2. CallAt(d)
        BY DEF Inv, Calls
      <4>3. QED
        BY <4>1, <4>2 DEF CallAt, Sync, Waiting, Current, LastOf
    <3>3. QED
      BY <3>1, <3>2
  <2>2. QED
    BY <2>1 DEF Calls
<1>3. Queue'
  BY DEF Inv, Queue, Waiting
<1>4. Descriptors'
  <2>1. SUFFICES ASSUME NEW x \in Transfer, xfer[x].state \in {"NEW", "SUBMITTED"}, Allocated(x)'
                 PROVE  Owns(x)
    BY DEF Descriptors, Owns
  <2>2. CASE Allocated(x)
    BY <2>1, <2>2 DEF Inv, Descriptors
  <2>3. CASE ~Allocated(x)
    <3>1. x[1] \in Clients /\ (x = <<x[1], 0>> \/ x = <<x[1], 1>>)
      BY TransferParts
    <3>2. x[1] = c
      BY <2>1, <2>3, <3>1 DEF Allocated
    <3>3. client[c].pc \in {"idle", "lock"}
      <4>1. client[c].pc \in {"idle", "lock", "over"}
        BY <2>3, <3>2, AllocatedIs DEF Inv
      <4>2. QED
        BY <2>1, <3>2, <4>1 DEF Allocated
    <3>4. CallAt(c)
      BY DEF Inv, Calls
    <3>5. xfer[x] = NoTransfer
      BY <3>1, <3>2, <3>3, <3>4 DEF CallAt
    <3>6. xfer[x].first..(xfer[x].first + xfer[x].num - 1) = {}
      BY <3>5 DEF NoTransfer
    <3>7. QED
      BY <3>6 DEF Owns
  <2>4. QED
    BY <2>2, <2>3
<1>5. Core'
  <2>1. Core
    BY DEF Inv
  <2>2. engine.list # <<>> => Serving(Head(engine.list)) /\ Serving(Head(engine.list))'
    BY <2>1 DEF Core, Serving
  <2>3. ASSUME NEW d \in Clients, client'[d].pc = "service"
        PROVE  client'[d].seen = [wb |-> hw.wb, err |-> hw.wbErr] /\ ~hw.busy
    <3>1. CASE d = c
      BY <2>3, <3>1
    <3>2. CASE d # c
      BY <2>1, <2>3, <3>2 DEF Core
    <3>3. QED
      BY <3>1, <3>2
  <2>4. QED
    BY <2>1, <2>2, <2>3 DEF Core
<1>6. Carried'
  BY DEF Inv, Carried, CompletedMeansMoved, Waiting
<1>7. QED
  BY <1>1, <1>2, <1>3, <1>4, <1>5, <1>6 DEF Inv

LEMMA GotoParts ==
  ASSUME client \in [Clients -> CallRecords], NEW c \in Clients, NEW l \in Labels, Goto(c, l)
  PROVE  /\ client' \in [Clients -> CallRecords] /\ client'[c].pc = l
         /\ client'[c].kind = client[c].kind /\ client'[c].left = client[c].left
         /\ client'[c].tfer = client[c].tfer /\ client'[c].seen = client[c].seen
         /\ \A d \in Clients : d # c => client'[d] = client[d]
BY DEF Goto, CallRecords

(* What a call that is about to return leaves.                             *)
LEMMA CallFacts ==
  ASSUME Inv, NEW c \in Clients
  PROVE  /\ CallAt(c) /\ client[c] \in CallRecords /\ client \in [Clients -> CallRecords]
         /\ client[c].pc \in {"lock", "wait", "service", "finish"} => Sync(c)
         /\ Sync(c) => client[c].tfer = 0 /\ Current(c) = <<c, 0>> /\ xfer[<<c, 1>>] = NoTransfer
         /\ descLock = c <=> Sync(c) /\ client[c].pc \in Inside
<1>1. CallAt(c)
  BY DEF Inv, Calls
<1>2. client \in [Clients -> CallRecords]
  BY TypeFacts DEF Inv
<1>3. QED
  BY <1>1, <1>2 DEF CallAt, Current

LEMMA LockDescKeeps ==
  ASSUME Inv, NEW c \in Clients, LockDesc(c)
  PROVE  Inv'
<1>1. /\ client[c].pc = "lock" /\ descLock = NoClient /\ descLock' = c /\ Goto(c, "init")
      /\ UNCHANGED <<poll_mode, power, desc_idx, desc, engine, xfer, work, hw, moved>>
  BY DEF LockDesc, At
<1>2. /\ CallAt(c) /\ client \in [Clients -> CallRecords]
      /\ Sync(c) /\ client[c].tfer = 0 /\ Current(c) = <<c, 0>> /\ xfer[<<c, 1>>] = NoTransfer
  BY <1>1, CallFacts
<1>3. /\ client' \in [Clients -> CallRecords] /\ client'[c].pc = "init"
      /\ client'[c].kind = client[c].kind /\ client'[c].left = client[c].left
      /\ client'[c].tfer = client[c].tfer
      /\ \A d \in Clients : d # c => client'[d] = client[d]
  BY <1>1, <1>2, GotoParts DEF Labels
<1>4. Current(c)' = <<c, 0>> /\ Sync(c)' /\ xfer[<<c, 0>>] = NoTransfer
  BY <1>1, <1>2, <1>3 DEF Current, Sync, CallAt
<1>5. CallAt(c)'
  BY <1>1, <1>2, <1>3, <1>4 DEF CallAt, Inside, NoTransfer, Waiting
<1>6. QED
  BY <1>1, <1>3, <1>5, OneCaller, Ranges

LEMMA CallKeeps ==
  ASSUME Inv, NEW c \in Clients, NEW kind \in Kinds, NEW n \in 1..MaxRequest, Call(c, kind, n)
  PROVE  Inv'
<1> DEFINE l == IF kind = "sync" THEN "lock" ELSE "init"
           new == [NoCall EXCEPT !.kind = kind, !.left = n, !.pc = l]
<1>1. /\ client[c].pc = "idle" /\ (kind = "aio" => ~poll_mode) /\ client' = [client EXCEPT ![c] = new]
      /\ UNCHANGED <<poll_mode, power, descLock, desc_idx, desc, engine, xfer, work, hw, moved>>
  BY DEF Call, At
<1>2. /\ CallAt(c) /\ client \in [Clients -> CallRecords]
      /\ (descLock = c <=> Sync(c) /\ client[c].pc \in Inside)
  BY CallFacts
<1>3. xfer[<<c, 0>>] = NoTransfer /\ xfer[<<c, 1>>] = NoTransfer /\ descLock # c
  BY <1>1, <1>2 DEF CallAt, Inside
<1>4. /\ new \in CallRecords /\ new.pc = l /\ new.kind = kind /\ new.left = n /\ new.tfer = 0
      /\ n > 0 /\ kind \in {"sync", "aio"}
  <2>1. kind \in {"sync", "aio"} /\ n \in 0..MaxRequest /\ n > 0
    BY XdmaAssumption
  <2>2. NoCall \in CallRecords /\ NoCall.tfer = 0
    BY Ranges DEF NoCall, CallRecords, Labels
  <2>3. l \in Labels
    BY DEF Labels
  <2> HIDE DEF l
  <2>4. new \in CallRecords /\ new.pc = l /\ new.kind = kind /\ new.left = n /\ new.tfer = 0
    BY <2>1, <2>2, <2>3 DEF CallRecords
  <2>5. QED
    BY <2>1, <2>4
<1> HIDE DEF new
<1>5. /\ client' \in [Clients -> CallRecords] /\ client'[c] = new
      /\ \A d \in Clients : d # c => client'[d] = client[d]
  BY <1>1, <1>2, <1>4
<1>6. Current(c)' = <<c, 0>> /\ (Sync(c)' <=> kind = "sync")
  BY <1>4, <1>5 DEF Current, Sync
<1>7. CallAt(c)'
  BY <1>1, <1>3, <1>4, <1>5, <1>6 DEF CallAt, Inside, NoTransfer, Waiting
<1>8. descLock' \in Clients \cup {NoClient}
  BY <1>1 DEF Inv, Types
<1>9. QED
  BY <1>1, <1>4, <1>5, <1>7, <1>8, OneCaller

LEMMA WakeUpKeeps ==
  ASSUME Inv, NEW c \in Clients, WakeUp(c)
  PROVE  Inv'
<1>1. /\ client[c].pc = "wait" /\ xfer[Current(c)].state # "SUBMITTED" /\ Goto(c, "finish")
      /\ UNCHANGED <<poll_mode, power, descLock, desc_idx, desc, engine, xfer, work, hw, moved>>
  BY DEF WakeUp, At
<1>2. /\ CallAt(c) /\ client \in [Clients -> CallRecords] /\ descLock = c
      /\ Sync(c) /\ client[c].tfer = 0 /\ Current(c) = <<c, 0>> /\ xfer[<<c, 1>>] = NoTransfer
  BY <1>1, CallFacts DEF Inside
<1>3. /\ client' \in [Clients -> CallRecords] /\ client'[c].pc = "finish"
      /\ client'[c].kind = client[c].kind /\ client'[c].left = client[c].left
      /\ client'[c].tfer = client[c].tfer
      /\ \A d \in Clients : d # c => client'[d] = client[d]
  BY <1>1, <1>2, GotoParts DEF Labels
<1>4. Current(c)' = <<c, 0>> /\ Sync(c)' /\ xfer[<<c, 0>>].state \in {"COMPLETED", "FAILED"}
  BY <1>1, <1>2, <1>3 DEF Current, Sync, CallAt, Waiting
<1>5. CallAt(c)'
  BY <1>1, <1>2, <1>3, <1>4 DEF CallAt, Inside
<1>6. QED
  BY <1>1, <1>2, <1>3, <1>5, OneCaller, Ranges

(* A finished wait: the rest of the request, or the return.                *)
LEMMA ReturnKeeps ==
  ASSUME Inv, NEW c \in Clients, client[c].pc = "finish", Return(c),
         UNCHANGED <<poll_mode, power, desc_idx, desc, engine, xfer, work, hw, moved>>
  PROVE  Inv'
<1>1. Goto(c, "over") /\ descLock' = IF descLock = c THEN NoClient ELSE descLock
  BY DEF Return
<1>2. /\ CallAt(c) /\ client \in [Clients -> CallRecords] /\ descLock = c
      /\ Sync(c) /\ client[c].tfer = 0 /\ Current(c) = <<c, 0>> /\ xfer[<<c, 1>>] = NoTransfer
  BY <1>1, CallFacts DEF Inside
<1>3. /\ client' \in [Clients -> CallRecords] /\ client'[c].pc = "over"
      /\ client'[c].kind = client[c].kind /\ client'[c].left = client[c].left
      /\ client'[c].tfer = client[c].tfer
      /\ \A d \in Clients : d # c => client'[d] = client[d]
  BY <1>1, <1>2, GotoParts DEF Labels
<1>4. /\ Current(c)' = <<c, 0>> /\ Sync(c)' /\ xfer[<<c, 0>>].state \in {"COMPLETED", "FAILED"}
      /\ descLock' = NoClient /\ descLock' # c
  BY <1>1, <1>2, <1>3, Ranges DEF Current, Sync, CallAt
<1>5. CallAt(c)'
  BY <1>2, <1>3, <1>4 DEF CallAt, Inside, NoTransfer, Waiting
<1>6. \A d \in Clients : d # c => (descLock' = d <=> descLock = d)
  BY <1>2, <1>4, Ranges
<1>7. QED
  BY <1>3, <1>4, <1>5, <1>6, OneCaller

LEMMA CompletedKeeps ==
  ASSUME Inv, NEW c \in Clients, Completed(c)
  PROVE  Inv'
<1>1. /\ client[c].pc = "finish" /\ xfer[Current(c)].state = "COMPLETED"
      /\ UNCHANGED <<poll_mode, power, desc_idx, desc, engine, xfer, work, hw, moved>>
  BY DEF Completed, At
<1>2. CASE client[c].left > 0
  <2>1. Goto(c, "init") /\ UNCHANGED descLock
    BY <1>2 DEF Completed
  <2>2. /\ CallAt(c) /\ client \in [Clients -> CallRecords] /\ descLock = c
        /\ Sync(c) /\ client[c].tfer = 0 /\ Current(c) = <<c, 0>> /\ xfer[<<c, 1>>] = NoTransfer
    BY <1>1, CallFacts DEF Inside
  <2>3. /\ client' \in [Clients -> CallRecords] /\ client'[c].pc = "init"
        /\ client'[c].kind = client[c].kind /\ client'[c].left = client[c].left
        /\ client'[c].tfer = client[c].tfer
        /\ \A d \in Clients : d # c => client'[d] = client[d]
    BY <2>1, <2>2, GotoParts DEF Labels
  <2>4. Current(c)' = <<c, 0>> /\ Sync(c)'
    BY <2>2, <2>3 DEF Current, Sync
  <2>5. CallAt(c)'
    BY <1>1, <1>2, <2>1, <2>2, <2>3, <2>4 DEF CallAt, Inside, Waiting
  <2>6. QED
    BY <1>1, <2>1, <2>2, <2>3, <2>5, OneCaller
<1>3. CASE ~(client[c].left > 0)
  BY <1>1, <1>3, ReturnKeeps DEF Completed
<1>4. QED
  BY <1>2, <1>3

LEMMA FailedKeeps ==
  ASSUME Inv, NEW c \in Clients, Failed(c)
  PROVE  Inv'
BY ReturnKeeps DEF Failed, At

(* A call does not get past its wait but by the end of its transfer.       *)
LEMMA TimedOutNever ==
  ASSUME Inv, NEW c \in Clients, TimedOut(c) \/ TimedOutUnread(c)
  PROVE  FALSE
BY CallFacts DEF TimedOut, TimedOutUnread, At, CallAt

LEMMA QueueRefusedNever ==
  ASSUME Inv, NEW c \in Clients, QueueRefused(c)
  PROVE  FALSE
BY DEF QueueRefused, Inv, Core

(* A caller that waits for its transfer holds desc_lock: there is one.     *)
LEMMA OneWaits ==
  ASSUME Inv, NEW x \in Transfer, Waiting(x), Sync(x[1])
  PROVE  descLock = x[1] /\ x = <<descLock, 0>> /\ client[descLock].pc \in {"wait", "service", "finish", "queue"}
<1> DEFINE c == x[1]
<1>1. c \in Clients /\ (x = <<c, 0>> \/ x = <<c, 1>>)
  BY TransferParts
<1>2. /\ CallAt(c) /\ client[c] \in CallRecords
      /\ Sync(c) => client[c].tfer = 0 /\ Current(c) = <<c, 0>> /\ xfer[<<c, 1>>] = NoTransfer
      /\ (descLock = c <=> Sync(c) /\ client[c].pc \in Inside)
  BY <1>1, CallFacts
<1>3. xfer[x].state = "SUBMITTED" /\ xfer[x] # NoTransfer
  BY DEF Waiting, NoTransfer
<1>4. x = <<c, 0>> /\ Current(c) = <<c, 0>> /\ Sync(c)
  BY <1>1, <1>2, <1>3
<1> HIDE DEF c
<1>5. client[c].pc \in {"wait", "service", "finish", "queue"}
  <2>1. client[c].pc \in Labels /\ client[c].pc # "queued"
    BY <1>2, <1>4 DEF CallRecords, CallAt
  <2>2. client[c].pc \notin {"idle", "lock", "over", "init"}
    BY <1>2, <1>3, <1>4 DEF CallAt, Waiting
  <2>3. QED
    BY <2>1, <2>2 DEF Labels
<1>6. descLock = c
  BY <1>2, <1>4, <1>5 DEF Inside
<1>7. QED
  BY <1>4, <1>5, <1>6 DEF c

(* Under polling that is the head of the queue, and the whole of it.       *)
LEMMA PolledAlone ==
  ASSUME Inv, NEW c \in Clients, poll_mode, client[c].pc \in {"wait", "service"}
  PROVE  /\ Len(engine.list) = 1 /\ engine.list # <<>> /\ Head(engine.list) = Current(c)
         /\ Tail(engine.list) = <<>>
<1>1. Waiting(Current(c)) /\ Current(c) \in Transfer
  BY CallFacts, TypeFacts DEF CallAt, Inv
<1>2. ASSUME NEW x \in Transfer, Waiting(x) PROVE x = <<descLock, 0>>
  <2>1. x[1] \in Clients
    BY TransferParts
  <2>2. Sync(x[1])
    BY <2>1, CallFacts DEF CallAt
  <2>3. QED
    BY <1>2, <2>2, OneWaits
<1>3. engine.list \in Seq(Transfer)
  BY TypeFacts DEF Inv
<1>4. PICK i \in 1..Len(engine.list) : engine.list[i] = Current(c)
  BY <1>1 DEF Inv, Queue
<1>5. ASSUME NEW j \in 1..Len(engine.list) PROVE engine.list[j] = <<descLock, 0>>
  <2>1. engine.list[j] \in Transfer /\ Waiting(engine.list[j])
    BY <1>3, <1>5, ElementOfSeq DEF Inv, Queue
  <2>2. QED
    BY <1>2, <2>1
<1>6. Len(engine.list) \in Nat
  BY <1>3, LenProperties
<1>7. Len(engine.list) = 1
  <2>1. SUFFICES ASSUME Len(engine.list) # 1 PROVE FALSE
    OBVIOUS
  <2>2. 1 \in 1..Len(engine.list) /\ 2 \in 1..Len(engine.list)
    <3> DEFINE L == Len(engine.list)
    <3>1. i \in 1..L /\ L \in Nat /\ L # 1
      BY <1>6, <2>1
    <3> HIDE DEF L
    <3>2. 1 \in 1..L /\ 2 \in 1..L
      BY <3>1
    <3>3. QED
      BY <3>2 DEF L
  <2>3. engine.list[1] # engine.list[2]
    BY <2>2 DEF Inv, Queue
  <2>4. QED
    BY <1>5, <2>2, <2>3
<1>8. engine.list # <<>> /\ Head(engine.list) = engine.list[1] /\ Tail(engine.list) = <<>>
  <2>1. engine.list # <<>> /\ Head(engine.list) = engine.list[1]
    BY <1>3, <1>4, <1>7
  <2>2. Tail(engine.list) \in Seq(Transfer) /\ Len(Tail(engine.list)) = Len(engine.list) - 1
    BY <1>3, <2>1, HeadTailProperties
  <2>3. Tail(engine.list) = <<>>
    <3>1. \A l \in Seq(Transfer) : l # <<>> => Len(l) # 0
      BY EmptySeq
    <3> DEFINE l == Tail(engine.list)
    <3>2. l \in Seq(Transfer) /\ Len(l) = 0
      BY <1>7, <2>2
    <3> HIDE DEF l
    <3>3. l = <<>>
      BY <3>1, <3>2
    <3>4. QED
      BY <3>3 DEF l
  <2>4. QED
    BY <2>1, <2>3
<1>9. QED
  BY <1>4, <1>5, <1>7, <1>8

LEMMA MonitorKeeps ==
  ASSUME ~Timeouts, Inv, NEW c \in Clients, Monitor(c)
  PROVE  Inv'
<1> DEFINE seen == [wb |-> hw.wb, err |-> hw.wbErr]
<1>1. /\ client[c].pc = "wait" /\ poll_mode /\ (hw.wbErr \/ hw.wb >= xfer[Current(c)].num)
      /\ client' = [client EXCEPT ![c].pc = "service", ![c].seen = seen]
      /\ UNCHANGED <<poll_mode, power, descLock, desc_idx, desc, engine, xfer, work, hw, moved>>
  BY DEF Monitor, At
<1>2. /\ CallAt(c) /\ client \in [Clients -> CallRecords] /\ descLock = c
      /\ Sync(c) /\ client[c].tfer = 0 /\ Current(c) = <<c, 0>> /\ xfer[<<c, 1>>] = NoTransfer
  BY <1>1, CallFacts DEF Inside
<1>3. engine.list # <<>> /\ Head(engine.list) = Current(c)
  BY <1>1, PolledAlone
<1>4. Serving(Current(c))
  BY <1>3 DEF Inv, Core
<1>5. ~hw.busy
  <2>1. hw.wb \in Nat /\ hw.count \in Nat /\ xfer[Current(c)].num \in Nat
    BY TypeFacts, Ranges DEF Inv, Cores
  <2>2. hw.wb <= hw.count /\ hw.wbErr = hw.err
    BY <1>1, <1>4 DEF Serving
  <2>3. hw.busy => ~hw.err /\ hw.count < xfer[Current(c)].num
    BY <1>4 DEF Serving
  <2>4. QED
    BY <1>1, <2>1, <2>2, <2>3
<1>6. seen \in [wb : Nat, err : BOOLEAN]
  BY TypeFacts DEF Inv, Cores
<1> HIDE DEF seen
<1>7. /\ client' \in [Clients -> CallRecords] /\ client'[c].pc = "service"
      /\ client'[c].kind = client[c].kind /\ client'[c].left = client[c].left
      /\ client'[c].tfer = client[c].tfer /\ client'[c].seen = seen
      /\ \A d \in Clients : d # c => client'[d] = client[d]
  BY <1>1, <1>2, <1>6 DEF CallRecords, Labels
<1>8. Current(c)' = <<c, 0>> /\ Sync(c)' /\ Waiting(<<c, 0>>)
  BY <1>1, <1>2, <1>7 DEF Current, Sync, CallAt
<1>9. CallAt(c)'
  BY <1>1, <1>2, <1>7, <1>8 DEF CallAt, Inside, Waiting
<1>10. QED
  BY <1>1, <1>2, <1>5, <1>7, <1>9, OneCaller, Ranges DEF seen

LEMMA OverKeeps ==
  ASSUME Inv, NEW c \in Clients, Over(c)
  PROVE  Inv'
<1>1. /\ client[c].pc = "over" /\ client' = [client EXCEPT ![c] = NoCall]
      /\ xfer' = [x \in Transfer |-> IF x[1] = c THEN NoTransfer ELSE xfer[x]]
      /\ moved' = [x \in Transfer |-> IF x[1] = c THEN 0 ELSE moved[x]]
      /\ UNCHANGED <<poll_mode, power, descLock, desc_idx, desc, engine, work, hw>>
  BY DEF Over, At
<1>2. /\ CallAt(c) /\ client \in [Clients -> CallRecords]
      /\ (descLock = c <=> Sync(c) /\ client[c].pc \in Inside)
  BY CallFacts
<1>3. descLock # c
  BY <1>1, <1>2 DEF Inside
<1>4. NoCall \in CallRecords /\ NoCall.pc = "idle" /\ NoCall.tfer = 0 /\ NoCall.kind = "sync"
  BY Ranges DEF NoCall, CallRecords, Labels
<1>5. /\ client' \in [Clients -> CallRecords] /\ client'[c] = NoCall
      /\ \A d \in Clients : d # c => client'[d] = client[d]
  BY <1>1, <1>2, <1>4
<1>6. \A x \in Transfer : /\ x[1] = c => xfer'[x] = NoTransfer /\ moved'[x] = 0 /\ ~Waiting(x)
                          /\ x[1] # c => xfer'[x] = xfer[x] /\ moved'[x] = moved[x]
  <2>1. ~Waiting(<<c, 0>>) /\ ~Waiting(<<c, 1>>)
    BY <1>1, <1>2 DEF CallAt
  <2>2. QED
    BY <1>1, <2>1, TransferParts
<1>7. NoTransfer \in Transfers /\ NoTransfer.state = "NEW" /\ NoTransfer.first + NoTransfer.num <= MaxDesc
  BY Ranges DEF NoTransfer, Transfers, States, Ring
<1>8. \A x \in Transfer : Waiting(x)' <=> Waiting(x)
  BY <1>6, <1>7 DEF Waiting
<1>9. Types'
  <2>1. Types
    BY DEF Inv
  <2>2. xfer' \in [Transfer -> Transfers] /\ moved' \in [Transfer -> 0..MaxDesc]
    BY <1>1, <1>7, <2>1, Ranges DEF Types
  <2>3. \A x \in Transfer : xfer'[x].first + xfer'[x].num <= MaxDesc
    BY <1>6, <1>7, <2>1 DEF Types
  <2>4. QED
    BY <1>1, <1>5, <2>1, <2>2, <2>3 DEF Types
<1>10. Calls'
  <2>1. ASSUME NEW d \in Clients PROVE CallAt(d)'
    <3>1. CASE d = c
      <4>1. <<c, 0>> \in Transfer /\ <<c, 1>> \in Transfer /\ <<c, 0>>[1] = c /\ <<c, 1>>[1] = c
        BY TransferParts
      <4>2. xfer'[<<c, 0>>] = NoTransfer /\ xfer'[<<c, 1>>] = NoTransfer
        BY <1>6, <4>1
      <4>3. CallAt(c)'
        BY <1>1, <1>3, <1>4, <1>5, <4>2 DEF CallAt, Sync, Inside
      <4>4. QED
        BY <3>1, <4>3
    <3>2. CASE d # c
      <4>1. client'[d] = client[d] /\ CallAt(d)
        BY <1>5, <3>2 DEF Inv, Calls
      <4>2. /\ <<d, 0>> \in Transfer /\ <<d, 1>> \in Transfer /\ <<d, 0>>[1] = d /\ <<d, 1>>[1] = d
            /\ Current(d) \in {<<d, 0>>, <<d, 1>>} /\ LastOf(d) = Current(d)
        BY TransferParts, TypeFacts DEF Inv
      <4>3. /\ xfer'[<<d, 0>>] = xfer[<<d, 0>>] /\ xfer'[<<d, 1>>] = xfer[<<d, 1>>]
            /\ xfer'[Current(d)] = xfer[Current(d)]
        BY <1>6, <3>2, <4>2
      <4>4. Current(d)' = Current(d) /\ LastOf(d)' = LastOf(d)
        BY <4>1 DEF Current, LastOf
      <4>5. QED
        BY <1>1, <4>1, <4>2, <4>3, <4>4 DEF CallAt, Sync, Waiting
    <3>3. QED
      BY <3>1, <3>2
  <2>2. QED
    BY <2>1 DEF Calls
<1>11. Queue'
  <2>1. \A x \in Transfer : Waiting(x) => xfer'[x].num = xfer[x].num
    BY <1>6
  <2>2. \A i \in 1..Len(engine.list) : engine.list[i] \in Transfer
    BY TypeFacts, ElementOfSeq DEF Inv
  <2>3. Queue
    BY DEF Inv
  <2>4. QED
    BY <1>1, <1>8, <2>1, <2>2, <2>3 DEF Queue
<1>12. Descriptors'
  <2>1. SUFFICES ASSUME NEW x \in Transfer, xfer'[x].state \in {"NEW", "SUBMITTED"}, Allocated(x)'
                 PROVE  Owns(x)'
    BY DEF Descriptors
  <2>2. x[1] # c
    BY <2>1, <1>4, <1>5 DEF Allocated
  <2>3. xfer'[x] = xfer[x] /\ client'[x[1]] = client[x[1]]
    BY <1>5, <1>6, <2>2, TransferParts
  <2>4. Owns(x)
    BY <2>1, <2>3 DEF Inv, Descriptors, Allocated
  <2>5. QED
    BY <1>1, <2>3, <2>4 DEF Owns
<1>13. Core'
  <2>1. Core
    BY DEF Inv
  <2>2. engine.list # <<>> => Serving(Head(engine.list)) /\ Serving(Head(engine.list))'
    <3> DEFINE x == Head(engine.list)
    <3>1. SUFFICES ASSUME engine.list # <<>> PROVE Serving(x) /\ Serving(x)'
      OBVIOUS
    <3>2. Serving(x) /\ x \in Transfer /\ Waiting(x)
      BY <2>1, <3>1, HeadFacts DEF Core, Inv
    <3> HIDE DEF x
    <3>3. xfer'[x] = xfer[x] /\ moved'[x] = moved[x] /\ x' = x
      BY <1>1, <1>6, <3>2 DEF x
    <3>4. QED
      BY <1>1, <3>2, <3>3 DEF Serving
  <2>3. ASSUME NEW d \in Clients, client'[d].pc = "service"
        PROVE  client'[d].seen = [wb |-> hw.wb, err |-> hw.wbErr] /\ ~hw.busy
    <3>1. d # c
      BY <1>4, <1>5, <2>3
    <3>2. QED
      BY <1>5, <2>1, <2>3, <3>1 DEF Core
  <2>4. QED
    BY <1>1, <2>1, <2>2, <2>3 DEF Core
<1>14. Carried'
  <2>1. Carried
    BY DEF Inv
  <2>2. QED
    BY <1>1, <1>6, <1>7, <1>8, <2>1 DEF Carried, CompletedMeansMoved
<1>15. QED
  BY <1>9, <1>10, <1>11, <1>12, <1>13, <1>14 DEF Inv

LEMMA TransferInitKeeps ==
  ASSUME Inv, NEW c \in Clients, TransferInit(c)
  PROVE  Inv'
<1> DEFINE x == Current(c)
           n == Lesser(client[c].left, Room)
           taken == desc_idx..(desc_idx + n - 1)
           new == [state |-> "NEW", first |-> desc_idx, num |-> n]
<1>1. /\ client[c].pc = "init" /\ \A i \in Ring \cap taken : ~InUse(i)
      /\ (client[c].tfer = 1 => n = client[c].left)
      /\ xfer' = [xfer EXCEPT ![x] = new]
      /\ desc' = [i \in Ring |-> IF i \in taken THEN [xfer |-> x, last |-> i = desc_idx + n - 1] ELSE desc[i]]
      /\ desc_idx' = (desc_idx + n) % MaxDesc
      /\ moved' = [moved EXCEPT ![x] = 0]
      /\ client' = [client EXCEPT ![c].pc = "queue", ![c].left = client[c].left - n]
      /\ UNCHANGED <<poll_mode, power, descLock, engine, work, hw>>
  BY DEF TransferInit, At
<1>2. /\ CallAt(c) /\ client \in [Clients -> CallRecords] /\ client[c] \in CallRecords
      /\ (descLock = c <=> Sync(c) /\ client[c].pc \in Inside)
      /\ Sync(c) => client[c].tfer = 0
  BY CallFacts
<1>3. x \in Transfer /\ x = <<c, client[c].tfer>> /\ client[c].tfer \in {0, 1} /\ x[1] = c /\ LastOf(c) = x
  BY TypeFacts DEF Inv
<1>4. xfer[x].state # "SUBMITTED" /\ client[c].left \in 1..MaxRequest
  BY <1>1, <1>2, Ranges DEF CallAt, Waiting, CallRecords
<1>5. /\ n \in 1..client[c].left /\ n <= MaxDesc /\ desc_idx \in Ring /\ desc_idx + n <= MaxDesc
      /\ client[c].left - n \in 0..MaxRequest
  <2>1. desc_idx \in 0..(MaxDesc - 1) /\ desc_idx \in Ring
    BY DEF Inv, Types, Ring
  <2>2. QED
    BY <1>4, <2>1, Ranges DEF Lesser, Room
<1>6. new \in Transfers /\ new.state = "NEW" /\ new.first = desc_idx /\ new.num = n
  BY <1>5, Ranges DEF Transfers, States
<1> HIDE DEF x, n, new
<1>7. xfer' \in [Transfer -> Transfers] /\ xfer'[x] = new /\ \A y \in Transfer : y # x => xfer'[y] = xfer[y]
  BY <1>1, <1>3, <1>6, TypeFacts DEF Inv
<1>8. moved' \in [Transfer -> 0..MaxDesc] /\ moved'[x] = 0 /\ \A y \in Transfer : y # x => moved'[y] = moved[y]
  <2>1. moved \in [Transfer -> 0..MaxDesc]
    BY DEF Inv, Types
  <2>2. QED
    BY <1>1, <1>3, <2>1, Ranges
<1>9. /\ client' \in [Clients -> CallRecords] /\ client'[c].pc = "queue"
      /\ client'[c].kind = client[c].kind /\ client'[c].left = client[c].left - n
      /\ client'[c].tfer = client[c].tfer
      /\ \A d \in Clients : d # c => client'[d] = client[d]
  BY <1>1, <1>2, <1>5 DEF CallRecords, Labels
<1>10. \A y \in Transfer : (Waiting(y)' <=> Waiting(y)) /\ (Waiting(y) => y # x)
  BY <1>4, <1>6, <1>7 DEF Waiting
<1>11. Types'
  <2>1. Types
    BY DEF Inv
  <2>2. desc' \in [Ring -> [xfer : Transfer \cup {<<NoClient, 0>>}, last : BOOLEAN]]
    BY <1>1, <1>3, <2>1 DEF Types
  <2>3. desc_idx' \in Ring
    <3>1. desc_idx + n \in Nat /\ MaxDesc \in Nat \ {0}
      BY <1>4, <1>5, Ranges DEF Ring
    <3>2. QED
      BY <1>1, <3>1 DEF Ring
  <2>4. \A y \in Transfer : xfer'[y].first + xfer'[y].num <= MaxDesc
    BY <1>5, <1>6, <1>7, <2>1 DEF Types
  <2>5. QED
    BY <1>1, <1>7, <1>8, <1>9, <2>1, <2>2, <2>3, <2>4 DEF Types
<1>12. Calls'
  <2>1. ASSUME NEW d \in Clients PROVE CallAt(d)'
    <3>1. CASE d = c
      <4>1. Current(c)' = x /\ (Sync(c)' <=> Sync(c)) /\ LastOf(c)' = x
        BY <1>3, <1>9 DEF Current, Sync, LastOf
      <4>2. <<c, 0>> \in Transfer /\ <<c, 1>> \in Transfer
        BY TransferParts
      <4>3. client[c].tfer = 0 => xfer'[<<c, 1>>] = NoTransfer
        <5>1. client[c].tfer = 0 => xfer[<<c, 1>>] = NoTransfer /\ <<c, 1>> # x
          BY <1>2, <1>3 DEF CallAt
        <5>2. QED
          BY <1>7, <4>2, <5>1
      <4>4. client[c].tfer = 1 => xfer'[<<c, 0>>].state # "NEW" /\ client'[c].left = 0
        <5>1. client[c].tfer = 1 => xfer[<<c, 0>>].state # "NEW" /\ <<c, 0>> # x
          BY <1>1, <1>2, <1>3 DEF CallAt
        <5>2. client[c].tfer = 1 => client'[c].left = 0
          BY <1>1, <1>4, <1>9, Ranges
        <5>3. QED
          BY <1>7, <4>2, <5>1, <5>2
      <4>5. xfer'[x].state = "NEW" /\ xfer'[x].num > 0
        BY <1>4, <1>5, <1>6, <1>7
      <4>6. poll_mode => Sync(c)
        BY <1>2 DEF CallAt
      <4>7. CallAt(c)'
        BY <1>1, <1>2, <1>9, <4>1, <4>3, <4>4, <4>5, <4>6 DEF CallAt, Inside
      <4>8. QED
        BY <3>1, <4>7
    <3>2. CASE d # c
      <4>1. client'[d] = client[d] /\ CallAt(d)
        BY <1>9, <3>2 DEF Inv, Calls
      <4>2. /\ <<d, 0>> \in Transfer /\ <<d, 1>> \in Transfer
            /\ Current(d) \in {<<d, 0>>, <<d, 1>>} /\ LastOf(d) = Current(d)
        BY TransferParts, TypeFacts DEF Inv
      <4>3. /\ xfer'[<<d, 0>>] = xfer[<<d, 0>>] /\ xfer'[<<d, 1>>] = xfer[<<d, 1>>]
            /\ xfer'[Current(d)] = xfer[Current(d)]
        BY <1>3, <1>7, <3>2, <4>2
      <4>4. Current(d)' = Current(d) /\ LastOf(d)' = LastOf(d)
        BY <4>1 DEF Current, LastOf
      <4>5. QED
        BY <1>1, <4>1, <4>2, <4>3, <4>4 DEF CallAt, Sync, Waiting
    <3>3. QED
      BY <3>1, <3>2
  <2>2. QED
    BY <2>1 DEF Calls
<1>13. Queue'
  <2>1. \A y \in Transfer : Waiting(y) => xfer'[y].num = xfer[y].num
    BY <1>7, <1>10
  <2>2. \A i \in 1..Len(engine.list) : engine.list[i] \in Transfer
    BY TypeFacts, ElementOfSeq DEF Inv
  <2>3. Queue
    BY DEF Inv
  <2>4. QED
    BY <1>1, <1>10, <2>1, <2>2, <2>3 DEF Queue
<1>14. Descriptors'
  <2>1. SUFFICES ASSUME NEW y \in Transfer, xfer'[y].state \in {"NEW", "SUBMITTED"}, Allocated(y)'
                 PROVE  Owns(y)'
    BY DEF Descriptors
  <2>2. ASSUME NEW i \in xfer'[y].first..(xfer'[y].first + xfer'[y].num - 1)
        PROVE  desc'[i] = [xfer |-> y, last |-> i = xfer'[y].first + xfer'[y].num - 1]
    <3>1. CASE y = x
      <4>1. xfer'[y].first = desc_idx /\ xfer'[y].num = n
        BY <1>6, <1>7, <3>1
      <4>2. i \in taken /\ i \in Ring
        BY <1>4, <1>5, <2>2, <4>1, Ranges DEF Ring
      <4>3. QED
        BY <1>1, <3>1, <4>1, <4>2
    <3>2. CASE y # x
      <4>1. xfer'[y] = xfer[y]
        BY <1>7, <3>2
      <4>2. Allocated(y)
        <5>1. y[1] \in Clients
          BY TransferParts
        <5>2. CASE y[1] = c
          BY <1>1, <5>2 DEF Allocated
        <5>3. CASE y[1] # c
          BY <1>9, <2>1, <5>1, <5>3 DEF Allocated
        <5>4. QED
          BY <5>2, <5>3
      <4>3. desc[i] = [xfer |-> y, last |-> i = xfer[y].first + xfer[y].num - 1]
        BY <2>1, <2>2, <4>1, <4>2 DEF Inv, Descriptors, Owns
      <4>4. InUse(i)
        BY <2>1, <2>2, <4>1, <4>2, <4>3 DEF InUse
      <4>5. i \in Ring
        <5>1. xfer[y].first \in 0..(MaxDesc - 1) /\ xfer[y].num \in 0..MaxDesc
              /\ xfer[y].first + xfer[y].num <= MaxDesc
          BY TypeFacts DEF Inv, Types, Ring
        <5>2. QED
          BY <2>2, <4>1, <5>1, Ranges DEF Ring
      <4>6. i \notin taken
        BY <1>1, <4>4, <4>5
      <4>7. desc'[i] = desc[i]
        BY <1>1, <4>5, <4>6
      <4>8. QED
        BY <4>1, <4>3, <4>7
    <3>3. QED
      BY <3>1, <3>2
  <2>3. QED
    BY <2>2 DEF Owns
<1>15. Core'
  <2>1. Core
    BY DEF Inv
  <2>2. engine.list # <<>> => Serving(Head(engine.list)) /\ Serving(Head(engine.list))'
    <3> DEFINE y == Head(engine.list)
    <3>1. SUFFICES ASSUME engine.list # <<>> PROVE Serving(y) /\ Serving(y)'
      OBVIOUS
    <3>2. Serving(y) /\ y \in Transfer /\ Waiting(y)
      BY <2>1, <3>1, HeadFacts DEF Core, Inv
    <3> HIDE DEF y
    <3>3. xfer'[y] = xfer[y] /\ moved'[y] = moved[y] /\ y' = y
      BY <1>1, <1>7, <1>8, <1>10, <3>2 DEF y
    <3>4. QED
      BY <1>1, <3>2, <3>3 DEF Serving
  <2>3. ASSUME NEW d \in Clients, client'[d].pc = "service"
        PROVE  client'[d].seen = [wb |-> hw.wb, err |-> hw.wbErr] /\ ~hw.busy
    <3>1. d # c
      BY <1>9, <2>3
    <3>2. QED
      BY <1>9, <2>1, <2>3, <3>1 DEF Core
  <2>4. QED
    BY <1>1, <2>1, <2>2, <2>3 DEF Core
<1>16. Carried'
  <2>1. Carried
    BY DEF Inv
  <2>2. QED
    BY <1>1, <1>6, <1>7, <1>8, <1>10, <2>1 DEF Carried, CompletedMeansMoved
<1>17. QED
  BY <1>11, <1>12, <1>13, <1>14, <1>15, <1>16 DEF Inv

LEMMA OtherCall ==
  ASSUME Inv, NEW d \in Clients, client'[d] = client[d], descLock' = descLock, poll_mode' = poll_mode,
         xfer'[<<d, 0>>] = xfer[<<d, 0>>], xfer'[<<d, 1>>] = xfer[<<d, 1>>]
  PROVE  CallAt(d)'
<1>1. CallAt(d)
  BY DEF Inv, Calls
<1>2. Current(d) \in {<<d, 0>>, <<d, 1>>} /\ LastOf(d) = Current(d)
  BY TypeFacts DEF Inv
<1>3. xfer'[Current(d)] = xfer[Current(d)]
  BY <1>2
<1>4. Current(d)' = Current(d) /\ LastOf(d)' = LastOf(d)
  BY DEF Current, LastOf
<1>5. QED
  BY <1>1, <1>2, <1>3, <1>4 DEF CallAt, Sync, Waiting

(* A transfer joins the queue, and an idle engine is started on it.        *)
LEMMA QueuedState ==
  ASSUME Inv, NEW x \in Transfer,
         Become(StartedIfIdle(With([engine EXCEPT !.list = Append(engine.list, x)], hw,
                                   [xfer EXCEPT ![x].state = "SUBMITTED"])))
  PROVE  /\ engine' \in Engines /\ hw' \in Cores /\ xfer' = Marked(xfer, x, "SUBMITTED")
         /\ engine'.list = Append(engine.list, x) /\ engine'.running /\ ~engine'.shutdown
         /\ engine.list # <<>> => hw' = hw /\ engine'.dequeued = engine.dequeued
                                  /\ engine'.status = engine.status
         /\ engine.list = <<>> =>
              /\ hw'.run /\ hw'.busy /\ hw'.next = xfer[x].first /\ hw'.count = 0
              /\ hw'.event = hw.event /\ hw'.err = hw.err /\ hw'.enabled = hw.enabled
              /\ hw'.wb = hw.wb /\ hw'.wbErr = hw.wbErr
              /\ engine'.dequeued = 0 /\ engine'.status.err = hw.err
<1> DEFINE en1 == [engine EXCEPT !.list = Append(engine.list, x)]
           xf == Marked(xfer, x, "SUBMITTED")
           s == With(en1, hw, xf)
           s1 == StartedIfIdle(s)
<1>1. engine' = s1.engine /\ hw' = s1.hw /\ xfer' = s1.xfer
  BY DEF Become, Marked
<1>2. engine \in Engines /\ hw \in Cores /\ xfer \in [Transfer -> Transfers] /\ engine.list \in Seq(Transfer)
  BY TypeFacts DEF Inv
<1>3. Append(engine.list, x) \in Seq(Transfer) /\ Append(engine.list, x) # <<>>
  BY <1>2, AppendProperties
<1>4. /\ en1 \in Engines /\ en1.list = Append(engine.list, x) /\ en1.running = engine.running
      /\ en1.shutdown = engine.shutdown /\ en1.dequeued = engine.dequeued /\ en1.status = engine.status
  BY <1>2, <1>3 DEF Engines
<1>5. ~engine.shutdown /\ engine.running = (engine.list # <<>>)
      /\ (engine.list = <<>> => ~hw.run)
  BY DEF Inv, Core
<1>6. s.engine = en1 /\ s.hw = hw /\ s.xfer = xf
  BY Parts
<1>7. CASE engine.list # <<>>
  <2> HIDE DEF s, en1
  <2>1. s1 = s
    BY <1>4, <1>5, <1>6, <1>7 DEF StartedIfIdle
  <2> HIDE DEF s1
  <2>2. engine' = en1 /\ hw' = hw /\ xfer' = xf
    BY <1>1, <1>6, <2>1
  <2>3. QED
    BY <1>2, <1>4, <1>5, <1>7, <2>2
<1>8. CASE engine.list = <<>>
  <2> DEFINE y == Head(en1.list)
             h1 == RunFrom(hw, xf[y].first)
             en2 == Begun(en1, h1)
  <2>1. Start(s) = With(en2, h1, xf)
    BY StartIs
  <2>2. y = x
    <3>1. Len(engine.list) = 0 /\ Append(engine.list, x)[Len(engine.list) + 1] = x
      BY <1>2, <1>8, AppendProperties, EmptySeq
    <3>2. Head(en1.list) = en1.list[1]
      BY <1>3, <1>4
    <3> HIDE DEF en1
    <3>3. QED
      BY <1>4, <3>1, <3>2
  <2> HIDE DEF s, en1, y
  <2>3. s1 = Start(s)
    BY <1>4, <1>5, <1>6, <1>8 DEF StartedIfIdle
  <2> HIDE DEF s1
  <2>4. xf[y].first = xfer[x].first /\ xfer[x].first \in Ring
    BY <1>2, <2>2, MarkedParts, TypeFacts DEF States, Inv
  <2>5. /\ h1 \in Cores /\ h1.run /\ h1.busy /\ h1.next = xfer[x].first /\ h1.count = 0
        /\ h1.event = hw.event /\ h1.err = hw.err /\ h1.enabled = hw.enabled /\ h1.wb = hw.wb
        /\ h1.wbErr = hw.wbErr
    BY <1>2, <1>5, <1>8, <2>4, RunParts
  <2> HIDE DEF h1
  <2>6. /\ en2 \in Engines /\ en2.list = en1.list /\ en2.running /\ ~en2.shutdown /\ en2.dequeued = 0
        /\ en2.status.err = h1.err
    BY <1>4, <2>5, BegunParts
  <2> HIDE DEF en2
  <2>7. engine' = en2 /\ hw' = h1 /\ xfer' = xf
    BY <1>1, <2>1, <2>3, Parts
  <2>8. QED
    BY <1>4, <1>8, <2>5, <2>6, <2>7
<1>9. QED
  BY <1>7, <1>8

LEMMA TransferQueueKeeps ==
  ASSUME Inv, NEW c \in Clients, TransferQueue(c)
  PROVE  Inv'
<1> DEFINE x == Current(c)
           l == engine.list
           more == client[c].kind = "aio" /\ client[c].left > 0
           p == IF client[c].kind = "sync" THEN "wait" ELSE IF client[c].left > 0 THEN "init" ELSE "queued"
           t == IF more THEN client[c].tfer + 1 ELSE client[c].tfer
<1>1. /\ client[c].pc = "queue" /\ power = "on"
      /\ Become(StartedIfIdle(With([engine EXCEPT !.list = Append(engine.list, x)], hw,
                                   [xfer EXCEPT ![x].state = "SUBMITTED"])))
      /\ client' = [client EXCEPT ![c].pc = p, ![c].tfer = t]
      /\ UNCHANGED <<poll_mode, power, descLock, desc_idx, desc, work, moved>>
  BY DEF TransferQueue, At
<1>2. /\ CallAt(c) /\ client \in [Clients -> CallRecords] /\ client[c] \in CallRecords
      /\ (descLock = c <=> Sync(c) /\ client[c].pc \in Inside)
      /\ Sync(c) => client[c].tfer = 0
  BY CallFacts
<1>3. x \in Transfer /\ x = <<c, client[c].tfer>> /\ client[c].tfer \in {0, 1} /\ x[1] = c /\ LastOf(c) = x
  BY TypeFacts DEF Inv
<1>4. /\ xfer[x].state = "NEW" /\ xfer[x].num > 0 /\ moved[x] = 0 /\ ~Waiting(x) /\ Allocated(x)
      /\ (client[c].tfer = 1 => client[c].left = 0 /\ xfer[<<c, 0>>].state # "NEW")
  BY <1>1, <1>2, <1>3 DEF CallAt, Inv, Carried, Waiting, Allocated
<1> HIDE DEF x
<1>5. /\ engine' \in Engines /\ hw' \in Cores /\ xfer' = Marked(xfer, x, "SUBMITTED")
      /\ engine'.list = Append(l, x) /\ engine'.running /\ ~engine'.shutdown
      /\ l # <<>> => hw' = hw /\ engine'.dequeued = engine.dequeued /\ engine'.status = engine.status
      /\ l = <<>> =>
           /\ hw'.run /\ hw'.busy /\ hw'.next = xfer[x].first /\ hw'.count = 0
           /\ hw'.event = hw.event /\ hw'.err = hw.err /\ hw'.enabled = hw.enabled
           /\ hw'.wb = hw.wb /\ hw'.wbErr = hw.wbErr
           /\ engine'.dequeued = 0 /\ engine'.status.err = hw.err
  BY <1>1, <1>3, QueuedState
<1>6. /\ xfer' \in [Transfer -> Transfers] /\ xfer'[x].state = "SUBMITTED"
      /\ \A y \in Transfer : /\ xfer'[y].first = xfer[y].first /\ xfer'[y].num = xfer[y].num
                             /\ y # x => xfer'[y] = xfer[y]
  <2> DEFINE xf == Marked(xfer, x, "SUBMITTED")
  <2>1. xfer \in [Transfer -> Transfers] /\ "SUBMITTED" \in States /\ x \in Transfer
    BY <1>3, TypeFacts DEF Inv, States
  <2>2. /\ xf \in [Transfer -> Transfers] /\ xf[x].state = "SUBMITTED"
        /\ \A y \in Transfer : /\ xf[y].first = xfer[y].first /\ xf[y].num = xfer[y].num
                               /\ y # x => xf[y] = xfer[y]
    BY <2>1, MarkedParts
  <2> HIDE DEF xf
  <2>3. xfer' = xf
    BY <1>5 DEF xf
  <2>4. QED
    BY <2>2, <2>3
<1>7. /\ p \in Labels /\ t \in {0, 1}
  <2>1. more => client[c].tfer = 0
    BY <1>2, <1>3, <1>4 DEF CallRecords
  <2>2. QED
    BY <1>3, <2>1 DEF Labels
<1>8. /\ client' \in [Clients -> CallRecords] /\ client'[c].pc = p
      /\ client'[c].kind = client[c].kind /\ client'[c].left = client[c].left
      /\ client'[c].tfer = t
      /\ \A d \in Clients : d # c => client'[d] = client[d]
  <2> HIDE DEF p, t
  <2>1. QED
    BY <1>1, <1>2, <1>7 DEF CallRecords
<1>9. \A y \in Transfer : Waiting(y)' <=> Waiting(y) \/ y = x
  BY <1>4, <1>6 DEF Waiting
<1>10. /\ l \in Seq(Transfer) /\ Append(l, x) \in Seq(Transfer) /\ Append(l, x) # <<>>
       /\ Len(l) \in Nat /\ Len(Append(l, x)) = Len(l) + 1
       /\ \A i \in 1..Len(l) : Append(l, x)[i] = l[i] /\ l[i] \in Transfer
       /\ Append(l, x)[Len(l) + 1] = x
  <2>1. l \in Seq(Transfer)
    BY TypeFacts DEF Inv
  <2>2. QED
    BY <1>3, <2>1, AppendProperties, LenProperties, ElementOfSeq
<1>11. Head(Append(l, x)) = IF l = <<>> THEN x ELSE Head(l)
  <2>1. Head(Append(l, x)) = Append(l, x)[1]
    BY <1>10
  <2>2. CASE l = <<>>
    <3>1. Len(l) = 0
      BY <2>2, EmptySeq
    <3>2. QED
      BY <1>10, <2>1, <2>2, <3>1
  <2>3. CASE l # <<>>
    <3>1. 1 \in 1..Len(l) /\ Head(l) = l[1]
      BY <2>3, HeadFacts DEF Inv
    <3>2. QED
      BY <1>10, <2>1, <2>3, <3>1
  <2>4. QED
    BY <2>2, <2>3
<1> HIDE DEF l
<1>12. Types'
  <2>1. Types
    BY DEF Inv
  <2>2. \A y \in Transfer : xfer'[y].first + xfer'[y].num <= MaxDesc
    BY <1>6, <2>1 DEF Types
  <2>3. QED
    BY <1>1, <1>5, <1>6, <1>8, <2>1, <2>2 DEF Types
<1>13. Calls'
  <2>1. ASSUME NEW d \in Clients PROVE CallAt(d)'
    <3>1. CASE d = c
      <4>1. /\ Current(c)' = <<c, t>> /\ LastOf(c)' = <<c, t>> /\ (Sync(c)' <=> Sync(c))
            /\ (Sync(c) <=> client[c].kind = "sync") /\ (Sync(c) <=> ~(client[c].kind = "aio"))
        BY <1>2, <1>8 DEF Current, LastOf, Sync, CallRecords
      <4>2. <<c, 0>> \in Transfer /\ <<c, 1>> \in Transfer
        BY TransferParts
      <4>3. client[c].tfer = 0 => xfer'[<<c, 1>>] = NoTransfer /\ x = <<c, 0>>
        <5>1. client[c].tfer = 0 => xfer[<<c, 1>>] = NoTransfer /\ <<c, 1>> # x
          BY <1>2, <1>3 DEF CallAt
        <5>2. QED
          BY <1>3, <1>6, <4>2, <5>1
      <4>4. poll_mode => Sync(c)
        BY <1>2 DEF CallAt
      <4>5. CASE Sync(c)
        <5>1. p = "wait" /\ t = 0 /\ client[c].tfer = 0
          BY <1>2, <4>1, <4>5
        <5> HIDE DEF p, t
        <5>2. CallAt(c)'
          BY <1>1, <1>2, <1>6, <1>8, <4>1, <4>3, <4>5, <5>1 DEF CallAt, Inside, Waiting
        <5>3. QED
          BY <3>1, <5>2
      <4>6. CASE ~Sync(c) /\ client[c].left > 0
        <5>1. p = "init" /\ t = 1 /\ client[c].tfer = 0
          BY <1>3, <1>4, <4>1, <4>6
        <5> HIDE DEF p, t
        <5>2. xfer'[<<c, 0>>].state = "SUBMITTED" /\ xfer'[<<c, 1>>].state = "NEW"
          BY <1>6, <4>3, <5>1 DEF NoTransfer
        <5>3. CallAt(c)'
          BY <1>1, <1>2, <1>8, <4>1, <4>4, <4>6, <5>1, <5>2 DEF CallAt, Inside, Waiting
        <5>4. QED
          BY <3>1, <5>3
      <4>7. CASE ~Sync(c) /\ ~(client[c].left > 0)
        <5>1. p = "queued" /\ t = client[c].tfer
          BY <4>1, <4>7
        <5>2. x = <<c, t>> /\ xfer'[<<c, t>>].state = "SUBMITTED" /\ t \in {0, 1}
          BY <1>3, <1>6, <5>1
        <5> HIDE DEF p, t
        <5>3. CallAt(c)'
          BY <1>1, <1>2, <1>8, <4>1, <4>3, <4>4, <4>7, <5>1, <5>2 DEF CallAt, Inside, Waiting
        <5>4. QED
          BY <3>1, <5>3
      <4>8. QED
        BY <4>5, <4>6, <4>7
    <3>2. CASE d # c
      <4>1. <<d, 0>> \in Transfer /\ <<d, 1>> \in Transfer /\ <<d, 0>> # x /\ <<d, 1>> # x
        BY <1>3, <3>2, TransferParts
      <4>2. xfer'[<<d, 0>>] = xfer[<<d, 0>>] /\ xfer'[<<d, 1>>] = xfer[<<d, 1>>]
        BY <1>6, <4>1
      <4>3. client'[d] = client[d] /\ descLock' = descLock /\ poll_mode' = poll_mode
        BY <1>1, <1>8, <3>2
      <4>4. QED
        BY <4>2, <4>3, OtherCall
    <3>3. QED
      BY <3>1, <3>2
  <2>2. QED
    BY <2>1 DEF Calls
<1>14. Queue'
  <2> DEFINE k == Append(l, x)
  <2>1. /\ \A y \in Transfer : Waiting(y) => (\E i \in 1..Len(l) : l[i] = y) /\ xfer[y].num > 0
        /\ \A i \in 1..Len(l) : Waiting(l[i])
        /\ \A i, j \in 1..Len(l) : i < j => l[i] # l[j] /\ (l[i][1] = l[j][1] => l[i][2] = 0)
    BY DEF Inv, Queue, l
  <2>2. Len(k) \in Nat /\ 1..Len(l) \subseteq 1..Len(k) /\ Len(k) \in 1..Len(k) /\ k[Len(k)] = x
        /\ \A i \in 1..Len(k) : i = Len(k) \/ i \in 1..Len(l)
    BY <1>10
  <2>3. \A i \in 1..Len(l) : k[i] = l[i] /\ l[i] \in Transfer
    BY <1>10
  <2> HIDE DEF k
  <2>4. ASSUME NEW y \in Transfer, Waiting(y)'
        PROVE  (\E i \in 1..Len(k) : k[i] = y) /\ xfer'[y].num > 0
    <3>1. CASE y = x
      BY <1>4, <1>6, <2>2, <3>1
    <3>2. CASE y # x
      <4>1. Waiting(y)
        BY <1>9, <2>4, <3>2
      <4>2. QED
        BY <1>6, <2>1, <2>2, <2>3, <4>1
    <3>3. QED
      BY <3>1, <3>2
  <2>5. ASSUME NEW i \in 1..Len(k) PROVE xfer'[k[i]].state = "SUBMITTED"
    <3>1. CASE i = Len(k)
      BY <1>3, <1>6, <2>2, <3>1
    <3>2. CASE i \in 1..Len(l)
      <4>1. k[i] \in Transfer /\ Waiting(k[i])
        BY <2>1, <2>3, <3>2
      <4>2. QED
        BY <1>4, <1>6, <4>1 DEF Waiting
    <3>3. QED
      BY <2>2, <3>1, <3>2
  <2>6. ASSUME NEW i \in 1..Len(k), NEW j \in 1..Len(k), i < j
        PROVE  k[i] # k[j] /\ (k[i][1] = k[j][1] => k[i][2] = 0)
    <3>1. i \in 1..Len(l) /\ k[i] = l[i] /\ l[i] \in Transfer /\ Waiting(l[i])
      BY <2>1, <2>2, <2>3, <2>6
    <3>2. CASE j \in 1..Len(l)
      <4>1. k[j] = l[j]
        BY <2>3, <3>2
      <4>2. QED
        BY <2>1, <2>6, <3>1, <3>2, <4>1
    <3>3. CASE j = Len(k)
      <4>1. k[j] = x /\ l[i] # x
        BY <1>4, <2>2, <3>1, <3>3
      <4>2. ASSUME l[i][1] = x[1] PROVE l[i][2] = 0
        <5>1. l[i] = <<c, 0>> \/ l[i] = <<c, 1>>
          BY <1>3, <3>1, <4>2, TransferParts
        <5>2. CASE l[i] = <<c, 1>>
          <6>1. x = <<c, 0>>
            BY <1>3, <4>1, <5>2
          <6>2. client[c].tfer = 0
            BY <1>3, <6>1
          <6>3. xfer[<<c, 1>>].state = "NEW"
            BY <1>2, <6>2 DEF CallAt, NoTransfer
          <6>4. QED
            BY <3>1, <5>2, <6>3 DEF Waiting
        <5>3. QED
          BY <5>1, <5>2
      <4>3. QED
        BY <3>1, <4>1, <4>2
    <3>4. QED
      BY <2>2, <3>2, <3>3
  <2>7. engine'.list = k
    BY <1>5 DEF k
  <2>8. QED
    BY <2>4, <2>5, <2>6, <2>7 DEF Queue, Waiting
<1>15. Descriptors'
  <2>1. SUFFICES ASSUME NEW y \in Transfer, xfer'[y].state \in {"NEW", "SUBMITTED"}, Allocated(y)'
                 PROVE  Owns(y)'
    BY DEF Descriptors
  <2>2. Allocated(y) /\ xfer[y].state \in {"NEW", "SUBMITTED"}
    <3>1. y[1] \in Clients
      BY TransferParts
    <3>2. CASE y[1] = c
      BY <1>1, <1>4, <1>6, <2>1, <3>2 DEF Allocated
    <3>3. CASE y[1] # c
      <4>1. y # x /\ client'[y[1]] = client[y[1]]
        BY <1>3, <1>8, <3>1, <3>3
      <4>2. QED
        BY <1>6, <2>1, <4>1 DEF Allocated
    <3>4. QED
      BY <3>2, <3>3
  <2>3. Owns(y)
    BY <2>2 DEF Inv, Descriptors
  <2>4. QED
    BY <1>1, <1>6, <2>3 DEF Owns
<1>16. Core'
  <2>1. Core
    BY DEF Inv
  <2>2. CASE l # <<>>
    <3> DEFINE y == Head(l)
    <3>1. Serving(y) /\ y \in Transfer
      BY <2>1, <2>2, HeadFacts DEF Core, Inv, l
    <3>2. Head(engine'.list) = y
      BY <1>5, <1>11, <2>2
    <3> HIDE DEF y
    <3>3. /\ xfer'[y].first = xfer[y].first /\ xfer'[y].num = xfer[y].num /\ moved'[y] = moved[y]
          /\ hw' = hw /\ engine'.dequeued = engine.dequeued /\ engine'.status = engine.status
      BY <1>1, <1>5, <1>6, <2>2, <3>1
    <3> DEFINE z == Head(engine'.list)
    <3>4. LET q == Head(engine.list) IN Serving(q)'
      BY <1>1, <3>1, <3>2, <3>3 DEF Serving
    <3>5. engine'.list # <<>> /\ engine.list # <<>>
      BY <1>5, <1>10, <2>2 DEF l
    <3>6. ASSUME NEW d \in Clients, client'[d].pc = "service"
          PROVE  client'[d].seen = [wb |-> hw.wb, err |-> hw.wbErr] /\ ~hw.busy
      <4>1. d # c
        BY <1>8, <3>6
      <4>2. QED
        BY <1>8, <2>1, <3>6, <4>1 DEF Core
    <3>7. engine'.running = (engine'.list # <<>>)
      BY <1>5, <3>5 DEF Engines
    <3>8. QED
      BY <1>1, <1>5, <2>1, <3>3, <3>4, <3>5, <3>6, <3>7 DEF Core
  <2>3. CASE l = <<>>
    <3>1. ~hw.run /\ ~hw.busy /\ ~hw.err /\ hw.wb = 0 /\ ~hw.wbErr /\ (~poll_mode => ~hw.event /\ ~work)
      BY <2>1, <2>3 DEF Core, l
    <3>2. Head(engine'.list) = x
      BY <1>5, <1>11, <2>3
    <3>3. xfer[x].num \in Nat /\ xfer[x].first \in Nat
      BY <1>3, TypeFacts, Ranges DEF Inv, Ring
    <3>4. /\ hw'.run /\ hw'.busy /\ hw'.next = xfer[x].first /\ hw'.count = 0 /\ ~hw'.err
          /\ (~poll_mode => ~hw'.event) /\ hw'.enabled = hw.enabled /\ hw'.wb = 0 /\ ~hw'.wbErr
          /\ engine'.dequeued = 0 /\ ~engine'.status.err
      BY <1>5, <2>3, <3>1
    <3>5. hw'.wbErr = hw'.err
      BY <1>5, <3>4 DEF Cores
    <3>6. /\ hw'.run /\ engine'.dequeued = 0 /\ moved'[x] = hw'.count /\ hw'.count <= xfer'[x].num
          /\ hw'.count < xfer'[x].num /\ hw'.next = xfer'[x].first + hw'.count
          /\ hw'.wb <= hw'.count
      BY <1>1, <1>3, <1>4, <1>6, <3>3, <3>4
    <3>7. LET q == Head(engine.list) IN Serving(q)'
      BY <3>2, <3>4, <3>5, <3>6 DEF Serving
    <3>8. \A d \in Clients : client'[d].pc # "service"
      <4>1. SUFFICES ASSUME NEW d \in Clients, client'[d].pc = "service" PROVE FALSE
        OBVIOUS
      <4>2. d # c /\ client[d].pc = "service"
        BY <1>8, <4>1
      <4>3. poll_mode
        BY <4>2, CallFacts DEF CallAt
      <4>4. engine.list # <<>>
        BY <4>2, <4>3, PolledAlone
      <4>5. QED
        BY <2>3, <4>4 DEF l
    <3>9. engine'.list # <<>> /\ engine'.running = (engine'.list # <<>>)
      BY <1>5, <1>10 DEF Engines
    <3>10. QED
      BY <1>1, <1>5, <2>1, <3>4, <3>7, <3>8, <3>9 DEF Core
  <2>4. QED
    BY <2>2, <2>3
<1>17. Carried'
  <2>1. Carried
    BY DEF Inv
  <2>2. ASSUME NEW y \in Transfer, Waiting(y)', y # Head(engine'.list) PROVE moved[y] = 0
    <3>1. CASE y = x
      BY <1>4, <3>1
    <3>2. CASE y # x
      <4>1. Waiting(y)
        BY <1>9, <2>2, <3>2
      <4>2. l # <<>>
        BY <1>5, <1>11, <2>2, <3>2, <4>1 DEF Inv, Queue, l
      <4>3. y # Head(engine.list)
        BY <1>5, <1>11, <2>2, <4>2 DEF l
      <4>4. QED
        BY <2>1, <4>1, <4>3 DEF Carried
    <3>3. QED
      BY <3>1, <3>2
  <2>3. ASSUME NEW y \in Transfer
        PROVE  /\ xfer'[y].state = "NEW" => moved[y] = 0
               /\ xfer'[y].state = "COMPLETED" => moved[y] = xfer'[y].num
    BY <1>6, <2>1 DEF Carried, CompletedMeansMoved
  <2>4. QED
    BY <1>1, <2>2, <2>3 DEF Carried, CompletedMeansMoved
<1>18. QED
  BY <1>12, <1>13, <1>14, <1>15, <1>16, <1>17 DEF Inv

-----------------------------------------------------------------------------
(* The service: the head has left the queue, and the next is begun.        *)
LEMMA TailFacts ==
  ASSUME Types, Calls, Queue, Descriptors, engine.list # <<>>
  PROVE  LET l == engine.list
             k == Tail(l)
         IN /\ k \in Seq(Transfer) /\ Len(l) \in Nat /\ Len(k) = Len(l) - 1 /\ l[1] = Head(l)
            /\ 1 \in 1..Len(l)
            /\ \A i \in 1..Len(k) : k[i] = l[i + 1] /\ i + 1 \in 1..Len(l) /\ k[i] \in Transfer
                                    /\ k[i] # Head(l) /\ Waiting(k[i])
            /\ \A i \in 1..Len(l) : l[i] = Head(l) \/ (i - 1 \in 1..Len(k) /\ k[i - 1] = l[i])
            /\ k # <<>> => Head(k) = k[1] /\ 1 \in 1..Len(k)
            /\ ToSet(l) \ ToSet(k) = {Head(l)}
<1> DEFINE l == engine.list
           k == Tail(l)
           x == Head(l)
<1>1. l \in Seq(Transfer)
  BY TypeFacts
<1>2. x = l[1] /\ Len(l) \in Nat /\ 1 \in 1..Len(l)
  BY HeadFacts
<1>3. /\ k \in Seq(Transfer) /\ Len(k) = Len(l) - 1 /\ \A i \in 1..Len(k) : k[i] = l[i + 1]
  BY <1>1, HeadTailProperties
<1>4. /\ \A i \in 1..Len(l) : Waiting(l[i])
      /\ \A i, j \in 1..Len(l) : i < j => l[i] # l[j]
  BY DEF Queue
<1>5. DOMAIN l = 1..Len(l) /\ DOMAIN k = 1..Len(k)
  BY <1>1, <1>3
<1>6. \A i \in 1..Len(k) : k[i] \in Transfer
  BY <1>3, ElementOfSeq
<1>7. k # <<>> => Head(k) = k[1] /\ 1 \in 1..Len(k)
  <2>1. k # <<>> => Len(k) \in Nat \ {0}
    <3>1. \A s \in Seq(Transfer) : s # <<>> => Len(s) \in Nat \ {0}
      BY EmptySeq
    <3> HIDE DEF k
    <3>2. QED
      BY <1>3, <3>1
  <2>2. QED
    BY <1>3, <2>1
<1> HIDE DEF l, k, x
<1>8. ASSUME NEW i \in 1..Len(k)
      PROVE  k[i] = l[i + 1] /\ i + 1 \in 1..Len(l) /\ k[i] # x /\ Waiting(k[i])
  <2>1. i + 1 \in 1..Len(l) /\ 1 < i + 1 /\ k[i] = l[i + 1]
    BY <1>2, <1>3
  <2>2. l[1] # l[i + 1] /\ Waiting(l[i + 1])
    BY <1>2, <1>4, <2>1
  <2>3. QED
    BY <1>2, <2>1, <2>2
<1>9. ASSUME NEW i \in 1..Len(l)
      PROVE  l[i] = x \/ (i - 1 \in 1..Len(k) /\ k[i - 1] = l[i])
  <2>1. CASE i = 1
    BY <1>2, <2>1
  <2>2. CASE i # 1
    <3>1. i - 1 \in 1..Len(k) /\ (i - 1) + 1 = i
      BY <1>2, <1>3, <2>2
    <3>2. QED
      BY <1>3, <3>1
  <2>3. QED
    BY <2>1, <2>2
<1>10. ToSet(l) \ ToSet(k) = {x}
  <2>1. ASSUME NEW y PROVE y \in ToSet(l) \ ToSet(k) <=> y = x
    <3>1. x \in ToSet(l)
      BY <1>2, <1>5 DEF ToSet
    <3>2. x \notin ToSet(k)
      BY <1>5, <1>8 DEF ToSet
    <3>3. ASSUME y \in ToSet(l), y # x PROVE y \in ToSet(k)
      <4>1. PICK i \in 1..Len(l) : y = l[i]
        BY <1>5, <3>3 DEF ToSet
      <4>2. i - 1 \in 1..Len(k) /\ k[i - 1] = y
        BY <1>9, <3>3, <4>1
      <4>3. QED
        BY <1>5, <4>2 DEF ToSet
    <3>4. QED
      BY <3>1, <3>2, <3>3
  <2>2. QED
    BY <2>1
<1>11. QED
  BY <1>2, <1>3, <1>6, <1>7, <1>8, <1>9, <1>10 DEF l, k, x

(* The head leaves the queue in state r.                                   *)
Served(r) ==
  /\ engine' \in Engines /\ hw' \in Cores /\ xfer' = Marked(xfer, Head(engine.list), r)
  /\ engine'.list = Tail(engine.list) /\ engine'.running = (Tail(engine.list) # <<>>)
  /\ ~engine'.shutdown /\ ~hw'.err /\ (~poll_mode => hw'.enabled /\ ~hw'.event)
  /\ hw'.wb = 0 /\ ~hw'.wbErr
  /\ IF Tail(engine.list) = <<>> THEN ~hw'.run /\ ~hw'.busy
     ELSE /\ hw'.run /\ hw'.busy /\ hw'.next = xfer[Head(Tail(engine.list))].first /\ hw'.count = 0
          /\ engine'.dequeued = 0 /\ ~engine'.status.err

LEMMA QueueNext ==
  ASSUME NEW k, engine'.list = k,
         \A y \in Transfer : xfer'[y].state = "SUBMITTED" => (\E i \in 1..Len(k) : k[i] = y) /\ xfer'[y].num > 0,
         \A i \in 1..Len(k) : xfer'[k[i]].state = "SUBMITTED",
         \A i, j \in 1..Len(k) : i < j => k[i] # k[j] /\ (k[i][1] = k[j][1] => k[i][2] = 0)
  PROVE  Queue'
BY DEF Queue, Waiting

LEMMA ServedKeeps ==
  ASSUME Inv, engine.list # <<>>, NEW r \in {"COMPLETED", "FAILED"},
         r = "COMPLETED" => moved[Head(engine.list)] = xfer[Head(engine.list)].num,
         UNCHANGED <<poll_mode, power, descLock, desc_idx, desc, moved>>, work' = FALSE,
         Served(r),
         client' \in [Clients -> CallRecords], \A d \in Clients : CallAt(d)',
         \A d \in Clients : /\ client'[d].pc # "service"
                            /\ client'[d].pc \in {"idle", "lock", "over"}
                                 \/ client[d].pc \notin {"idle", "lock", "over"}
  PROVE  Inv'
<1> DEFINE l == engine.list
           k == Tail(l)
           x == Head(l)
<1>1. /\ k \in Seq(Transfer) /\ Len(l) \in Nat /\ Len(k) = Len(l) - 1 /\ l[1] = Head(l)
      /\ 1 \in 1..Len(l)
      /\ \A i \in 1..Len(k) : k[i] = l[i + 1] /\ i + 1 \in 1..Len(l) /\ k[i] \in Transfer
                              /\ k[i] # Head(l) /\ Waiting(k[i])
      /\ \A i \in 1..Len(l) : l[i] = Head(l) \/ (i - 1 \in 1..Len(k) /\ k[i - 1] = l[i])
      /\ k # <<>> => Head(k) = k[1] /\ 1 \in 1..Len(k)
  BY TailFacts DEF Inv
<1>2. x \in Transfer /\ xfer[x].state = "SUBMITTED"
  BY HeadFacts DEF Inv, Waiting
<1>3. /\ xfer' \in [Transfer -> Transfers] /\ xfer'[x].state = r
      /\ \A y \in Transfer : /\ xfer'[y].first = xfer[y].first /\ xfer'[y].num = xfer[y].num
                             /\ y # x => xfer'[y] = xfer[y]
  <2> DEFINE xf == Marked(xfer, x, r)
  <2>1. xfer \in [Transfer -> Transfers] /\ r \in States
    BY TypeFacts DEF Inv, States
  <2> HIDE DEF x
  <2>2. /\ xf \in [Transfer -> Transfers] /\ xf[x].state = r
        /\ \A y \in Transfer : /\ xf[y].first = xfer[y].first /\ xf[y].num = xfer[y].num
                               /\ y # x => xf[y] = xfer[y]
    BY <1>2, <2>1, MarkedParts
  <2> HIDE DEF xf
  <2>3. xfer' = xf
    BY DEF xf, x, Served
  <2>4. QED
    BY <2>2, <2>3
<1>4. \A y \in Transfer : Waiting(y)' <=> Waiting(y) /\ y # x
  BY <1>2, <1>3 DEF Waiting
<1>5. engine'.list = k
  BY DEF Served
<1> HIDE DEF l, k, x
<1>6. Types'
  <2>1. Types
    BY DEF Inv
  <2>2. \A y \in Transfer : xfer'[y].first + xfer'[y].num <= MaxDesc
    BY <1>3, <2>1 DEF Types
  <2>3. QED
    BY <1>3, <2>1, <2>2 DEF Types, Served
<1>7. Calls'
  BY DEF Calls
<1>8. Queue'
  <2>1. /\ \A y \in Transfer : Waiting(y) => (\E i \in 1..Len(l) : l[i] = y) /\ xfer[y].num > 0
        /\ \A i, j \in 1..Len(l) : i < j => l[i] # l[j] /\ (l[i][1] = l[j][1] => l[i][2] = 0)
    BY DEF Inv, Queue, l
  <2>2. ASSUME NEW y \in Transfer, Waiting(y)'
        PROVE  (\E i \in 1..Len(k) : k[i] = y) /\ xfer'[y].num > 0
    <3>1. Waiting(y) /\ y # x
      BY <1>4, <2>2
    <3>2. PICK i \in 1..Len(l) : l[i] = y
      BY <2>1, <3>1
    <3>3. i - 1 \in 1..Len(k) /\ k[i - 1] = y
      BY <1>1, <3>1, <3>2 DEF x
    <3>4. QED
      BY <1>3, <2>1, <3>1, <3>3
  <2>3. ASSUME NEW i \in 1..Len(k) PROVE xfer'[k[i]].state = "SUBMITTED"
    BY <1>1, <1>3 DEF Waiting, x
  <2>4. ASSUME NEW i \in 1..Len(k), NEW j \in 1..Len(k), i < j
        PROVE  k[i] # k[j] /\ (k[i][1] = k[j][1] => k[i][2] = 0)
    <3>1. /\ k[i] = l[i + 1] /\ k[j] = l[j + 1] /\ i + 1 \in 1..Len(l) /\ j + 1 \in 1..Len(l)
          /\ i + 1 < j + 1
      BY <1>1, <2>4
    <3>2. QED
      BY <2>1, <3>1
  <2>5. \A y \in Transfer : xfer'[y].state = "SUBMITTED" => (\E i \in 1..Len(k) : k[i] = y) /\ xfer'[y].num > 0
    BY <2>2 DEF Waiting
  <2>6. \A i, j \in 1..Len(k) : i < j => k[i] # k[j] /\ (k[i][1] = k[j][1] => k[i][2] = 0)
    BY <2>4
  <2>7. QED
    BY <1>5, <2>3, <2>5, <2>6, QueueNext
<1>9. Descriptors'
  <2>1. SUFFICES ASSUME NEW y \in Transfer, xfer'[y].state \in {"NEW", "SUBMITTED"}, Allocated(y)'
                 PROVE  Owns(y)'
    BY DEF Descriptors
  <2>2. y # x /\ xfer[y].state \in {"NEW", "SUBMITTED"}
    BY <1>3, <2>1
  <2>3. Allocated(y)
    <3>1. y[1] \in Clients
      BY TransferParts
    <3>2. client[y[1]].pc \notin {"idle", "lock", "over"}
      BY <2>1, <3>1 DEF Allocated
    <3>3. QED
      BY <3>2, AllocatedIs DEF Inv
  <2>4. Owns(y)
    BY <2>2, <2>3 DEF Inv, Descriptors
  <2>5. QED
    BY <1>3, <2>4 DEF Owns
<1>10. k # <<>> => /\ Head(k) \in Transfer /\ Waiting(Head(k)) /\ Head(k) # x
                   /\ moved[Head(k)] = 0 /\ xfer[Head(k)].num > 0
  <2>1. SUFFICES ASSUME k # <<>>
                 PROVE  /\ Head(k) \in Transfer /\ Waiting(Head(k)) /\ Head(k) # x
                        /\ moved[Head(k)] = 0 /\ xfer[Head(k)].num > 0
    OBVIOUS
  <2>2. Head(k) \in Transfer /\ Waiting(Head(k)) /\ Head(k) # x
    BY <1>1, <2>1 DEF x
  <2>3. QED
    BY <2>2 DEF Inv, Carried, Queue, x, l
<1>11. Core'
  <2>1. Core
    BY DEF Inv
  <2>2. CASE k # <<>>
    <3> DEFINE y == Head(k)
    <3>1. /\ y \in Transfer /\ moved[y] = 0 /\ xfer[y].num > 0
          /\ xfer[y].num \in Nat /\ xfer[y].first \in Nat
      BY <1>10, <2>2, TypeFacts, Ranges DEF Inv, Ring
    <3>2. /\ hw'.run /\ hw'.busy /\ hw'.next = xfer[y].first /\ hw'.count = 0
          /\ engine'.dequeued = 0 /\ ~engine'.status.err
      BY <2>2 DEF k, l, Served
    <3>3. Head(engine'.list) = y /\ engine'.list # <<>>
      BY <1>5, <2>2
    <3> HIDE DEF y
    <3>4. /\ hw'.wbErr = hw'.err /\ ~hw'.err /\ ~hw'.wbErr /\ hw'.wb = 0 /\ ~engine'.shutdown
          /\ (~poll_mode => ~hw'.event)
      BY DEF Cores, Served
    <3>5. /\ moved'[y] = hw'.count /\ hw'.count <= xfer'[y].num /\ hw'.wb <= hw'.count
          /\ hw'.count < xfer'[y].num /\ hw'.next = xfer'[y].first + hw'.count
      BY <1>3, <3>1, <3>2, <3>4
    <3>6. LET q == Head(engine.list) IN Serving(q)'
      BY <3>2, <3>3, <3>4, <3>5 DEF Serving
    <3>7. engine'.running = (engine'.list # <<>>)
      BY <1>5 DEF k, l, Served
    <3>8. ~poll_mode => hw'.enabled = TRUE
      BY DEF Cores, Served
    <3>9. QED
      BY <2>1, <3>2, <3>3, <3>4, <3>6, <3>7, <3>8 DEF Core
  <2>3. CASE k = <<>>
    <3>1. ~hw'.run /\ ~hw'.busy /\ engine'.list = <<>> /\ engine'.running = (engine'.list # <<>>)
      BY <1>5, <2>3 DEF k, l, Served
    <3>2. ~poll_mode => hw'.enabled = TRUE
      BY DEF Cores, Served
    <3>3. ~hw'.err /\ ~hw'.wbErr /\ hw'.wb = 0 /\ ~engine'.shutdown /\ (~poll_mode => ~hw'.event)
      BY DEF Served
    <3>4. QED
      BY <2>1, <3>1, <3>2, <3>3 DEF Core
  <2>4. QED
    BY <2>2, <2>3
<1>12. Carried'
  <2>1. Carried
    BY DEF Inv
  <2>2. \A y \in Transfer : xfer'[y].state = "NEW" => moved[y] = 0
    BY <1>3, <2>1 DEF Carried
  <2>3. \A y \in Transfer : Waiting(y)' => moved[y] = 0
    BY <1>4, <2>1 DEF Carried, x, l
  <2>4. ASSUME NEW y \in Transfer, xfer'[y].state = "COMPLETED" PROVE moved[y] = xfer'[y].num
    <3>1. CASE y = x
      BY <1>3, <2>4, <3>1 DEF x, l
    <3>2. CASE y # x
      BY <1>3, <2>1, <2>4, <3>2 DEF Carried, CompletedMeansMoved
    <3>3. QED
      BY <3>1, <3>2
  <2>5. QED
    BY <2>2, <2>3, <2>4 DEF Carried, CompletedMeansMoved
<1>13. QED
  BY <1>6, <1>7, <1>8, <1>9, <1>11, <1>12 DEF Inv

(* A call that the service leaves where it is, in interrupt mode.          *)
LEMMA ServedCall ==
  ASSUME Inv, engine.list # <<>>, ~poll_mode, NEW r \in {"COMPLETED", "FAILED"}, NEW d \in Clients,
         xfer' = Marked(xfer, Head(engine.list), r), UNCHANGED <<poll_mode, descLock>>,
         client'[d] = client[d], client[d].pc = "queued" => LastOf(d) # Head(engine.list)
  PROVE  CallAt(d)'
<1> DEFINE x == Head(engine.list)
<1>1. CallAt(d)
  BY DEF Inv, Calls
<1>2. /\ <<d, 0>> \in Transfer /\ <<d, 1>> \in Transfer /\ Current(d) \in Transfer
      /\ LastOf(d) = Current(d) /\ Current(d) = <<d, client[d].tfer>> /\ client[d].tfer \in {0, 1}
  BY TransferParts, TypeFacts DEF Inv
<1>3. x \in Transfer /\ xfer[x].state = "SUBMITTED"
  BY HeadFacts DEF Inv, Waiting
<1>4. \A y \in Transfer : IF y = x THEN xfer'[y].state = r ELSE xfer'[y] = xfer[y]
  BY <1>3, MarkedParts, TypeFacts DEF Inv, States
<1> HIDE DEF x
<1>5. Current(d)' = Current(d) /\ LastOf(d)' = LastOf(d) /\ (Sync(d)' <=> Sync(d))
  BY DEF Current, LastOf, Sync
<1>6. \A y \in Transfer : /\ xfer[y] = NoTransfer => xfer'[y] = NoTransfer
                          /\ xfer[y].state = "NEW" => xfer'[y] = xfer[y]
                          /\ xfer[y].state # "NEW" => xfer'[y].state # "NEW"
                          /\ ~Waiting(y) => xfer'[y].state # "SUBMITTED"
                          /\ Waiting(y) => Waiting(y)' \/ xfer'[y].state \in {"COMPLETED", "FAILED"}
                          /\ xfer[y].state \in {"COMPLETED", "FAILED"} =>
                               xfer'[y].state \in {"COMPLETED", "FAILED"}
                          /\ y # x => (Waiting(y) => Waiting(y)')
  BY <1>3, <1>4 DEF Waiting, NoTransfer
<1>7. client[d].pc = "queued" => Current(d) # x
  BY <1>2 DEF x
<1>8. /\ client[d].tfer = 0 => xfer'[<<d, 1>>] = NoTransfer
      /\ client[d].pc \in {"idle", "lock"} => xfer'[<<d, 0>>] = NoTransfer /\ client[d].tfer = 0
      /\ client[d].pc = "init"  => xfer'[Current(d)].state # "SUBMITTED"
      /\ client[d].pc = "queue" => xfer'[Current(d)].state = "NEW" /\ xfer'[Current(d)].num > 0
      /\ client[d].pc \in {"init", "queue"} /\ client[d].tfer = 1 => xfer'[<<d, 0>>].state # "NEW"
      /\ client[d].pc = "queued" => xfer'[Current(d)].state = "SUBMITTED"
      /\ client[d].pc = "wait" => xfer'[Current(d)].state \in {"SUBMITTED", "COMPLETED", "FAILED"}
      /\ client[d].pc # "service"
      /\ client[d].pc = "finish" => xfer'[Current(d)].state \in {"COMPLETED", "FAILED"}
      /\ client[d].pc = "over" =>
           xfer'[<<d, 0>>].state # "SUBMITTED" /\ xfer'[<<d, 1>>].state # "SUBMITTED"
  BY <1>1, <1>2, <1>6, <1>7 DEF CallAt, Waiting
<1>9. QED
  BY <1>1, <1>2, <1>5, <1>8 DEF CallAt, Waiting

LEMMA EngineServiceWorkKeeps ==
  ASSUME Inv, EngineServiceWork
  PROVE  Inv'
<1> DEFINE x == Head(engine.list)
           k == Tail(engine.list)
           s == Service(State, 0, FALSE)
           r == Outcome(0)
           xf == Marked(xfer, x, r)
<1>1. /\ work /\ work' = FALSE /\ Become(With(s.engine, Reenabled(s), s.xfer)) /\ Callbacks(s)
      /\ UNCHANGED <<poll_mode, power, descLock, desc_idx, desc, moved>>
  BY DEF EngineServiceWork
<1>2. /\ ~poll_mode /\ engine.list # <<>> /\ ~hw.busy /\ engine.running /\ ~engine.shutdown
      /\ hw.wb = 0 /\ ~hw.wbErr /\ Serving(x)
  BY <1>1 DEF Inv, Core
<1>3. /\ engine \in Engines /\ hw \in Cores /\ xfer \in [Transfer -> Transfers]
      /\ client \in [Clients -> CallRecords] /\ poll_mode \in BOOLEAN
      /\ x \in Transfer /\ hw.count \in Nat /\ xfer[x].num \in Nat
  BY <1>2, TypeFacts, HeadFacts, Ranges DEF Inv, Cores
<1>4. engine.dequeued = 0 /\ hw.count <= xfer[x].num /\ moved[x] = hw.count
  BY <1>2 DEF Serving
<1>5. PICK en \in Engines, h \in Cores :
        /\ s = With(en, h, xf)
        /\ en.list = k /\ en.running = (k # <<>>) /\ ~en.shutdown
        /\ ~h.err /\ ~h.event /\ h.wb = 0 /\ ~h.wbErr
        /\ IF k = <<>> THEN ~h.run /\ ~h.busy
           ELSE /\ h.run /\ h.busy /\ h.next = xfer[Head(k)].first /\ h.count = 0
                /\ en.dequeued = 0 /\ ~en.status.err
  <2>1. 0 \in Nat /\ 0 <= xfer[x].num /\ (FALSE = TRUE \/ FALSE = FALSE)
        /\ (0 # 0 /\ FALSE = FALSE => ~engine.status.err /\ ~hw.err)
    BY <1>3
  <2>2. PICK en \in Engines, h \in Cores : s = With(en, h, xf) /\ Begins(en, h, 0)
    BY <1>2, <1>3, <1>4, <2>1, ServiceResult, Zenon
  <2> HIDE DEF s, xf
  <2>3. QED
    BY <1>2, <2>2 DEF Begins
<1>6. hw' = [h EXCEPT !.enabled = TRUE] /\ engine' = en /\ xfer' = xf
      /\ s.engine = en
  <2> HIDE DEF s, xf
  <2>1. s.engine = en /\ s.hw = h /\ s.xfer = xf
    BY <1>5, Parts
  <2>2. QED
    BY <1>1, <2>1, Parts DEF Become, Reenabled
<1>7. Served(r)
  <2> HIDE DEF s, xf, r, k
  <2>1. /\ hw' \in Cores /\ ~hw'.err /\ hw'.enabled /\ ~hw'.event /\ hw'.wb = 0 /\ ~hw'.wbErr
        /\ hw'.run = h.run /\ hw'.busy = h.busy /\ hw'.next = h.next /\ hw'.count = h.count
    BY <1>5, <1>6 DEF Cores
  <2>2. QED
    BY <1>5, <1>6, <2>1 DEF Served, xf, k
<1>8. r \in {"COMPLETED", "FAILED"} /\ (r = "COMPLETED" => moved[x] = xfer[x].num)
  BY <1>3, <1>4 DEF Outcome
<1>9. ToSet(engine.list) \ ToSet(s.engine.list) = {x}
  BY <1>2, <1>5, <1>6, TailFacts DEF Inv
<1> HIDE DEF s, xf, r
<1>10. \A d \in Clients : IoDone(d, s) <=> client[d].pc = "queued" /\ LastOf(d) = x
  BY <1>9 DEF IoDone
<1>11. \A d \in Clients : client'[d] = IF client[d].pc = "queued" /\ LastOf(d) = x
                                       THEN [client[d] EXCEPT !.pc = "over"] ELSE client[d]
  BY <1>1, <1>10 DEF Callbacks
<1>12. client' \in [Clients -> CallRecords]
  <2>1. \A d \in Clients : client'[d] \in CallRecords
    BY <1>3, <1>11 DEF CallRecords, Labels
  <2>2. client' = [d \in Clients |-> client'[d]]
    BY <1>1 DEF Callbacks
  <2>3. QED
    BY <2>1, <2>2
<1>13. ASSUME NEW d \in Clients
       PROVE  /\ CallAt(d)' /\ client'[d].pc # "service"
              /\ client'[d].pc \in {"idle", "lock", "over"} \/ client[d].pc \notin {"idle", "lock", "over"}
  <2>1. CallAt(d)
    BY DEF Inv, Calls
  <2>2. CASE client[d].pc = "queued" /\ LastOf(d) = x
    <3>1. /\ client'[d].pc = "over" /\ client'[d].kind = client[d].kind /\ client'[d].left = client[d].left
          /\ client'[d].tfer = client[d].tfer
      BY <1>3, <1>11, <2>2 DEF CallRecords
    <3>2. /\ ~Sync(d) /\ ~Sync(d)' /\ descLock # d /\ descLock' = descLock /\ poll_mode' = poll_mode
      BY <1>1, <2>1, <2>2, <3>1 DEF CallAt, Sync
    <3>3. /\ <<d, 0>> \in Transfer /\ <<d, 1>> \in Transfer /\ <<d, 0>>[1] = <<d, 1>>[1]
          /\ x = <<d, client[d].tfer>> /\ client[d].tfer \in {0, 1} /\ <<d, 1>>[2] = 1
      BY <2>2, TransferParts, TypeFacts DEF Inv
    <3>4. \A y \in Transfer : IF y = x THEN xfer'[y].state = r ELSE xfer'[y] = xfer[y]
      BY <1>3, <1>6, <1>8, MarkedParts DEF xf, States
    <3>5. client[d].tfer = 0 => xfer'[<<d, 1>>] = NoTransfer /\ xfer'[<<d, 0>>].state = r
      BY <2>1, <3>3, <3>4 DEF CallAt
    <3>6. client[d].tfer = 1 => xfer'[<<d, 0>>].state # "SUBMITTED" /\ xfer'[<<d, 1>>].state = r
      <4>1. SUFFICES ASSUME client[d].tfer = 1, xfer[<<d, 0>>].state = "SUBMITTED" PROVE FALSE
        BY <3>3, <3>4
      <4>2. PICK i \in 1..Len(engine.list) : engine.list[i] = <<d, 0>>
        BY <3>3, <4>1 DEF Inv, Queue, Waiting
      <4>3. 1 \in 1..Len(engine.list) /\ engine.list[1] = <<d, 1>> /\ Len(engine.list) \in Nat
        BY <1>2, <3>3, <4>1, HeadFacts DEF Inv
      <4>4. 1 < i
        BY <4>2, <4>3
      <4>5. QED
        BY <3>3, <4>2, <4>3, <4>4 DEF Inv, Queue
    <3>7. Current(d)' = x /\ LastOf(d)' = x
      BY <3>1, <3>3 DEF Current, LastOf
    <3>8. CallAt(d)'
      BY <1>2, <1>8, <3>1, <3>2, <3>3, <3>5, <3>6, <3>7 DEF CallAt, Waiting, Inside, NoTransfer
    <3>9. QED
      BY <2>2, <3>1, <3>8
  <2>3. CASE ~(client[d].pc = "queued" /\ LastOf(d) = x)
    <3>1. client'[d] = client[d]
      BY <1>11, <2>3
    <3>2. CallAt(d)'
      BY <1>1, <1>2, <1>6, <1>8, <2>3, <3>1, ServedCall DEF xf
    <3>3. client[d].pc # "service"
      BY <1>2, <2>1 DEF CallAt
    <3>4. QED
      BY <3>1, <3>2, <3>3
  <2>4. QED
    BY <2>2, <2>3
<1>14. QED
  BY <1>1, <1>2, <1>7, <1>8, <1>12, <1>13, ServedKeeps

LEMMA EngineServicePollKeeps ==
  ASSUME Inv, NEW c \in Clients, EngineServicePoll(c)
  PROVE  Inv'
<1> DEFINE x == Head(engine.list)
           k == Tail(engine.list)
           wb == client[c].seen.wb
           e == client[c].seen.err
           s == Service(State, wb, e)
           r == Outcome(wb)
           xf == Marked(xfer, x, r)
<1>1. /\ client[c].pc = "service" /\ Become(s) /\ Goto(c, "finish")
      /\ UNCHANGED <<poll_mode, power, descLock, desc_idx, desc, work, moved>>
  BY DEF EngineServicePoll, At
<1>2. /\ CallAt(c) /\ client \in [Clients -> CallRecords] /\ descLock = c /\ poll_mode
      /\ Sync(c) /\ client[c].tfer = 0 /\ Current(c) = <<c, 0>> /\ xfer[<<c, 1>>] = NoTransfer
  BY <1>1, CallFacts DEF Inside, CallAt
<1>3. engine.list # <<>> /\ x = Current(c) /\ k = <<>>
  BY <1>1, <1>2, PolledAlone
<1>4. /\ ~hw.busy /\ engine.running /\ ~engine.shutdown /\ ~work /\ Serving(x)
      /\ client[c].seen = [wb |-> hw.wb, err |-> hw.wbErr]
  BY <1>1, <1>2, <1>3 DEF Inv, Core
<1>5. /\ engine \in Engines /\ hw \in Cores /\ xfer \in [Transfer -> Transfers] /\ poll_mode \in BOOLEAN
      /\ x \in Transfer /\ hw.count \in Nat /\ xfer[x].num \in Nat /\ hw.wb \in Nat
  BY <1>3, TypeFacts, HeadFacts, Ranges DEF Inv, Cores
<1>6. /\ engine.dequeued = 0 /\ hw.count <= xfer[x].num /\ moved[x] = hw.count
      /\ hw.wb <= hw.count /\ hw.wbErr = hw.err /\ ~engine.status.err
      /\ (~hw.err => hw.wb = hw.count)
  BY <1>2, <1>4 DEF Serving
<1>7. wb = hw.wb /\ e = hw.err
  BY <1>4, <1>6
<1> HIDE DEF wb, e, x
<1>8. /\ wb \in Nat /\ wb <= xfer[x].num /\ (wb # 0 /\ ~e => ~engine.status.err /\ ~hw.err)
  BY <1>5, <1>6, <1>7
<1>9. PICK en \in Engines, h \in Cores :
        /\ s = With(en, h, xf)
        /\ en.list = <<>> /\ en.running = FALSE /\ ~en.shutdown
        /\ ~h.err /\ h.wb = 0 /\ ~h.wbErr
        /\ ~h.run /\ ~h.busy
  <2>1. (e = TRUE \/ e = FALSE) /\ (wb # 0 /\ e = FALSE => ~engine.status.err /\ ~hw.err)
    BY <1>5, <1>7, <1>8 DEF Cores
  <2>2. PICK en \in Engines, h \in Cores : s = With(en, h, xf) /\ Begins(en, h, wb)
    BY <1>3, <1>4, <1>5, <1>6, <1>8, <2>1, ServiceResult, Zenon DEF x
  <2> HIDE DEF s, xf
  <2>3. QED
    BY <1>2, <1>3, <2>2 DEF Begins
<1>10. hw' = h /\ engine' = en /\ xfer' = xf
  <2> HIDE DEF s, xf
  <2>1. QED
    BY <1>1, <1>9, Parts DEF Become
<1>11. Served(r)
  <2> HIDE DEF s, xf, r
  <2>1. QED
    BY <1>2, <1>3, <1>9, <1>10 DEF Served, xf, x
<1>12. r \in {"COMPLETED", "FAILED"} /\ (r = "COMPLETED" => moved[x] = xfer[x].num)
  BY <1>5, <1>6, <1>7 DEF Outcome, x
<1> HIDE DEF s, xf, r
<1>13. /\ client' \in [Clients -> CallRecords] /\ client'[c].pc = "finish"
       /\ client'[c].kind = client[c].kind /\ client'[c].left = client[c].left
       /\ client'[c].tfer = client[c].tfer
       /\ \A d \in Clients : d # c => client'[d] = client[d]
  BY <1>1, <1>2, GotoParts DEF Labels
<1>14. /\ xfer'[x].state = r /\ \A y \in Transfer : y # x => xfer'[y] = xfer[y]
  BY <1>5, <1>10, <1>12, MarkedParts DEF xf, States
<1>15. ASSUME NEW d \in Clients
       PROVE  /\ CallAt(d)' /\ client'[d].pc # "service"
              /\ client'[d].pc \in {"idle", "lock", "over"} \/ client[d].pc \notin {"idle", "lock", "over"}
  <2>1. CASE d = c
    <3>1. Current(c)' = x /\ x = <<c, 0>> /\ Sync(c)'
      BY <1>2, <1>3, <1>13 DEF Current, Sync
    <3>2. xfer'[<<c, 1>>] = NoTransfer
      BY <1>2, <1>14, <3>1, TransferParts
    <3>3. CallAt(c)'
      BY <1>1, <1>2, <1>12, <1>13, <1>14, <3>1, <3>2 DEF CallAt, Inside
    <3>4. QED
      BY <1>1, <1>13, <2>1, <3>3
  <2>2. CASE d # c
    <3>1. <<d, 0>> \in Transfer /\ <<d, 1>> \in Transfer /\ <<d, 0>> # x /\ <<d, 1>> # x
      BY <1>2, <1>3, <2>2, TransferParts
    <3>2. xfer'[<<d, 0>>] = xfer[<<d, 0>>] /\ xfer'[<<d, 1>>] = xfer[<<d, 1>>] /\ client'[d] = client[d]
      BY <1>13, <1>14, <2>2, <3>1
    <3>3. CallAt(d)'
      BY <1>1, <3>2, OtherCall
    <3>4. client[d].pc # "service"
      <4>1. SUFFICES ASSUME client[d].pc = "service" PROVE FALSE
        OBVIOUS
      <4>2. descLock = d
        BY <4>1, CallFacts DEF Inside
      <4>3. QED
        BY <1>2, <2>2, <4>2
    <3>5. QED
      BY <3>2, <3>3, <3>4
  <2>3. QED
    BY <2>1, <2>2
<1>16. work' = FALSE
  BY <1>1, <1>4 DEF Inv, Types
<1>17. QED
  BY <1>1, <1>3, <1>11, <1>12, <1>13, <1>15, <1>16, ServedKeeps DEF x

-----------------------------------------------------------------------------
LEMMA InitInv ==
  ASSUME Init
  PROVE  Inv
<1>1. /\ poll_mode \in Modes /\ power = "on" /\ descLock = NoClient /\ desc_idx = 0
      /\ desc = [i \in Ring |-> [xfer |-> <<NoClient, 0>>, last |-> TRUE]]
      /\ engine = [running |-> FALSE, shutdown |-> FALSE, list |-> <<>>, dequeued |-> 0,
                   status |-> [busy |-> FALSE, err |-> FALSE]]
      /\ xfer = [x \in Transfer |-> NoTransfer] /\ client = [c \in Clients |-> NoCall]
      /\ work = FALSE /\ hw = Idle /\ moved = [x \in Transfer |-> 0]
  BY DEF Init
<1>2. NoTransfer \in Transfers /\ NoTransfer.state = "NEW" /\ NoTransfer.first + NoTransfer.num <= MaxDesc
  BY Ranges DEF NoTransfer, Transfers, States, Ring
<1>3. NoCall \in CallRecords /\ NoCall.pc = "idle" /\ NoCall.tfer = 0 /\ NoCall.kind = "sync"
  BY Ranges DEF NoCall, CallRecords, Labels
<1>4. engine \in Engines /\ engine.list = <<>> /\ engine.running = FALSE /\ ~engine.shutdown
  <2>1. <<>> \in Seq(Transfer) /\ 0 \in 0..(Word - 1)
    BY Ranges, EmptySeq
  <2>2. QED
    BY <1>1, <2>1 DEF Engines
<1>5. hw \in Cores /\ ~hw.run /\ ~hw.busy /\ ~hw.err /\ hw.wb = 0 /\ ~hw.wbErr /\ ~hw.event /\ hw.enabled = TRUE
  BY <1>1, Ranges DEF Idle, Cores, Ring
<1>6. \A x \in Transfer : xfer[x] = NoTransfer /\ moved[x] = 0 /\ ~Waiting(x)
  BY <1>1, <1>2 DEF Waiting
<1>7. \A c \in Clients : client[c] = NoCall /\ descLock # c
  BY <1>1, Ranges
<1>8. Types
  <2>1. xfer \in [Transfer -> Transfers] /\ moved \in [Transfer -> 0..MaxDesc]
        /\ client \in [Clients -> CallRecords] /\ desc_idx \in Ring
    BY <1>1, <1>2, <1>3, Ranges DEF Ring
  <2>2. desc \in [Ring -> [xfer : Transfer \cup {<<NoClient, 0>>}, last : BOOLEAN]]
    BY <1>1
  <2>3. \A x \in Transfer : xfer[x].first + xfer[x].num <= MaxDesc
    BY <1>2, <1>6
  <2>4. QED
    BY <1>1, <1>4, <1>5, <2>1, <2>2, <2>3 DEF Types
<1>9. Calls
  BY <1>3, <1>6, <1>7, TransferParts DEF Calls, CallAt, Sync, Inside
<1>10. Queue
  <2>1. 1..Len(engine.list) = {}
    BY <1>4, EmptySeq
  <2>2. QED
    BY <1>6, <2>1 DEF Queue
<1>11. Descriptors
  BY <1>3, <1>7, TransferParts DEF Descriptors, Allocated
<1>12. Core
  BY <1>1, <1>3, <1>4, <1>5, <1>7 DEF Core
<1>13. Carried
  BY <1>2, <1>6 DEF Carried, CompletedMeansMoved
<1>14. QED
  BY <1>8, <1>9, <1>10, <1>11, <1>12, <1>13 DEF Inv

LEMMA NextInv ==
  ASSUME ~Timeouts, ~Offlines, Inv, [Next]_vars
  PROVE  Inv'
<1>1. ASSUME NEW c \in Clients, NEW kind \in Kinds, NEW n \in 1..MaxRequest, Call(c, kind, n)
      PROVE  Inv'
  BY <1>1, CallKeeps
<1>2. ASSUME NEW c \in Clients, ClientStep(c)
      PROVE  Inv'
  <2>1. CASE LockDesc(c)
    BY <2>1, LockDescKeeps
  <2>2. CASE TransferInit(c)
    BY <2>2, TransferInitKeeps
  <2>3. CASE QueueRefused(c)
    BY <2>3, QueueRefusedNever
  <2>4. CASE TransferQueue(c)
    BY <2>4, TransferQueueKeeps
  <2>5. CASE WakeUp(c)
    BY <2>5, WakeUpKeeps
  <2>6. CASE Monitor(c)
    BY <2>6, MonitorKeeps
  <2>7. CASE EngineServicePoll(c)
    BY <2>7, EngineServicePollKeeps
  <2>8. CASE Completed(c)
    BY <2>8, CompletedKeeps
  <2>9. CASE Failed(c)
    BY <2>9, FailedKeeps
  <2>10. CASE TimedOut(c) \/ TimedOutUnread(c)
    BY <2>10, TimedOutNever
  <2>11. CASE Over(c)
    BY <2>11, OverKeeps
  <2>12. QED
    BY <1>2, <2>1, <2>2, <2>3, <2>4, <2>5, <2>6, <2>7, <2>8, <2>9, <2>10, <2>11 DEF ClientStep
<1>3. ASSUME NEW c \in Clients, TimeOut(c)
      PROVE  Inv'
  BY <1>3 DEF TimeOut
<1>4. CASE HwStep
  BY <1>4, HwDescriptorKeeps, HwErrorKeeps, HwHaltsNever DEF HwStep
<1>5. CASE Isr
  BY <1>5, IsrKeeps
<1>6. CASE EngineServiceWork
  BY <1>6, EngineServiceWorkKeeps
<1>7. CASE OfflineFlag \/ OfflineStop \/ Online
  BY <1>7 DEF OfflineFlag, OfflineStop, Online, Inv, Core
<1>8. CASE UNCHANGED vars
  <2>1. UNCHANGED <<poll_mode, power, descLock, desc_idx, desc, engine, xfer, client, work, hw, moved>>
    BY <1>8 DEF vars
  <2>2. Types' /\ Queue' /\ Descriptors' /\ Carried'
    <3>1. Types' /\ Queue'
      BY <2>1 DEF Inv, Types, Queue, Waiting
    <3>2. Descriptors'
      BY <2>1 DEF Inv, Descriptors, Owns, Allocated
    <3>3. Carried'
      BY <2>1 DEF Inv, Carried, CompletedMeansMoved, Waiting
    <3>4. QED
      BY <3>1, <3>2, <3>3
  <2>3. Calls'
    BY <2>1 DEF Inv, Calls, CallAt, Sync, Waiting, Current, LastOf
  <2>4. Core'
    BY <2>1 DEF Inv, Core, Serving
  <2>5. QED
    BY <2>2, <2>3, <2>4 DEF Inv
<1>9. QED
  BY <1>1, <1>2, <1>3, <1>4, <1>5, <1>6, <1>7, <1>8 DEF Next

(* The invariant of the driver whose waits do not end early.               *)
LEMMA Invariance ==
  ASSUME ~Timeouts, ~Offlines
  PROVE  Spec => []Inv
<1>1. Init => Inv
  BY InitInv
<1>2. Inv /\ [Next]_vars => Inv'
  BY NextInv
<1>3. QED
  BY <1>1, <1>2, PTL DEF Spec

-----------------------------------------------------------------------------
(* Whatever the callers ask for, every variable keeps its type: the counts *)
(* stay inside the ring, the part of a request inside tfer[].              *)
THEOREM TypesHold ==
  ASSUME ~Timeouts, ~Offlines
  PROVE  Spec => []TypeOK
<1>1. Inv => TypeOK
  <2>1. SUFFICES ASSUME Inv PROVE TypeOK
    OBVIOUS
  <2>2. /\ engine \in Engines /\ hw \in Cores
        /\ \A x \in Transfer : xfer[x].state \in States
        /\ \A c \in Clients : client[c] \in CallRecords
    BY <2>1, TypeFacts, CallFacts DEF Inv
  <2>3. /\ engine.running \in BOOLEAN /\ engine.shutdown \in BOOLEAN /\ engine.list \in Seq(Transfer)
        /\ engine.dequeued \in 0..(Word - 1) /\ hw.next \in Ring /\ hw.count \in 0..MaxDesc
    BY <2>2 DEF Engines, Cores
  <2>4. \A c \in Clients : client[c].pc \in Labels /\ client[c].tfer \in {0, 1}
    BY <2>2 DEF CallRecords
  <2>5. QED
    BY <2>1, <2>2, <2>3, <2>4 DEF TypeOK, Inv, Types, States, Labels
<1>2. QED
  BY <1>1, Invariance, PTL

(* "mark transfer as succesfully completed" (libxdma.c:826): a transfer    *)
(* that the driver calls completed has been carried out, to its last       *)
(* descriptor and no further.                                              *)
THEOREM CompletedIsMoved ==
  ASSUME ~Timeouts, ~Offlines
  PROVE  Spec => []CompletedMeansMoved
<1>1. Inv => CompletedMeansMoved
  BY DEF Inv, Carried
<1>2. QED
  BY <1>1, Invariance, PTL

(* Between two steps of the driver the engine runs exactly when transfers  *)
(* are queued, and the core works on the first of them.                    *)
THEOREM HeadIsServed ==
  ASSUME ~Timeouts, ~Offlines
  PROVE  Spec => []ServesHead
<1>1. Inv => ServesHead
  <2>1. SUFFICES ASSUME Inv PROVE ServesHead
    OBVIOUS
  <2>2. engine.running = (engine.list # <<>>)
    BY <2>1 DEF Inv, Core
  <2>3. hw.busy => desc[hw.next].xfer = Head(engine.list)
    BY <2>1, BusyFacts
  <2>4. QED
    BY <2>2, <2>3 DEF ServesHead
<1>2. QED
  BY <1>1, Invariance, PTL

(* The core does not work on a request that has been given back.           *)
THEOREM ReturnedIsQuiet ==
  ASSUME ~Timeouts, ~Offlines
  PROVE  Spec => []QuietAfterReturn
<1>1. Inv => QuietAfterReturn
  <2>1. SUFFICES ASSUME Inv, hw.busy PROVE Allocated(desc[hw.next].xfer)
    BY DEF QuietAfterReturn
  <2> DEFINE x == Head(engine.list)
  <2>2. Allocated(x) /\ desc[hw.next] = [xfer |-> x, last |-> hw.count + 1 = xfer[x].num]
    BY <2>1, BusyFacts
  <2> HIDE DEF x
  <2>3. desc[hw.next].xfer = x
    BY <2>2
  <2>4. QED
    BY <2>2, <2>3
<1>2. QED
  BY <1>1, Invariance, PTL

(* As many transfers as places, where no place repeats another.            *)
LEMMA Distinct ==
  ASSUME NEW T, NEW l \in Seq(T), \A i, j \in 1..Len(l) : i < j => l[i] # l[j]
  PROVE  Cardinality(ToSet(l)) = Len(l)
<1> DEFINE S == 1..Len(l)
<1>1. Len(l) \in Nat /\ DOMAIN l = S /\ l = [i \in S |-> l[i]]
  BY LenProperties
<1>2. IsFiniteSet(S) /\ Cardinality(S) = Len(l)
  <2>1. /\ IsFiniteSet(1..Len(l))
        /\ Cardinality(1..Len(l)) = IF 1 > Len(l) THEN 0 ELSE Len(l) - 1 + 1
    BY <1>1, FS_Interval
  <2>2. QED
    BY <1>1, <2>1
<1>3. ToSet(l) = {l[i] : i \in S}
  BY <1>1 DEF ToSet
<1>4. \A i, j \in S : l[i] = l[j] => i = j
  BY <1>1
<1> HIDE DEF S
<1>5. l \in [S -> ToSet(l)] /\ \A y \in ToSet(l) : \E i \in S : l[i] = y
  BY <1>1, <1>3
<1>6. l \in Bijection(S, ToSet(l))
  BY <1>1, <1>4, <1>5 DEF Bijection, Injection, Surjection, IsInjective
<1>7. ExistsBijection(S, ToSet(l))
  BY <1>6 DEF ExistsBijection
<1>8. QED
  BY <1>2, <1>7, FS_Bijection

(* No completion leaves a transfer on the queue whose request is freed,    *)
(* and none is there twice.                                                *)
THEOREM FreedIsNotQueued ==
  ASSUME ~Timeouts, ~Offlines
  PROVE  Spec => []NoFreedOnList
<1>1. Inv => NoFreedOnList
  <2>1. SUFFICES ASSUME Inv PROVE NoFreedOnList
    OBVIOUS
  <2> DEFINE l == engine.list
  <2>2. l \in Seq(Transfer) /\ DOMAIN l = 1..Len(l)
    BY <2>1, TypeFacts, LenProperties DEF Inv
  <2>3. \A i, j \in 1..Len(l) : i < j => l[i] # l[j]
    BY <2>1 DEF Inv, Queue
  <2>4. Cardinality(ToSet(l)) = Len(l)
    BY <2>2, <2>3, Distinct
  <2>5. ASSUME NEW x \in ToSet(l) PROVE Allocated(x) /\ xfer[x].state = "SUBMITTED"
    <3>1. PICK i \in 1..Len(l) : x = l[i]
      BY <2>2 DEF ToSet
    <3>2. x \in Transfer
      BY <2>2, <3>1
    <3>3. Waiting(x)
      BY <2>1, <3>1 DEF Inv, Queue
    <3>4. QED
      BY <2>1, <3>2, <3>3, WaitingFacts DEF Inv, Waiting
  <2>6. QED
    BY <2>4, <2>5 DEF NoFreedOnList
<1>2. QED
  BY <1>1, Invariance, PTL

-----------------------------------------------------------------------------
(* Synchronous callers.  Each holds engine->desc_lock from before its      *)
(* transfer has descriptors until it returns, so that there is one         *)
(* transfer at a time: a wait that ends early finds it at the head of the  *)
(* queue, and transfer_abort takes it off.  Waits may end early and the    *)
(* device may go offline; nothing is said of the core, which may go on.    *)
EngineFields == {"running", "shutdown", "list", "dequeued", "status"}
CallFields   == {"pc", "kind", "left", "tfer", "seen"}
Requests(xf) == DOMAIN xf = Transfer /\ \A x \in Transfer : "state" \in DOMAIN xf[x]

SyncTypes ==
  /\ DOMAIN engine = EngineFields /\ engine.list \in Seq(Transfer)
  /\ Requests(xfer)
  /\ DOMAIN client = Clients /\ \A c \in Clients : DOMAIN client[c] = CallFields

SyncCallAt(c) ==
  /\ Sync(c) /\ client[c].tfer = 0 /\ client[c].pc \in Labels \ {"queued"}
  /\ descLock = c <=> client[c].pc \in Inside

(* The transfer of the caller that waits, or was just woken, is alone on   *)
(* the queue.                                                              *)
Holds(c) ==
  /\ engine.list = <<<<c, 0>>>> /\ Waiting(<<c, 0>>)
  /\ client[c].pc \in {"wait", "service", "finish"}

SyncQueue == engine.list = <<>> \/ \E c \in Clients : Holds(c)

SyncInv == SyncTypes /\ (\A c \in Clients : SyncCallAt(c)) /\ SyncQueue

(* What the service does to a queue and its transfers.                     *)
OnList(s, l, xf) == DOMAIN s.engine = EngineFields /\ s.engine.list = l /\ s.xfer = xf

LEMMA ListStays ==
  ASSUME NEW s, NEW l, NEW xf, OnList(s, l, xf)
  PROVE  /\ OnList(ReadStatus(s), l, xf) /\ OnList(Shutdown(s), l, xf) /\ OnList(Stop(s), l, xf)
         /\ OnList(NoWriteback(s), l, xf) /\ OnList(Start(s), l, xf) /\ OnList(Resume(s), l, xf)
<1>1. /\ DOMAIN s.engine = EngineFields /\ s.engine.list = l /\ s.xfer = xf
      /\ {"running", "shutdown", "list", "dequeued", "status"} = EngineFields
  BY DEF OnList, EngineFields
<1>2. OnList(ReadStatus(s), l, xf)
  BY <1>1 DEF OnList, ReadStatus, With
<1>3. OnList(Shutdown(s), l, xf)
  BY <1>1 DEF OnList, Shutdown, With
<1>4. OnList(Stop(s), l, xf)
  BY <1>1 DEF OnList, Stop, With
<1>5. OnList(NoWriteback(s), l, xf)
  BY <1>1 DEF OnList, NoWriteback, With
<1>6. OnList(Start(s), l, xf)
  BY <1>1 DEF OnList, Start, With
<1>7. OnList(Resume(s), l, xf)
  BY <1>6 DEF Resume
<1>8. QED
  BY <1>2, <1>3, <1>4, <1>5, <1>6, <1>7

LEMMA ListDequeued ==
  ASSUME NEW s, NEW l, NEW xf, NEW r, OnList(s, l, xf)
  PROVE  OnList(Dequeue(s, r), Tail(l), Marked(xf, Head(l), r))
<1>1. DOMAIN s.engine = EngineFields /\ s.engine.list = l /\ s.xfer = xf
  BY DEF OnList
<1> DEFINE m == (s.engine.dequeued + s.xfer[Head(s.engine.list)].num) % Word
           en == [s.engine EXCEPT !.list = Tail(s.engine.list), !.dequeued = m]
           xg == Marked(xf, Head(l), r)
<1>2. Dequeue(s, r) = With(en, s.hw, xg)
  BY <1>1, Zenon DEF Dequeue, Marked
<1> HIDE DEF m
<1>3. DOMAIN en = EngineFields /\ en.list = Tail(l)
  BY <1>1 DEF EngineFields
<1> HIDE DEF en, xg
<1>4. QED
  BY <1>2, <1>3, Parts DEF OnList, xg

LEMMA FinalList ==
  ASSUME NEW s, NEW n, NEW x, NEW xf, OnList(s, <<x>>, xf)
  PROVE  \E r : OnList(ServiceFinal(s, n), <<>>, Marked(xf, x, r))
<1>1. Head(<<x>>) = x /\ Tail(<<x>>) = <<>> /\ <<x>> # <<>>
  OBVIOUS
<1> DEFINE l == <<x>>
<1>2. OnList(Stop(s), l, xf)
  BY ListStays
<1>3. s.engine.list # <<>>
  BY <1>1 DEF OnList
<1>4. PICK r : ServiceFinal(s, n) = Dequeue(Stop(s), r) \/ ServiceFinal(s, n) = Dequeue(s, r)
  BY <1>3, Zenon DEF ServiceFinal
<1> HIDE DEF l
<1>5. OnList(Dequeue(Stop(s), r), Tail(l), Marked(xf, Head(l), r))
  BY <1>2, ListDequeued
<1>6. OnList(Dequeue(s, r), Tail(l), Marked(xf, Head(l), r))
  BY ListDequeued DEF l
<1>7. Head(l) = x /\ Tail(l) = <<>>
  BY <1>1 DEF l
<1>8. QED
  BY <1>4, <1>5, <1>6, <1>7

(* The service of a queue of at most one transfer leaves it alone, or      *)
(* empties it.                                                             *)
LEMMA ListServed ==
  ASSUME NEW s, NEW xf, NEW wb, NEW e, NEW x, NEW l \in Seq(Transfer),
         l = <<>> \/ l = <<x>>, OnList(s, l, xf)
  PROVE  LET t == Service(s, wb, e)
         IN OnList(t, l, xf) \/ \E r : OnList(t, <<>>, Marked(xf, x, r))
<1> DEFINE read  == IF wb = 0 \/ e THEN ReadStatus(s) ELSE s
           quiet == IF ~read.engine.status.busy \/ wb # 0 THEN Shutdown(read) ELSE read
           count == IF wb = 0 THEN quiet.hw.count ELSE wb
           n     == (count - quiet.engine.dequeued) % Word
           rest  == ServiceList(quiet, n)
           final == ServiceFinal(rest.s, rest.n)
           done  == IF poll_mode THEN NoWriteback(final) ELSE final
           t     == Service(s, wb, e)
<1>1. CASE ~s.engine.running
  BY <1>1, ListStays DEF Service
<1>2. CASE s.engine.running
  <2>1. t = Resume(done)
    BY <1>2 DEF Service
  <2>2. OnList(read, l, xf)
    BY ListStays
  <2> HIDE DEF read
  <2>3. OnList(quiet, l, xf)
    BY <2>2, ListStays
  <2> HIDE DEF quiet, n
  <2>4. l \in Seq(Transfer) /\ quiet.engine.list = l
    BY <2>3 DEF OnList
  <2>5. OnList(final, l, xf) \/ \E r : OnList(final, <<>>, Marked(xf, x, r))
    <3>1. CASE l = <<>>
      <4>1. rest = [s |-> quiet, n |-> n]
        BY <2>4, <3>1, ServiceListStays
      <4> HIDE DEF rest
      <4>2. final = quiet
        BY <2>4, <3>1, <4>1 DEF ServiceFinal
      <4>3. QED
        BY <2>3, <4>2
    <3>2. CASE l = <<x>>
      <4> DEFINE w == [s |-> quiet, n |-> n]
      <4>1. rest = PassHead(w)
        <5>1. Len(quiet.engine.list) = 1
          BY <2>4, <3>2
        <5>2. QED
          BY <2>4, <5>1, ServiceListOne
      <4>2. rest.s = quiet \/ rest.s = Dequeue(quiet, "COMPLETED")
        <5>1. w.s = quiet
          OBVIOUS
        <5> HIDE DEF w, rest
        <5>2. QED
          BY <4>1, <5>1 DEF PassHead
      <4> HIDE DEF rest
      <4>3. CASE rest.s = quiet
        <5>1. OnList(rest.s, <<x>>, xf)
          BY <2>3, <3>2, <4>3
        <5> DEFINE s1 == rest.s
                   n1 == rest.n
        <5> HIDE DEF s1, n1
        <5>2. \E r : OnList(ServiceFinal(s1, n1), <<>>, Marked(xf, x, r))
          BY <5>1, FinalList DEF s1
        <5>3. QED
          BY <5>2 DEF s1, n1
      <4>4. CASE rest.s = Dequeue(quiet, "COMPLETED")
        <5>1. OnList(rest.s, Tail(l), Marked(xf, Head(l), "COMPLETED"))
          BY <2>3, <4>4, ListDequeued
        <5>2. Tail(l) = <<>> /\ Head(l) = x
          BY <3>2
        <5>3. OnList(rest.s, <<>>, Marked(xf, x, "COMPLETED"))
          BY <5>1, <5>2
        <5>4. final = rest.s
          BY <5>3 DEF ServiceFinal, OnList
        <5>5. QED
          BY <5>3, <5>4
      <4>5. QED
        BY <4>2, <4>3, <4>4
    <3>3. QED
      BY <3>1, <3>2
  <2> HIDE DEF final
  <2>6. OnList(done, l, xf) \/ \E r : OnList(done, <<>>, Marked(xf, x, r))
    BY <2>5, ListStays
  <2> HIDE DEF done
  <2>7. OnList(Resume(done), l, xf) \/ \E r : OnList(Resume(done), <<>>, Marked(xf, x, r))
    BY <2>6, ListStays
  <2> HIDE DEF t
  <2>8. QED
    BY <2>1, <2>7 DEF t
<1>3. QED
  BY <1>1, <1>2

LEMMA RequestsMarked ==
  ASSUME NEW xf, NEW x, NEW r, Requests(xf)
  PROVE  Requests(Marked(xf, x, r)) /\ (x \in Transfer => Marked(xf, x, r)[x].state = r)
BY DEF Requests, Marked

LEMMA SyncGoto ==
  ASSUME SyncTypes, NEW c \in Clients, NEW p, Goto(c, p)
  PROVE  /\ DOMAIN client' = Clients /\ \A d \in Clients : DOMAIN client'[d] = CallFields
         /\ client'[c].pc = p /\ client'[c].kind = client[c].kind /\ client'[c].tfer = client[c].tfer
         /\ \A d \in Clients : d # c => client'[d] = client[d]
BY DEF SyncTypes, Goto, CallFields

(* The caller that holds the lock has the queue to itself.                 *)
LEMMA HolderAlone ==
  ASSUME SyncInv, NEW c \in Clients, client[c].pc \in Inside
  PROVE  /\ descLock = c /\ (engine.list = <<>> \/ Holds(c))
         /\ client[c].tfer = 0 /\ Sync(c) /\ Current(c) = <<c, 0>> /\ <<c, 0>> \in Transfer
         /\ \A d \in Clients : d # c => client[d].pc \notin Inside
<1>1. /\ descLock = c /\ client[c].tfer = 0 /\ Sync(c)
      /\ \A d \in Clients : d # c => client[d].pc \notin Inside
  BY DEF SyncInv, SyncCallAt
<1>2. Current(c) = <<c, 0>> /\ <<c, 0>> \in Transfer
  BY <1>1 DEF Current, Transfer
<1>3. ASSUME NEW d \in Clients, Holds(d) PROVE d = c
  BY <1>1, <1>3 DEF Holds, Inside
<1>4. QED
  BY <1>1, <1>2, <1>3 DEF SyncInv, SyncQueue

(* What the caller that holds the lock does.                               *)
LEMMA HolderKeeps ==
  ASSUME SyncInv, NEW c \in Clients, client[c].pc \in Inside, SyncTypes',
         \A d \in Clients : d # c => client'[d] = client[d],
         client'[c].kind = "sync", client'[c].tfer = 0, client'[c].pc \in Labels \ {"queued"},
         descLock' = IF client'[c].pc \in Inside THEN c ELSE NoClient,
         (engine.list = <<>> \/ Holds(c))'
  PROVE  SyncInv'
<1>1. ASSUME NEW d \in Clients PROVE SyncCallAt(d)'
  <2>1. CASE d = c
    BY <2>1, Ranges DEF SyncCallAt, Sync
  <2>2. CASE d # c
    <3>1. client'[d] = client[d] /\ SyncCallAt(d) /\ client[d].pc \notin Inside
      BY <2>2, HolderAlone DEF SyncInv
    <3>2. descLock' # d
      BY <2>2, Ranges
    <3>3. QED
      BY <3>1, <3>2 DEF SyncCallAt, Sync
  <2>3. QED
    BY <2>1, <2>2
<1>2. SyncQueue'
  BY DEF SyncQueue
<1>3. QED
  BY <1>1, <1>2 DEF SyncInv

(* ... when it only goes on, and the queue is as it was, or empty.         *)
LEMMA HolderGoes ==
  ASSUME SyncInv, NEW c \in Clients, client[c].pc \in Inside, NEW p \in Labels \ {"queued"}, Goto(c, p),
         descLock' = IF p \in Inside THEN c ELSE NoClient,
         DOMAIN engine' = EngineFields, Requests(xfer'),
         \/ (engine.list = <<>>)'
         \/ /\ engine'.list = engine.list /\ xfer'[<<c, 0>>] = xfer[<<c, 0>>]
            /\ p \in {"wait", "service", "finish"} \/ ~Waiting(<<c, 0>>)
  PROVE  SyncInv'
<1>1. /\ DOMAIN client' = Clients /\ \A d \in Clients : DOMAIN client'[d] = CallFields
      /\ client'[c].pc = p /\ client'[c].kind = client[c].kind /\ client'[c].tfer = client[c].tfer
      /\ \A d \in Clients : d # c => client'[d] = client[d]
  BY SyncGoto DEF SyncInv
<1>2. client[c].tfer = 0 /\ Sync(c) /\ (engine.list = <<>> \/ Holds(c))
  BY HolderAlone
<1>3. (engine.list = <<>> \/ Holds(c))'
  BY <1>1, <1>2 DEF Holds, Waiting
<1>4. engine'.list \in Seq(Transfer)
  <2>1. <<>> \in Seq(Transfer) /\ engine.list \in Seq(Transfer)
    BY DEF SyncInv, SyncTypes
  <2>2. QED
    BY <2>1
<1>5. SyncTypes'
  BY <1>1, <1>4 DEF SyncTypes
<1>6. QED
  BY <1>1, <1>2, <1>3, <1>5, HolderKeeps DEF Sync

(* A step that has nothing to do with the callers or the queue.            *)
LEMMA SyncStays ==
  ASSUME SyncInv, UNCHANGED <<descLock, xfer>>, DOMAIN engine' = EngineFields,
         engine'.list = engine.list, DOMAIN client' = Clients,
         \A c \in Clients : client'[c] = client[c]
  PROVE  SyncInv'
<1>1. SyncTypes'
  BY DEF SyncInv, SyncTypes, Requests
<1>2. ASSUME NEW c \in Clients PROVE SyncCallAt(c)'
  BY DEF SyncInv, SyncCallAt, Sync
<1>3. SyncQueue'
  BY DEF SyncInv, SyncQueue, Holds, Waiting
<1>4. QED
  BY <1>1, <1>2, <1>3 DEF SyncInv

(* A caller without the lock.                                              *)
LEMMA OutsideKeeps ==
  ASSUME SyncInv, NEW c \in Clients, client[c].pc \notin Inside, UNCHANGED engine,
         Requests(xfer'), \A x \in Transfer : x[1] # c => xfer'[x] = xfer[x],
         DOMAIN client' = Clients, DOMAIN client'[c] = CallFields,
         \A d \in Clients : d # c => client'[d] = client[d],
         client'[c].kind = "sync", client'[c].tfer = 0, client'[c].pc \in Labels \ {"queued"},
         IF client'[c].pc \in Inside THEN descLock = NoClient /\ descLock' = c ELSE descLock' = descLock
  PROVE  SyncInv'
<1>1. SyncTypes'
  BY DEF SyncInv, SyncTypes
<1>2. ASSUME NEW d \in Clients PROVE SyncCallAt(d)'
  <2>1. CASE d = c
    BY <2>1, Ranges DEF SyncInv, SyncCallAt, Sync
  <2>2. CASE d # c
    BY <2>2, Ranges DEF SyncInv, SyncCallAt, Sync
  <2>3. QED
    BY <2>1, <2>2
<1>3. ASSUME NEW d \in Clients, Holds(d) PROVE Holds(d)'
  <2>1. d # c /\ <<d, 0>> \in Transfer /\ <<d, 0>>[1] = d
    BY <1>3 DEF Holds, Inside, Transfer
  <2>2. xfer'[<<d, 0>>] = xfer[<<d, 0>>] /\ client'[d] = client[d]
    BY <2>1
  <2>3. QED
    BY <1>3, <2>2 DEF Holds, Waiting
<1>4. SyncQueue'
  BY <1>3 DEF SyncInv, SyncQueue
<1>5. QED
  BY <1>1, <1>2, <1>4 DEF SyncInv

LEMMA SyncInitially ==
  ASSUME Init, Kinds \subseteq {"sync"}
  PROVE  SyncInv
<1>1. SyncTypes
  BY EmptySeq DEF Init, SyncTypes, EngineFields, CallFields, Requests, NoTransfer, NoCall
<1>2. ASSUME NEW c \in Clients PROVE SyncCallAt(c)
  BY Ranges DEF Init, SyncCallAt, Sync, NoCall, Labels, Inside
<1>3. SyncQueue
  BY DEF Init, SyncQueue
<1>4. QED
  BY <1>1, <1>2, <1>3 DEF SyncInv

LEMMA SyncFacts ==
  ASSUME SyncInv
  PROVE  /\ DOMAIN engine = EngineFields /\ engine.list \in Seq(Transfer) /\ Requests(xfer)
         /\ DOMAIN client = Clients
         /\ \A c \in Clients : /\ Sync(c) /\ client[c].pc # "queued" /\ Current(c) = <<c, 0>>
                               /\ <<c, 0>> \in Transfer /\ DOMAIN client[c] = CallFields
BY DEF SyncInv, SyncTypes, SyncCallAt, Current, Transfer

(* The service leaves the queue and the transfers alone, or empties it.    *)
LEMMA SyncServed ==
  ASSUME SyncInv, NEW wb, NEW e
  PROVE  LET t == Service(State, wb, e)
         IN /\ DOMAIN t.engine = EngineFields /\ Requests(t.xfer)
            /\ t.engine.list = <<>> \/ (t.engine.list = engine.list /\ t.xfer = xfer)
<1> DEFINE t == Service(State, wb, e)
           l == engine.list
<1>1. OnList(State, l, xfer) /\ l \in Seq(Transfer) /\ Requests(xfer)
  BY StateParts, SyncFacts DEF OnList
<1>2. \E x : l = <<>> \/ l = <<x>>
  BY DEF SyncInv, SyncQueue, Holds
<1>3. PICK x : l = <<>> \/ l = <<x>>
  BY <1>2
<1> HIDE DEF l
<1>4. OnList(t, l, xfer) \/ \E r : OnList(t, <<>>, Marked(xfer, x, r))
  BY <1>1, <1>3, ListServed
<1> HIDE DEF t
<1>5. CASE OnList(t, l, xfer)
  BY <1>1, <1>5 DEF OnList, t, l
<1>6. ASSUME NEW r, OnList(t, <<>>, Marked(xfer, x, r))
      PROVE  DOMAIN t.engine = EngineFields /\ Requests(t.xfer) /\ t.engine.list = <<>>
  BY <1>1, <1>6, RequestsMarked DEF OnList
<1>7. QED
  BY <1>4, <1>5, <1>6 DEF t, l

(* An interrupt's service, between any two steps of the caller.            *)
LEMMA SyncWorkKeeps ==
  ASSUME SyncInv, EngineServiceWork
  PROVE  SyncInv'
<1> DEFINE t == Service(State, 0, FALSE)
<1>1. /\ engine' = t.engine /\ xfer' = t.xfer /\ Callbacks(t) /\ descLock' = descLock
  <2>1. Become(With(t.engine, Reenabled(t), t.xfer)) /\ Callbacks(t) /\ descLock' = descLock
    BY DEF EngineServiceWork
  <2> HIDE DEF t
  <2>2. QED
    BY <2>1, Parts DEF Become
<1>2. /\ DOMAIN t.engine = EngineFields /\ Requests(t.xfer)
      /\ t.engine.list = <<>> \/ (t.engine.list = engine.list /\ t.xfer = xfer)
  BY SyncServed
<1> HIDE DEF t
<1>3. DOMAIN client' = Clients /\ \A c \in Clients : client'[c] = client[c]
  <2>1. \A c \in Clients : ~IoDone(c, t)
    BY SyncFacts DEF IoDone
  <2>2. QED
    BY <1>1, <2>1 DEF Callbacks
<1>4. CASE t.engine.list = <<>>
  <2>1. engine'.list = <<>> /\ <<>> \in Seq(Transfer)
    BY <1>1, <1>4
  <2>2. SyncTypes'
    BY <1>1, <1>2, <1>3, <2>1 DEF SyncInv, SyncTypes
  <2>3. ASSUME NEW c \in Clients PROVE SyncCallAt(c)'
    BY <1>1, <1>3 DEF SyncInv, SyncCallAt, Sync
  <2>4. QED
    BY <2>1, <2>2, <2>3 DEF SyncInv, SyncQueue
<1>5. CASE t.engine.list = engine.list /\ t.xfer = xfer
  BY <1>1, <1>2, <1>3, <1>5, SyncStays
<1>6. QED
  BY <1>2, <1>4, <1>5

(* ... and that of a caller that polls.                                    *)
LEMMA SyncPollKeeps ==
  ASSUME SyncInv, NEW c \in Clients, EngineServicePoll(c)
  PROVE  SyncInv'
<1> DEFINE wb == client[c].seen.wb
           e  == client[c].seen.err
           t  == Service(State, wb, e)
<1>1. /\ engine' = t.engine /\ xfer' = t.xfer /\ Goto(c, "finish") /\ descLock' = descLock
      /\ client[c].pc = "service"
  BY Parts DEF EngineServicePoll, Become, At
<1> HIDE DEF wb, e
<1>2. /\ DOMAIN t.engine = EngineFields /\ Requests(t.xfer)
      /\ t.engine.list = <<>> \/ (t.engine.list = engine.list /\ t.xfer = xfer)
  BY SyncServed
<1> HIDE DEF t
<1>3. client[c].pc \in Inside /\ "finish" \in Inside /\ "finish" \in Labels \ {"queued"}
  BY <1>1 DEF Inside, Labels
<1>4. descLock' = IF "finish" \in Inside THEN c ELSE NoClient
  BY <1>1, <1>3, HolderAlone
<1>5. QED
  BY <1>1, <1>2, <1>3, <1>4, HolderGoes

(* The steps of the caller that holds the lock.                            *)
LEMMA SyncInitKeeps ==
  ASSUME SyncInv, NEW c \in Clients, TransferInit(c)
  PROVE  SyncInv'
<1> DEFINE x == Current(c)
<1>1. /\ client[c].pc = "init" /\ engine' = engine /\ descLock' = descLock
      /\ \E v, n : /\ xfer' = [xfer EXCEPT ![x] = [state |-> "NEW", first |-> desc_idx, num |-> n]]
                   /\ client' = [client EXCEPT ![c].pc = "queue", ![c].left = v]
  BY DEF TransferInit, At
<1>2. PICK v, n : /\ xfer' = [xfer EXCEPT ![x] = [state |-> "NEW", first |-> desc_idx, num |-> n]]
                  /\ client' = [client EXCEPT ![c].pc = "queue", ![c].left = v]
  BY <1>1
<1>3. client[c].pc \in Inside /\ "queue" \in Inside /\ "queue" \in Labels \ {"queued"}
  BY <1>1 DEF Inside, Labels
<1>4. descLock = c /\ engine.list = <<>> /\ client[c].tfer = 0 /\ client[c].kind = "sync"
  BY <1>1, <1>3, HolderAlone DEF Holds, Sync
<1>5. Requests(xfer')
  BY <1>2, SyncFacts DEF Requests
<1>6. /\ DOMAIN client' = Clients /\ \A d \in Clients : DOMAIN client'[d] = CallFields
      /\ client'[c].pc = "queue" /\ client'[c].kind = "sync" /\ client'[c].tfer = 0
      /\ \A d \in Clients : d # c => client'[d] = client[d]
  BY <1>2, <1>4, SyncFacts DEF CallFields
<1>7. SyncTypes'
  BY <1>1, <1>5, <1>6, SyncFacts DEF SyncTypes
<1>8. (engine.list = <<>> \/ Holds(c))' /\ descLock' = IF client'[c].pc \in Inside THEN c ELSE NoClient
  BY <1>1, <1>3, <1>4, <1>6
<1>9. client'[c].pc \in Labels \ {"queued"}
  BY <1>3, <1>6
<1>10. QED
  BY <1>3, <1>6, <1>7, <1>8, <1>9, HolderKeeps

LEMMA StartedKeepsList ==
  ASSUME NEW s, NEW l, NEW xf, OnList(s, l, xf)
  PROVE  OnList(StartedIfIdle(s), l, xf)
BY ListStays DEF StartedIfIdle

LEMMA SyncQueueKeeps ==
  ASSUME SyncInv, NEW c \in Clients, TransferQueue(c)
  PROVE  SyncInv'
<1> DEFINE x == Current(c)
           s == With([engine EXCEPT !.list = Append(engine.list, x)], hw, [xfer EXCEPT ![x].state = "SUBMITTED"])
           p == IF client[c].kind = "sync" THEN "wait"
                ELSE IF client[c].left > 0 THEN "init" ELSE "queued"
           k == IF client[c].kind = "aio" /\ client[c].left > 0 THEN client[c].tfer + 1 ELSE client[c].tfer
<1>1. /\ client[c].pc = "queue" /\ Become(StartedIfIdle(s)) /\ descLock' = descLock
      /\ client' = [client EXCEPT ![c].pc = p, ![c].tfer = k]
  BY DEF TransferQueue, At
<1>2. client[c].pc \in Inside /\ "wait" \in Inside /\ "wait" \in Labels \ {"queued"}
  BY <1>1 DEF Inside, Labels
<1>3. /\ descLock = c /\ engine.list = <<>> /\ client[c].tfer = 0 /\ client[c].kind = "sync"
      /\ x = <<c, 0>> /\ <<c, 0>> \in Transfer
  BY <1>1, <1>2, HolderAlone DEF Holds, Sync
<1>4. p = "wait" /\ k = 0
  BY <1>3
<1>5. OnList(s, <<x>>, Marked(xfer, x, "SUBMITTED"))
  <2> DEFINE en == [engine EXCEPT !.list = Append(engine.list, x)]
  <2>1. DOMAIN en = EngineFields /\ en.list = <<x>>
    BY <1>3, SyncFacts DEF EngineFields
  <2>2. s = With(en, hw, Marked(xfer, x, "SUBMITTED"))
    BY Zenon DEF Marked
  <2> HIDE DEF en, x, s
  <2>3. QED
    BY <2>1, <2>2, Parts DEF OnList
<1> HIDE DEF s, p, k
<1>6. OnList(StartedIfIdle(s), <<x>>, Marked(xfer, x, "SUBMITTED"))
  BY <1>5, StartedKeepsList
<1>7. DOMAIN engine' = EngineFields /\ engine'.list = <<x>> /\ xfer' = Marked(xfer, x, "SUBMITTED")
  BY <1>1, <1>6 DEF OnList, Become
<1>8. Requests(xfer') /\ xfer'[<<c, 0>>].state = "SUBMITTED"
  BY <1>3, <1>7, SyncFacts, RequestsMarked
<1>9. /\ DOMAIN client' = Clients /\ \A d \in Clients : DOMAIN client'[d] = CallFields
      /\ client'[c].pc = "wait" /\ client'[c].kind = "sync" /\ client'[c].tfer = 0
      /\ \A d \in Clients : d # c => client'[d] = client[d]
  BY <1>1, <1>3, <1>4, SyncFacts DEF CallFields
<1>10. SyncTypes'
  <2>1. <<x>> \in Seq(Transfer)
    BY <1>3
  <2>2. QED
    BY <1>7, <1>8, <1>9, <2>1 DEF SyncTypes
<1>11. Holds(c)' /\ descLock' = IF client'[c].pc \in Inside THEN c ELSE NoClient
  BY <1>1, <1>2, <1>3, <1>7, <1>8, <1>9 DEF Holds, Waiting
<1>12. client'[c].pc \in Labels \ {"queued"}
  BY <1>2, <1>9
<1>13. QED
  BY <1>2, <1>9, <1>10, <1>11, <1>12, HolderKeeps

(* The wait ends, by the transfer, the poll or early.                      *)
LEMMA SyncWaitKeeps ==
  ASSUME SyncInv, NEW c \in Clients, WakeUp(c) \/ TimeOut(c) \/ Monitor(c)
  PROVE  SyncInv'
<1>1. /\ client[c].pc = "wait" /\ UNCHANGED <<engine, xfer, descLock>>
      /\ \/ client' = [client EXCEPT ![c].pc = "finish"]
         \/ \E v : client' = [client EXCEPT ![c].pc = "service", ![c].seen = v]
  BY DEF WakeUp, TimeOut, Monitor, At, Goto
<1>2. client[c].pc \in Inside
  BY <1>1 DEF Inside
<1>3. /\ descLock = c /\ (engine.list = <<>> \/ Holds(c)) /\ client[c].tfer = 0 /\ client[c].kind = "sync"
  BY <1>2, HolderAlone DEF Sync
<1>4. /\ DOMAIN client' = Clients /\ \A d \in Clients : DOMAIN client'[d] = CallFields
      /\ client'[c].pc \in {"service", "finish"} /\ client'[c].kind = "sync" /\ client'[c].tfer = 0
      /\ \A d \in Clients : d # c => client'[d] = client[d]
  BY <1>1, <1>3, SyncFacts DEF CallFields
<1>5. SyncTypes'
  BY <1>1, <1>4, SyncFacts DEF SyncTypes
<1>6. (engine.list = <<>> \/ Holds(c))'
  BY <1>1, <1>3, <1>4 DEF Holds, Waiting
<1>7. client'[c].pc \in Inside /\ client'[c].pc \in Labels \ {"queued"}
  BY <1>4 DEF Inside, Labels
<1>8. descLock' = IF client'[c].pc \in Inside THEN c ELSE NoClient
  BY <1>1, <1>3, <1>7
<1>9. QED
  BY <1>2, <1>4, <1>5, <1>6, <1>7, <1>8, HolderKeeps

(* The call ends, or goes on with the rest of the request: the transfer    *)
(* that is over is not on the queue, the one that is aborted leaves it.    *)
LEMMA SyncEndKeeps ==
  ASSUME SyncInv, NEW c \in Clients, QueueRefused(c) \/ Completed(c) \/ Failed(c)
  PROVE  SyncInv'
<1>1. /\ UNCHANGED <<engine, xfer>>
      /\ \/ client[c].pc = "queue"
         \/ client[c].pc = "finish" /\ xfer[Current(c)].state \in {"COMPLETED", "FAILED"}
      /\ (Goto(c, "init") /\ descLock' = descLock) \/ Return(c)
  BY DEF QueueRefused, Completed, Failed, At
<1>2. client[c].pc \in Inside
  BY <1>1 DEF Inside
<1>3. /\ descLock = c /\ (engine.list = <<>> \/ Holds(c)) /\ Current(c) = <<c, 0>>
  BY <1>2, HolderAlone
<1>4. engine.list = <<>>
  BY <1>1, <1>3 DEF Holds, Waiting
<1>5. /\ "init" \in Labels \ {"queued"} /\ "over" \in Labels \ {"queued"}
      /\ "init" \in Inside /\ "over" \notin Inside
  BY DEF Labels, Inside
<1>6. PICK p \in {"init", "over"} : Goto(c, p) /\ descLock' = IF p \in Inside THEN c ELSE NoClient
  BY <1>1, <1>3, <1>5 DEF Return
<1>7. /\ p \in Labels \ {"queued"} /\ DOMAIN engine' = EngineFields /\ Requests(xfer')
      /\ (engine.list = <<>>)'
  BY <1>1, <1>4, <1>5, SyncFacts
<1>8. QED
  BY <1>2, <1>6, <1>7, HolderGoes

LEMMA SyncTimedOutKeeps ==
  ASSUME SyncInv, NEW c \in Clients, TimedOut(c)
  PROVE  SyncInv'
<1> DEFINE k == Abort(engine.list, Current(c))
           v == StatusOf(hw)
<1>1. /\ client[c].pc = "finish" /\ Return(c)
      /\ engine' = [engine EXCEPT !.list = k, !.status = v]
      /\ xfer' = [xfer EXCEPT ![Current(c)].state = "ABORTED"]
  BY DEF TimedOut, At
<1>2. client[c].pc \in Inside /\ "over" \in Labels \ {"queued"} /\ "over" \notin Inside
  BY <1>1 DEF Inside, Labels
<1>3. descLock = c /\ (engine.list = <<>> \/ Holds(c)) /\ Current(c) = <<c, 0>>
  BY <1>2, HolderAlone
<1>4. k = <<>>
  <2>1. CASE engine.list = <<>>
    BY <2>1 DEF Abort
  <2>2. CASE engine.list = <<Current(c)>>
    <3>1. engine.list # <<>> /\ Head(engine.list) = Current(c) /\ Tail(engine.list) = <<>>
      BY <2>2
    <3>2. QED
      BY <3>1 DEF Abort
  <2>3. QED
    BY <1>3, <2>1, <2>2 DEF Holds
<1> HIDE DEF k, v
<1>5. DOMAIN engine' = EngineFields /\ engine'.list = <<>>
  BY <1>1, <1>4, SyncFacts DEF EngineFields
<1>6. Requests(xfer')
  <2>1. xfer' = Marked(xfer, Current(c), "ABORTED")
    BY <1>1 DEF Marked
  <2>2. QED
    BY <2>1, SyncFacts, RequestsMarked
<1>7. Goto(c, "over") /\ descLock' = IF "over" \in Inside THEN c ELSE NoClient
  BY <1>1, <1>2, <1>3 DEF Return
<1>8. QED
  BY <1>2, <1>5, <1>6, <1>7, HolderGoes

(* The steps of a caller without the lock.                                 *)
LEMMA SyncOutsideKeeps ==
  ASSUME SyncInv, NEW c \in Clients,
         \/ LockDesc(c) \/ Over(c)
         \/ \E n \in 1..MaxRequest : Call(c, "sync", n)
  PROVE  SyncInv'
<1>1. /\ DOMAIN NoCall = CallFields /\ NoCall.pc = "idle" /\ NoCall.kind = "sync" /\ NoCall.tfer = 0
  BY DEF NoCall, CallFields
<1>2. /\ {"idle", "lock", "init"} \subseteq Labels \ {"queued"} /\ "init" \in Inside
      /\ Inside \cap {"idle", "lock", "over"} = {}
  BY DEF Labels, Inside
<1>3. CASE LockDesc(c)
  <2>1. /\ client[c].pc = "lock" /\ descLock = NoClient /\ descLock' = c /\ Goto(c, "init")
        /\ UNCHANGED <<engine, xfer>>
    BY <1>3 DEF LockDesc, At
  <2>2. /\ DOMAIN client' = Clients /\ \A d \in Clients : DOMAIN client'[d] = CallFields
        /\ client'[c].pc = "init" /\ client'[c].kind = client[c].kind /\ client'[c].tfer = client[c].tfer
        /\ \A d \in Clients : d # c => client'[d] = client[d]
    BY <2>1, SyncGoto DEF SyncInv
  <2>3. client[c].kind = "sync" /\ client[c].tfer = 0 /\ Requests(xfer') /\ client[c].pc \notin Inside
    BY <1>2, <2>1, SyncFacts DEF SyncInv, SyncCallAt, Sync
  <2>4. QED
    BY <1>2, <2>1, <2>2, <2>3, OutsideKeeps
<1>4. CASE Over(c)
  <2>1. /\ client[c].pc = "over" /\ client' = [client EXCEPT ![c] = NoCall]
        /\ xfer' = [x \in Transfer |-> IF x[1] = c THEN NoTransfer ELSE xfer[x]]
        /\ UNCHANGED <<engine, descLock>>
    BY <1>4 DEF Over, At
  <2>2. /\ DOMAIN client' = Clients /\ client'[c] = NoCall
        /\ \A d \in Clients : d # c => client'[d] = client[d]
    BY <2>1, SyncFacts
  <2>3. Requests(xfer') /\ \A x \in Transfer : x[1] # c => xfer'[x] = xfer[x]
    BY <2>1, SyncFacts DEF Requests, NoTransfer
  <2>4. client[c].pc \notin Inside
    BY <1>2, <2>1
  <2>5. QED
    BY <1>1, <1>2, <2>1, <2>2, <2>3, <2>4, OutsideKeeps
<1>5. ASSUME NEW n \in 1..MaxRequest, Call(c, "sync", n)
      PROVE  SyncInv'
  <2> DEFINE r == [NoCall EXCEPT !.kind = "sync", !.left = n, !.pc = "lock"]
  <2>1. client[c].pc = "idle" /\ client' = [client EXCEPT ![c] = r] /\ UNCHANGED <<engine, descLock, xfer>>
    BY <1>5 DEF Call, At
  <2>2. DOMAIN r = CallFields /\ r.pc = "lock" /\ r.kind = "sync" /\ r.tfer = 0
    BY <1>1 DEF CallFields
  <2> HIDE DEF r
  <2>3. /\ DOMAIN client' = Clients /\ client'[c] = r
        /\ \A d \in Clients : d # c => client'[d] = client[d]
    BY <2>1, SyncFacts
  <2>4. Requests(xfer') /\ client[c].pc \notin Inside
    BY <1>2, <2>1, SyncFacts
  <2>5. QED
    BY <1>2, <2>1, <2>2, <2>3, <2>4, OutsideKeeps
<1>6. QED
  BY <1>3, <1>4, <1>5

(* The core, the interrupt, and the device going offline and online.       *)
LEMMA SyncDeviceKeeps ==
  ASSUME SyncInv, HwStep \/ Isr \/ OfflineFlag \/ OfflineStop \/ Online \/ UNCHANGED vars
  PROVE  SyncInv'
<1>1. UNCHANGED <<descLock, xfer, client>>
  BY DEF HwStep, HwDescriptor, HwError, HwHalts, Isr, OfflineFlag, OfflineStop, Online, vars
<1>2. \/ engine' = engine
      \/ engine' = [engine EXCEPT !.shutdown = TRUE, !.running = FALSE]
      \/ engine' = [engine EXCEPT !.shutdown = FALSE]
  BY DEF HwStep, HwDescriptor, HwError, HwHalts, Isr, OfflineFlag, OfflineStop, Online, vars
<1>3. DOMAIN engine' = EngineFields /\ engine'.list = engine.list
  BY <1>2, SyncFacts DEF EngineFields
<1>4. QED
  BY <1>1, <1>3, SyncFacts, SyncStays

(* What a caller leaves on the queue when it finds no engine identifier    *)
(* ends what can be said of it; it makes no further call.                  *)
Loss == \E c \in Clients : Lost(c)

Another(c) == client[c].pc # "lost" /\ \E v : client' = [client EXCEPT ![c] = v]

LEMMA LostStays ==
  ASSUME DOMAIN client = Clients, [Next]_vars
  PROVE  DOMAIN client' = Clients /\ \A c \in Clients : Lost(c) => Lost(c)'
<1>1. \/ client' = client
      \/ \E d \in Clients : Another(d)
      \/ \E s : Callbacks(s)
  <2>1. ASSUME NEW d \in Clients, NEW kind \in Kinds, NEW n \in 1..MaxRequest, Call(d, kind, n)
        PROVE  Another(d)
    BY <2>1 DEF Call, Another, At
  <2>2. ASSUME NEW d \in Clients, ClientStep(d) \/ TimeOut(d)
        PROVE  Another(d)
    <3>1. CASE LockDesc(d) \/ QueueRefused(d) \/ WakeUp(d) \/ TimeOut(d) \/ EngineServicePoll(d)
               \/ Completed(d) \/ Failed(d) \/ TimedOut(d) \/ TimedOutUnread(d)
      <4>1. client[d].pc # "lost" /\ \E l : Goto(d, l)
        BY <3>1 DEF LockDesc, QueueRefused, WakeUp, TimeOut, EngineServicePoll, Completed, Failed,
                    TimedOut, TimedOutUnread, Return, At
      <4>2. QED
        BY <4>1 DEF Goto, Another
    <3>2. CASE TransferInit(d)
      BY <3>2 DEF TransferInit, At, Another
    <3>3. CASE TransferQueue(d)
      BY <3>3 DEF TransferQueue, At, Another
    <3>4. CASE Monitor(d)
      BY <3>4 DEF Monitor, At, Another
    <3>5. CASE Over(d)
      BY <3>5 DEF Over, At, Another
    <3>6. QED
      BY <2>2, <3>1, <3>2, <3>3, <3>4, <3>5 DEF ClientStep
  <2>3. CASE EngineServiceWork
    BY <2>3 DEF EngineServiceWork
  <2>4. CASE HwStep \/ Isr \/ OfflineFlag \/ OfflineStop \/ Online \/ UNCHANGED vars
    BY <2>4 DEF HwStep, HwDescriptor, HwError, HwHalts, Isr, OfflineFlag, OfflineStop, Online, vars
  <2>5. QED
    BY <2>1, <2>2, <2>3, <2>4 DEF Next
<1>2. CASE client' = client
  BY <1>2 DEF Lost, At
<1>3. ASSUME NEW d \in Clients, Another(d)
      PROVE  DOMAIN client' = Clients /\ \A c \in Clients : Lost(c) => Lost(c)'
  BY <1>3 DEF Another, Lost, At
<1>4. ASSUME NEW s, Callbacks(s)
      PROVE  DOMAIN client' = Clients /\ \A c \in Clients : Lost(c) => Lost(c)'
  BY <1>4 DEF Callbacks, IoDone, Lost, At
<1>5. QED
  BY <1>1, <1>2, <1>3, <1>4

LEMMA SyncNext ==
  ASSUME SyncInv, Kinds \subseteq {"sync"}, [Next]_vars
  PROVE  Loss' \/ SyncInv'
<1>1. ASSUME NEW c \in Clients, NEW kind \in Kinds, NEW n \in 1..MaxRequest, Call(c, kind, n)
      PROVE  SyncInv'
  <2>1. kind = "sync"
    OBVIOUS
  <2>2. QED
    BY <1>1, <2>1, SyncOutsideKeeps
<1>2. ASSUME NEW c \in Clients, ClientStep(c) \/ TimeOut(c)
      PROVE  Loss' \/ SyncInv'
  <2>1. CASE LockDesc(c) \/ Over(c)
    BY <2>1, SyncOutsideKeeps
  <2>2. CASE TransferInit(c)
    BY <2>2, SyncInitKeeps
  <2>3. CASE TransferQueue(c)
    BY <2>3, SyncQueueKeeps
  <2>4. CASE WakeUp(c) \/ TimeOut(c) \/ Monitor(c)
    BY <2>4, SyncWaitKeeps
  <2>5. CASE EngineServicePoll(c)
    BY <2>5, SyncPollKeeps
  <2>6. CASE QueueRefused(c) \/ Completed(c) \/ Failed(c)
    BY <2>6, SyncEndKeeps
  <2>7. CASE TimedOut(c)
    BY <2>7, SyncTimedOutKeeps
  <2>8. CASE TimedOutUnread(c)
    <3>1. Goto(c, "lost") /\ SyncTypes
      BY <2>8 DEF TimedOutUnread, SyncInv
    <3>2. client'[c].pc = "lost"
      BY <3>1, SyncGoto
    <3>3. QED
      BY <3>2 DEF Loss, Lost, At
  <2>9. QED
    BY <1>2, <2>1, <2>2, <2>3, <2>4, <2>5, <2>6, <2>7, <2>8 DEF ClientStep
<1>3. CASE EngineServiceWork
  BY <1>3, SyncWorkKeeps
<1>4. CASE HwStep \/ Isr \/ OfflineFlag \/ OfflineStop \/ Online \/ UNCHANGED vars
  BY <1>4, SyncDeviceKeeps
<1>5. QED
  BY <1>1, <1>2, <1>3, <1>4 DEF Next

(* The queue of one holder is empty, or holds what is its own.             *)
LEMMA SyncQueueIsHolders ==
  ASSUME SyncInv
  PROVE  NoFreedOnList
<1> DEFINE l == engine.list
<1>1. /\ l \in Seq(Transfer) /\ Len(l) \in {0, 1}
      /\ \A x \in ToSet(l) : Allocated(x) /\ xfer[x].state = "SUBMITTED"
  <2>1. CASE l = <<>>
    BY <2>1 DEF ToSet
  <2>2. ASSUME NEW c \in Clients, Holds(c)
        PROVE  /\ l \in Seq(Transfer) /\ Len(l) = 1
               /\ \A x \in ToSet(l) : Allocated(x) /\ xfer[x].state = "SUBMITTED"
    <3>1. l = <<<<c, 0>>>> /\ xfer[<<c, 0>>].state = "SUBMITTED"
          /\ client[c].pc \in {"wait", "service", "finish"}
      BY <2>2 DEF Holds, Waiting
    <3>2. ToSet(l) = {<<c, 0>>} /\ <<c, 0>> \in Transfer
      BY <3>1 DEF ToSet, Transfer
    <3>3. Allocated(<<c, 0>>)
      BY <3>1 DEF Allocated
    <3>4. QED
      BY <3>1, <3>2, <3>3
  <2>3. QED
    BY <2>1, <2>2 DEF SyncInv, SyncQueue
<1>2. Cardinality(ToSet(l)) = Len(l)
  <2>1. \A i, j \in 1..Len(l) : i < j => l[i] # l[j]
    BY <1>1
  <2> HIDE DEF l
  <2>2. QED
    BY <1>1, <2>1, Distinct
<1>3. QED
  BY <1>1, <1>2 DEF NoFreedOnList

(* Synchronous callers leave nothing on the queue that is freed, and queue *)
(* nothing twice, whenever waits time out, the queue is served by an       *)
(* interrupt or a poll, or the device goes offline and comes back; until a *)
(* caller that timed out finds no engine identifier (libxdma.c:3619).      *)
THEOREM SyncFreedIsNotQueued ==
  ASSUME Kinds \subseteq {"sync"}
  PROVE  Spec => []NoFreedUnlessLost
<1> DEFINE I == DOMAIN client = Clients /\ (Loss \/ SyncInv)
<1>1. Init => I
  BY SyncInitially, SyncFacts DEF Init
<1>2. I /\ [Next]_vars => I'
  <2>1. SUFFICES ASSUME I, [Next]_vars PROVE I'
    OBVIOUS
  <2>2. DOMAIN client' = Clients /\ \A c \in Clients : Lost(c) => Lost(c)'
    BY <2>1, LostStays
  <2>3. CASE Loss
    BY <2>2, <2>3 DEF Loss
  <2>4. CASE SyncInv
    BY <2>1, <2>2, <2>4, SyncNext
  <2>5. QED
    BY <2>1, <2>3, <2>4
<1>3. I => NoFreedUnlessLost
  BY SyncQueueIsHolders DEF NoFreedUnlessLost, Loss
<1>4. QED
  BY <1>1, <1>2, <1>3, PTL DEF Spec
=============================================================================
