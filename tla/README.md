# A verification of kiflash

kiflash writes an FPGA's configuration flash over PCI Express.  A Node addon (or
a command line program) maps the FPGA's registers, drives the AXI Quad SPI core
in it, and through that core erases, programs and verifies the serial flash the
FPGA boots from.  A mistake here leaves a card that does not boot, so the
questions asked are: does every byte cross the bus once and in order; does the
flash accept every command; does a run that reports success leave the image in
the flash, whatever was interrupted before it; are the other images left alone;
and is the Node client told the truth, in order, to the end.

    tlasany M.tla                                # parse
    tlc -workers 2 -config XSpi.cfg XSpi         # check; the runs are in PROJECT.json
    tlapm XSpiProofs.tla                         # prove

All paths below are relative to `src/`.  Line numbers are in `PROJECT.json`, which
maps every definition to the lines it stands for.

## 1. Inventory

### Components

| Component | Source | State | Operations | Status |
|---|---|---|---|---|
| XSpi driver and AXI Quad SPI core | `kiflashcore/src/xspi.c`, `xspi_options.c` | `XSpi` instance (ready, started, busy, select value, byte counts); core: control and select registers, two FIFOs, interrupt bits | CfgInitialize, SetOptions, SetSlaveSelect, Start, Stop, Reset, Abort, Transfer | modelled in polled mode, proved |
| Flash layer and the flash device | `SpiFlash...` functions of `kiflashcore/src/flash_qspi_rw.c` | `Spi`, `ReadBuffer`; device: pages, write enable latch, busy bit, address mode, error flag | start-up, write enable, sector, die and bulk erase, page write, page read, quad enable, read ID, flag and status registers | modelled |
| Programming run | `kiflash_program_user` and what it calls, same file | `qspi_init_flag`, `FlashData`, loop counters, the open file | init, erase, program, verify, IPROG | modelled for the user image |
| Node addon and streaming worker | `src/kiflash.cc`, `node_modules/streaming-worker-sdk/streaming-worker.h` | message queue, libuv async signal, future of the run, `N` | Execute, send_factor, progress callback, close callback, icap | modelled |
| Golden and timer images | `program_golden`, `program_timer` of `kiflashcmd/src/flash_qspi_rw.c` | as the user run | the same sequence on other regions, with or without erase | modelled, as menu options |
| Command line menu | `main` of the same file | `Status`, `FlashData`, the option in progress | reflash all, program, verify, erase, blank check, read, registers, path and name | modelled but for the two jumps (icap) and PciSweep |
| Blank check, read back, verification windows | `Spi_Blank_Check`, `qspi_read_flash`, `qspi_verify_bin` | `ReadBuffer`, page count, line | the loops over the bytes of a page | modelled byte by byte |
| XDMA engine | `dma/XDMA/linux-kernel/libxdma/libxdma.c` | `xdma_engine` (running, transfer_list, desc_dequeued, shutdown), the descriptor ring, the transfers | submit, submit without wait, interrupt, work item, poll, timeout and abort, offline, online | modelled but for cyclic transfers and credits |
| PCI memory access | `kiflashcore/src/pcimem.c` | a mapping | one load or store | not modelled: I/O |
| JavaScript glue | `src/kiflash.js`, `ki_mmap.js` | none | prints what the worker emits | not modelled |
| Interrupt mode, `XSpi_Transfer_SkipCheck` | `xspi.c` | | never connected, never called | not modelled |
| Other DMA code | rest of `dma/` | | XDMA's devices and set-up, QDMA, XVSEC: third-party, not called by the flash code | not modelled |
| Saved copies | `.history/` | | an editor's copies of old versions | not modelled |

`kiflashcmd/src` holds the same driver and flash layer text as `kiflashcore/src`.

### How they interact

    JavaScript  --new worker-->  kiflash.cc (main thread)
                                   |  queues work for libuv's pool
                                   v
                                 Execute (pool thread)  --std::async-->  kiflash_program_user (run thread)
                                   ^   polls FlashData.percentage   <--writes--  |
                                   |  messages: toNode, uv_async                 | SpiFlash... calls
                                   v                                             v
                                 main thread, icap ----------------------->  flash layer
                                                                                 | XSpi_Transfer(frame)
                                                                                 v
                                                                             XSpi driver
                                                                                 | register reads, writes
                                                                                 v
                                                        AXI Quad SPI core  ====SPI====>  serial flash

Everything below the run thread is reached through C statics (`Spi`, `FlashData`,
`ReadBuffer`, `WriteBuffer`, `qspi_init_flag`) with no lock.  The command line program
is a second, single-threaded client of the same flash layer.  The XDMA driver is
a kernel driver for the same card: its callers, its interrupt handler, a work
item and the engine core share one `xdma_engine` under a spinlock.

### What is hard

- Driver against core: the core moves a byte between any two register accesses;
  the driver does not know the depth of the FIFOs, tests the wrong register
  once, clears a latched bit by toggling it, and counts an unsigned number down.
- Giving up: 100 polls, then XST_FAILURE with the flag still set and the core
  still running.
- Process death: the core and the flash go on with what they were doing; the
  next process starts with zeroed statics over a device that is not reset.
- The flash ignores, silently, a command it cannot take at that moment, and no
  caller checks.
- Dropped errors: the tail of an erase, the result of `kiflash_init`.
- The percentage is polled across threads, and outlives the run that wrote it.
- Signals between threads are coalesced; the close must still come last.
- The menu's options share one `FlashData` and one `Status`; option 0 chains two
  die-wide erases, sector erases and four images over a layout where the images
  touch.
- Three hand-written loops over one read buffer, each with its own offsets.
- XDMA: the core runs on while the driver holds its lock; it counts descriptors
  per run and the driver subtracts what it has dequeued; a wait may time out in
  the instant the work completes; requests are freed by their own callback.

`PROJECT.json` lists each hazard at its line with the properties that guard it.

### What makes each part correct

- Driver: success means the frame was exchanged exactly (`SuccessMeansExchanged`);
  no byte is dropped and no buffer overrun (`NoByteLost`, `RecvBufferBounded`); the
  flash is never shown a truncated frame (`CompleteFrames`); between transfers
  the bus is at rest (`BusAtRest`); it keeps the contract `SpiPort`.
- Flash layer: every command finds the flash able to take it
  (`CommandsAccepted`); it restores the address mode (`SuccessLeavesRest`); it
  keeps the contract `FlashStore`.
- Menu: an option that reports success leaves its image in the flash
  (`PassedMeansPresent`, `ReflashMeansAll`), changes only its own pages
  (`OthersKept`).
- Byte loops: `VerifyComparesAll`, `DumpIsMemory`, `BlankCheckCovers`,
  `FailMeansProgrammed`, `ReadStaysInDevice`.
- XDMA engine: completed means moved (`CompletedMeansMoved`); the core works on the
  head of the queue and the engine runs exactly when the queue is not empty
  (`ServesHead`); nothing freed is on the queue or under the core
  (`NoFreedOnList`, `QuietAfterReturn`), and with timeouts only after an abort
  that was skipped (`NoFreedUnlessLost`); every queued transfer ends
  (`SubmittedEnds`).
- Run and addon: `SuccessMeansProgrammed`, `OthersKept`, `PercentageGrows`,
  `HundredIsEarned`, `ClosesLast`, `SuccessCloses`.

## 2. Modules

    SpiPort <---- implemented by ---- XSpi  <---- XSpiProofs
       :
       : one step of SpiFlash is one transfer of SpiPort
       :
    FlashPages <-- FlashStore <---- implemented by ---- SpiFlash  <-- MCSpiFlash, SpiFlashProofs
                    ^      ^
         extended by|      |extended by
                 Kiflash  KiflashCmd  <-- MCKiflashCmd, KiflashCmdProofs
                    ^                                           ^
        MCKiflash, KiflashProofs                         ReflashProofs

    FlashWindows <-- MCFlashWindows, FlashWindowsProofs
                           (the inside of one task of KiflashCmd and of one read of Kiflash)
    XdmaEngine   <-- MCXdmaEngine, XdmaEngineProofs     (a component of its own)

    DivisionFacts, lemmas on quotients and products, serves KiflashProofs,
    KiflashCmdProofs and FlashWindowsProofs.

Two abstract specifications cut the system into three layers, and each layer is
checked against the contract below it rather than against its details.

**SpiPort** is what `XSpi_Transfer` promises: a port that is closed, open or stuck;
bytes cross only while it is taken, at most as many as asked for, and success
comes only when all have crossed.  Giving up leaves it stuck until it is
recovered.

**XSpi** has one action per register access, or per stretch of code between two
accesses that matter.  `pc` is the place in `XSpi_Transfer` (or in `XSpi_Abort`,
which `XSpi_Reset` and `XSpi_CfgInitialize` call); `isBusy`, `requested`, `remaining`,
`byteCount`, `countdown` and `recv` are the code's variables of those names.
`CoreShift` is the hardware, which may move a byte between any two actions.  A
byte is its position in the frame: the answer to byte i is written i too, so
that order and loss show.  `frame` and `lost` are history variables.

**FlashPages** has the pages, the calls and what an erase or a program does to a
page: programming clears bits, so over anything but a blank or an equal page it
gives a page of which only little is known (`Overlays`): the old one, the new one
or neither.  An interrupted or failing operation leaves any part of its target
damaged.

**FlashStore** promises: a call's effect takes place at most once, before it
returns success; a read answers with the page; a call that fails may take
effect later (an *orphan*), but nothing returns success while an orphan is
outstanding.  An erase is promised less, because the code drops errors at its
end: it may return success early.

**SpiFlash** has the functions of the flash layer as scripts of commands and
waits, with nested functions written out in the order of the code.  One step is
one `XSpi_Transfer`, with the outcomes `SpiPort` allows: exchanged, given up (the
frame stays on the selected flash: `held`), refused.  The device is external: it is
modelled from the commands the code sends, which are ignored when the device is
busy, not write enabled or in the wrong address mode.  `ProcessEnd` may cut any
transfer; the next start-up's reset deselects the flash, which then executes a
complete frame, a program of part of its data, or nothing.

**Kiflash** extends `FlashStore`: its calls of the flash layer are `Begin` and
the return they lead to.  `pc` is the place in `kiflash_program_user`, `exec[w]` that
of a worker's `Execute`, `js` that of icap on the main thread.  `toNode` and
`signalled` are the message queue and libuv's async handle; a progress callback
drains the queue, and so does the close.

**KiflashCmd** extends `FlashStore` too.  An option of the menu is a list of tasks,
written by the constructors `Set`, `Call`, `Drop` (a call whose result the code drops),
`EraseAll`, `ProgramBin`, `ProgramDie`, `VerifyBin` and `Scan`; `todo` is what is left of
it, `k` the loop counter of the task in progress.  `StatusAfter` says what each
option leaves in main's `Status`, which some options never set and one sets to
success whatever happened.  The process may be killed anywhere and started again
over another current directory (`disk`).

**FlashWindows** is the inside of the read loops, with the code's indices and its
three windows on `ReadBuffer`.  A page is short, so that each of its bytes can be
the odd one.  What the bus carried before the page is any byte.  `printed` pairs
each byte printed with the address that a reader of the output gives it.

**XdmaEngine** has one action per section under the engine's spinlock, and one per
thing the core does: carry out a descriptor, report an error, halt.  The service
of the queue is a chain of functions on a state record, named as in the code
(`ReadStatus`, `Shutdown`, `ServiceList`, `ServiceFinal`, `Resume`), so that the
interrupt's work item and the poller are the same `Service` with different
arguments.  `moved` is a history variable: how many descriptors of a transfer the
core has really carried out.

### Abstractions

- A page's content is one value, not 256 bytes.  A partial last page of a file is
  the *set* of pages that fread may leave in the malloc'ed buffer, since its rest
  is uninitialised; programming and verification choose independently.
- Addresses count pages.  The golden image is below `UserSector`; `TimerSector` is
  where erasing stops.
- A file that cannot be opened is `exists = FALSE`.  With `filename` cleared (a
  concurrent `kiflash_init`) fopen opens the directory, whose page count wraps to
  zero: an empty file.
- Only the percentages as integers are kept, with the division of the code.
- The flash has one die in the instance of `SpiFlash` that is checked; the menu's
  has four.
- The write enable that the program, verify and scan loops send before each page
  is the first transfer of the call for that page: the two are one call in
  `Kiflash` and `KiflashCmd`.  The write enable's failure, which the blank check drops,
  is a failure of the read that follows.
- XDMA: a descriptor is an index of the ring and whether it stops the engine.  The
  counters of descriptors wrap at `Word`, a small power.  The address of a request
  is not kept: what matters is whether its memory is still allocated.
- IPROG reboots the FPGA; that the SPI core is then gone shows as calls that fail.
- SpiHandler and its ErrorCount are an interrupt callback: never called in polled
  mode.

### Assumed

- The driver is used by one thread (`XSpi`, `SpiFlash`).  `Kiflash` shows where the
  application breaks this (`OneThreadOnBus`).
- A client of the addon creates a worker when the run of the former one has
  returned.  Nothing in the code enforces it; without it two runs share every
  static and nothing is promised.
- XDMA: spinlock sections are atomic; the core is no longer busy when it raises the
  event of a run's end; an interrupt can come while the work item is queued or
  runs.  In poll mode (which README.md:57 of the driver offers as a module
  parameter) only synchronous calls are made: completing asynchronous ones is the
  business of the driver's completion threads, which are not modelled.
- XDMA: a register read goes unanswered only where a call that timed out looks for
  the engine identifier (`TimedOutUnread`), and there it may at any time.  The
  service would take a count and a status of ones for real ones.
- Every image fits in the flash (`KiflashAssumption`, `CmdAssumption`); the code does not
  look.  A longer one would be programmed over page 0 by an address that wraps.
- An oversized image may overwrite the timer region: `OthersKept` says so openly,
  in `MayChange`.

## 3. Runs

| Run | Specification | Bounds | Shows |
|---|---|---|---|
| `xspi` | `XSpi!FairSpec` | transfers of 1..4 bytes, FIFOs of 2, 2 polls, masks 0 and 1 | type, the four invariants, `CompleteFrames`, `WedgedUntilAborted`, that XSpi implements `SpiPort`, and `CallsReturn` |
| `spiflash` | `SpiFlash!FairSpec` | 2 sectors of 1 page, 2 data, failing device | `CommandsAccepted`, `SuccessLeavesRest`, implements `FlashStore`, `CallsReturn` |
| `kiflash` | `MCKiflash!MCFairSpec` | 1 worker; 5 sectors (golden, user, user, timer, timer); images of 0, 1 (partial) and 3 pages; failing device | the safety of run and addon; a successful run closes its worker |
| `kiflash_two` | `MCKiflash!MCTwoSpec` | 2 workers, 3 sectors, image of 1 page | percentages left by an earlier run |
| `cmd` | `MCKiflashCmd!MCSpec` | 5 sectors of 1 page on 4 dies, in the order of the code; seven options, reflash among them; two directories | `PassedMeansPresent`, `ReflashMeansAll`, `OthersKept` |
| `windows` | `MCFlashWindows!Spec` | pages of 8 bytes, 2 in the device; flash and image with at most one odd byte; starts 0, 3, 8, 19; lengths 0, 5, 8, 11, 24 | the five properties of the byte loops |
| `xdma` | `XdmaEngine!FairSpec` | 2 callers of both kinds, both modes, ring of 3, requests of up to 2 descriptors, core errors | four safety properties and `SubmittedEnds` |
| `xdma_timeout` | `XdmaEngine!Spec` | 2 synchronous callers that time out, device offline and online or off the bus, ring of 2 | `NoFreedUnlessLost` |
| `xspi_busy`, `xspi_noslave`, `spiflash_erase`, `kiflash_icap` | | | the four disagreements of section 5 that are violations of a property |

Why the bounds are enough:

- `xspi`: 4 bytes over FIFOs of 2 make a first fill that leaves two bytes to a
  refill, which is the last; lengths 1, 2, 3 and 4 are below, at, and above the
  depth, a multiple and not a multiple of it.  Two polls are one that waits and
  one that gives up.  `UIntMax` = 7 leaves room to see a wrap.  The proofs remove
  all of these bounds.
- `spiflash`: one function can disturb another through the device's flags and
  through at most one frame left on the bus, so any call after any interrupted
  call is covered; two sectors tell an erase's target from its neighbour, two
  data a page rewritten from one programmed twice.  Processes may end and
  calls be made without bound.
- `kiflash`: two user sectors make a loop that is entered twice; an image of
  three pages over two sectors reaches the timer region.  Flash pages start all
  alike (`MCInit`; all contents are covered by `spiflash`).
  In `kiflash_two` they start as `Junk`, the content that is hardest to mistake
  for an image.  Runs without bound: the process may end and start again.
- `cmd`: options disturb one another through the pages they share, the orphan of an
  earlier call, `Status` and `FlashData`.  The regions lie as in the code: timer1's
  image begins in the second of its two sectors, so that golden reaches up to it
  and erasing timer1 comes next to golden.  One directory has all images, one of
  two pages and one partial; in the other files are missing and an image reaches
  into the next region.  Of each kind of task there is an option, and of the
  loops one that turns twice; the options that are one call of the flash layer
  (erase a die or a sector, write eight bytes, flags) and the other regions are
  left to the proofs, which have every option.  The sequence of options has no bound, nor has the
  number of killed processes.  The device does not fail here (`Faulty = FALSE`): what
  a failing one may do to a page is in `spiflash` and `kiflash`.
- `windows`: a page of 8 bytes is longer than the offsets that the loops differ by
  (up to 6) and holds one line of the dump; one odd byte at every address of the
  flash, against one at every address of the image, is a difference at every
  place.  A start at 3 moves pages and lines apart.  11 and 24 bytes are two and
  three pages: the last wraps round the device.  A start at 19 is past it.
- `xdma`: a ring of 3 and requests of 2 split a request at the end of the ring in
  every way; two callers race for `desc_lock`, the queue and the service, and up
  to three transfers are queued.  `TransferInit` leaves out the states in which
  asynchronous requests have gone round the ring onto descriptors in use, and
  those in which the second part of a request has no room up to the end of the
  ring either (section 5).  Timeouts are apart in `xdma_timeout`: after one,
  `CompletedMeansMoved` and `ServesHead` do not hold (section 5).
- `xdma_timeout`: two callers are enough for one to go on after the other has timed
  out, with its abort or without.  A caller that skipped the abort makes no further
  call ("lost"), and the memory of a request is not given out again while it is on
  the queue (`Over`); it keeps its content.  The property is about what comes
  before.

CHECK_DEADLOCK is never turned off.

### Fairness

- `XSpi`: `WF(DriverStep)`: the thread inside a call is scheduled.  Nothing is
  assumed of the core: `CallsReturn` holds even if it never shifts a byte, which
  is what the poll budget is for.
- `SpiFlash`: `WF(HostStep)`, the same thread, and `WF(DeviceStep)`: an erase or a
  program ends, well or in error.  Without the second the wait for a ready flash,
  which has no bound in the code, would never end.
- `Kiflash`: weak fairness for the run's thread, each pool thread, the event loop
  and the flash calls (that these return is what `SpiFlash` shows).  None for the
  client's choices, `New` and `IcapCalled`, nor for `ProcessEnd`.
- `KiflashCmd`, `FlashWindows`: none; only safety is checked.
- `XdmaEngine`: weak fairness for the core, the interrupt, the work item and the
  loop of a caller that polls.  None for anything else the callers do, nor for
  timeouts: `SubmittedEnds` holds without their help.  The fairness of the work
  item is stated of what it alone does, lowering `work`, and that of the poller of
  its step from "service" to "finish"; these say the same of `Next` as fairness of
  `EngineServiceWork` and `EngineServicePoll`.

## 4. Proofs

`XSpiProofs` proves, for every `MaxBytes`, `FifoDepth`, `PollBudget`, `UIntMax` and
`SlaveMasks` that satisfy `SizesAssumption` (positive sizes, `MaxBytes` at most
`UIntMax`, masks in {0, 1}):

| Theorem | Property |
|---|---|
| `TypeCorrect` | `Spec => []TypeOK` |
| `SuccessExchanges` | `Spec => []SuccessMeansExchanged` |
| `NothingLost` | `Spec => []NoByteLost` |
| `ReceiveBounded` | `Spec => []RecvBufferBounded` |
| `RestBetweenTransfers` | `Spec => []BusAtRest` |
| `FramesComplete` | `Spec => CompleteFrames` |
| `WedgeLasts` | `Spec => WedgedUntilAborted` |
| `PortRefinement` | `Spec => ImplementsPort` |

None of the invariants is inductive.  That success means the frame was exchanged
depends on where each byte is at each moment, so the invariant `IInv` adds to them:

- `Positions`: while the driver is busy, `recv`, `rxFifo` and `txFifo` hold
  consecutive positions, in that order, and with `remaining` they add up to
  `requested`.  A drop, a duplicate or a reordering would break it.
- `FifoRoom`: both FIFOs together hold no more than one is deep.  This is why the
  receive FIFO never overflows though the driver only looks at the other: it
  fills only after draining, and while it drains nothing moves.
- `AtLabel`: which of these is empty, and that the transmitter is inhibited, at the
  labels where the code relies on it, above all at `fillFirst`, where the FIFO-full
  test reads the wrong register.
- `FrameSeen`: what the selected flash has seen is what has crossed.
- `Flags`: busy implies started implies ready, and which calls own which labels.

`Invariance` proves `Spec => []IInv`, one lemma per action; the rest follows from it.
`FramesComplete` needs also that success and abort are the only ways to
deselect.  `PortRefinement` maps each step to a step of `SpiPort` or a stutter.

`SpiFlashProofs` proves, for every flash (sectors, slots, dies, page contents, failing
or not):

| Theorem | Property |
|---|---|
| `TypeCorrect` | `Spec => []TypeOK` |
| `CommandsTaken` | `Spec => []CommandsAccepted` |
| `SuccessRests` | `Spec => []SuccessLeavesRest` |
| `LayerImplementsStore` | `Spec => ImplementsStore` |

The scripts are first written out, function by function, as sequences of commands
(the `...Text` lemmas); what the rest needs to know of them is only where commands
stand: after which wait, between which address mode commands, before which end
(the `...Facts` lemmas, put together in `JobFacts`).  The invariant then says what
has been established at each step of a script:

- `Bus`: a frame lies on the bus only while the driver cannot be used, and such a
  frame was sent to a flash that could take it.
- `Waited`, `Mode`: after a wait the flash is ready, after a write enable and a wait
  it is write enabled, between its two commands it is in the 4-byte mode.
- `Owner`: after the first wait of a call the flash is busy only with that call.
  This is what fails for anything left by an earlier process before the wait.
- `Effect`, `Reading`: where the effect of the call in progress is, and that a read
  past its READ has the page as it is.

`Accepted` (a command meets a flash that takes it) is the heart of the invariant.
The refinement maps each action to a step of `FlashStore` or a stutter, one lemma
per action; `OrphanRuns`, `SentRuns` and `Dropped` say where an effect may still be
pending when a call gives up.

`KiflashProofs` proves, for every layout, set of images and number of workers that
satisfy `KiflashAssumption`, and with icap only between two runs (`~IcapAnyTime`):

| Theorem | Property |
|---|---|
| `TypeCorrect` | `Spec => []TypeOK` |
| `SuccessProgrammed` | `Spec => []SuccessMeansProgrammed` |
| `HundredEarned` | `Spec => []HundredIsEarned` |
| `CloseIsLast` | `Spec => []ClosesLast` |
| `KeepsRest` | `Spec => OthersKept` |
| `Grows` | `Spec => PercentageGrows` |

The invariant comes in layers, each proved with the help of those before it:
`Control` (types); `Turns` (one run at a time, and the main thread in icap only
while there is none: without it two runs would share `FlashData`); `Fields` (what
the run has in `FlashData` and its locals at each `pc`); `Calls` (which call is under
way at each `pc`, and that an orphan is an erase or a write of a run); `Seen` (the
pages verified so far are in the flash, and no orphan is left to change them,
which is why a verification may be trusted at all); `Progress` (the percentage at
each `pc`); `Messages` (what is in each queue, and that a worker that joins has
sent 100 last).

`FlashWindowsProofs` proves the six properties of `FlashWindows` for every page size
that is a multiple of 8, every device, memory, start and length.  The invariant
has the place of the loops (`Place`), the page in `ReadBuffer` (`Buffer`), and for each
function what it has seen so far (`Compared`, `Dumped`, `BlankSoFar`).

`KiflashCmdProofs` proves, for every layout of dies and regions, every set of
directories and every set of options that satisfy `CmdAssumption`, on any flash,
failing or not:

| Theorem | Property |
|---|---|
| `TypeCorrect` | `Spec => []TypeOK` |
| `PassedPresent` | `Spec => []PassedMeansPresent` |
| `KeepsRest` | `Spec => OthersKept` |

First the tasks of every option are looked at, once (`TasksPlanned`): each has its place
in that option, those that use `FlashData` come after one that sets it, and an
option that vouches for an image ends with its verification.  The invariant is

- `Control`: the types, and which phases and calls go together.
- `Plan`: the tasks that are left still fit the option, and a task that uses
  `FlashData` finds there a region of this option, not one left by an earlier option.
- `Loop`: how far each loop may be, and that the open file is the one it should be.
- `Calls`: which call is under way, that it changes only what the option may change,
  and that a verification reads the page it thinks it reads.
- `Seen`: once a verification has begun to compare, no orphan is left, and the pages
  compared so far are in the flash.  This is why erasing and programming, whose
  errors the flash layer may swallow, need not be trusted.

There is one lemma per action, resting on four: entering a call (`EnterInv`), a turn of a
loop (`TurnInv`), the next task (`NextTaskInv`) and the end of an option (`FinishInv`).

`ReflashProofs` goes on from there:

| Theorem | Property | If |
|---|---|---|
| `ReflashAll` | `Spec => []ReflashMeansAll` | `ErasedApart` |

The property is about the order of eighteen tasks.  timer2's sectors are erased after
timer1's image was written and verified, and golden and user are then programmed
with no erase of their own, so it depends on the layout: `ErasedApart` says that
timer2's sectors hold no page of timer1's image.  In the code that image begins at
`0x07FFFC00` and those sectors at `0x0FFC0000`; an image that reached them
would run over all that is written at `0x08000000` for user.  `MCKiflashCmd` assumes it of its
layout, so that TLC evaluates it.  That the images themselves do not overlap is part
of the property, since it depends on the files.  The invariant `ReflashInv` says that

- what is left of the option are the last tasks of `Reflash`, and from the task that
  sets a region to its verification `FlashData` has that region (`Remaining`);
- each image that has been verified is in the flash, and neither the call in progress nor an
  orphan is about one of its pages (`Verified`).

Verification is the only task that adds an image to the second part: it ends with
nothing outstanding (`Seen`).  No later call takes one away: the die erases come before
the first verification (`CallFlashReflash`), timer1's sectors too, timer2's by
`ErasedApart` (`EraseNextReflash`), and a page that is programmed is in the image of another
region (`ProgramPageReflash`).  An orphan left by a later call has that call's pages.

`XdmaEngineProofs` proves, for every set of callers, ring, request size and mode that
satisfy `XdmaAssumption`:

| Theorem | Property | If |
|---|---|---|
| `TypesHold` | `Spec => []TypeOK` | `~Timeouts`, `~Offlines` |
| `CompletedIsMoved` | `Spec => []CompletedMeansMoved` | the same |
| `HeadIsServed` | `Spec => []ServesHead` | the same |
| `ReturnedIsQuiet` | `Spec => []QuietAfterReturn` | the same |
| `FreedIsNotQueued` | `Spec => []NoFreedOnList` | the same |
| `SyncFreedIsNotQueued` | `Spec => []NoFreedUnlessLost` | `Kinds \subseteq {"sync"}` |

The first hypothesis is that of run `xdma`, and it is needed: once a wait ends early, or
the device goes offline under a transfer, `CompletedMeansMoved`, `ServesHead` and
`QuietAfterReturn` do not hold of the code (section 5).  The invariant `Inv` is

- `Types`, and `Calls`: what has become of a caller's transfers at each place of its call;
  a synchronous one holds `desc_lock` from its first descriptor to its return.
- `Queue`: it holds what has been submitted, each once, the parts of a request in order.
- `Descriptors`: a transfer's descriptors stay its own until it has been carried out,
  and only its last one stops the core.
- `Core`: while the queue is not empty the core is on the descriptor of its head that
  `moved` tells, or it has ended there, with a count, an event or a writeback that says
  so; while it is empty the core is at rest.  `desc_dequeued` is 0 before each service.
- `Carried`: nothing has been moved of a transfer that is not the head's.

Since each transfer ends with a descriptor that stops the core, a run of the core covers
one transfer, the count of a service is never above the head's, and the walk of
`engine_service_transfer_list` passes none (`ServiceListStays`): a service completes the
head or fails it, then starts the next (`ServiceResult`).  The walk is a recursive
function over the length of the queue.  That it has a value at all is an induction,
which the library states for an operator; `SetInduction` states it for a set, from
`WFMin`, and `ServiceWalk` applies that to the set of lengths a walk can have.

The second hypothesis allows timeouts, a device that goes offline and a core that does
anything: `SyncInv` only looks at the driver.  Whoever waits holds `desc_lock`, so the
queue has at most that caller's one transfer.  An abort therefore always finds it at
the head, and a service cannot take away another's.  With asynchronous callers
neither is true.  All this is until a caller skips its abort: `SyncInv` does not hold
afterwards, so the invariant of the theorem is that it holds or some caller is lost,
and `LostStays` that a lost caller stays so.

Only model-checked: liveness (`CallsReturn`, `SuccessCloses`, `SubmittedEnds`), which is
out of the provers' reach.

No module uses a recursive operator: the walk over XDMA's queue is a recursive
function.

## 5. Where the code and its text disagree

- **A transfer given up wedges the library** (`xspi_busy`).  After 100 polls
  `XSpi_Transfer` fails with `IsBusy` set.  Every later call is refused as busy, also
  when all bytes have crossed; nothing in `flash_qspi_rw.c` aborts or resets.
- **Mask 0 does not mean "no slave"** (`xspi_noslave`).  `XSpi_SetSlaveSelect(0)`
  stores all ones, which the no-slave test does not recognise.
- **An erase may report success unerased** (`spiflash_erase`).  `GetStatus` drops the
  results of its last calls and the error flag.  `SuccessMeansProgrammed` shows
  that the verification catches it before a run reports success.
- **icap races start-up** (`kiflash_icap`).  Called during the first run's start-up it
  enters the driver from a second thread.

The following were met while modelling.  The model has the behaviour of the code,
and the properties say what does hold.

- **Verifying timer2 verifies nothing** (`kiflashcmd/src/flash_qspi_rw.c:793`).  The menu
  offers " 14: Verify (*.bin)" (line 375) for four images; the branch of the fourth
  tests a `Status` that an earlier option left.  `PassedMeansPresent` leaves it out.
- **Programming a die always succeeds** (line 2513), also when the file cannot be
  opened, against the comment at line 2505.  `StatusAfter` has it so.
- **The user's file name is never used**: option 3 (line 364) sets a name that every
  option replaces before it uses one (line 561).
- **The blank check does not look at every byte** (`kiflashcore/src/flash_qspi_rw.c:737`):
  the first of each page and the last three are left out, though the menu reports
  "without error".  `BlankCheckCovers` says which bytes are covered.
- **It prints an address three too high** (line 741), as `FailMeansProgrammed` states.
- **A read from 0 is not limited to the device** (line 919, against line 957).
  `ReadStaysInDevice` is about the others.
- **XDMA: a completion may be credited to the wrong transfer** (`libxdma.c:3628`).  A wait
  that times out takes its transfer off the queue, but the core may have finished
  it; the service of that run then completes the next transfer in the queue, "mark
  transfer as succesfully completed" (line 826), of which nothing was moved.
- **XDMA: the engine is not started after a timeout** (line 2739).  `engine->running`
  stays set with the core stopped, `transfer_queue` takes it for a busy engine, and
  the next transfer times out without having been started, against "will invoke a
  new run" (lines 631-632).
- **XDMA: only the head of the queue can be aborted** (line 2665).  A transfer further
  back is called "NOT found" (line 2668) and left there.  Synchronous callers
  queue one at a time under `desc_lock`, so in `xdma_timeout` there is none further
  back but behind one whose abort was skipped.
- **XDMA: a timeout may skip the abort** (line 3619).  The call reads the engine's status
  with a dump of its registers; when the identifier does not read as an engine's
  (`engine_reg_dump`, line 369: the device is off the bus or in reset) it neither
  aborts the transfer nor stops the engine, but frees the request all the same (line
  3665).  The freed transfer stays on `transfer_list`, the core may still carry it out,
  and the next service or start of the engine works on it.  With `NoFreedOnList` in
  place of `NoFreedUnlessLost`, `xdma_timeout` finds this after six steps of one
  caller.
- **XDMA: offline does not wait** (line 4571): "wait for all engines to be idle" (line
  4561) stops the core and goes on while it is still busy.
- **XDMA: a request may need a third transfer**, and there is no place for it: "Use two
  transfers in case single request needs to be split" (`libxdma.h:441`) counts one end of
  the ring, but other callers may take descriptors between the two parts of an
  asynchronous request (`xdma_xfer_submit_nowait` locks for each), so that the second
  part meets the end too.  `TransferInit` leaves this out; it was met when the proof that
  the index stays within `tfer[2]` failed.
- **XDMA: the ring may be overrun** by asynchronous requests (line 3219, whose TODO
  foresees it): later descriptors replace those that have not been carried out.

Observed, with no text to hold it to: a run that fails leaves its `Execute`
waiting for 100 for ever, and its worker never closes.

## 6. Not modelled, and why

- Interrupt mode of XSpi and `XSpi_Transfer_SkipCheck`: dead in this program.
- `pcimem.c`: a load or a store, which is an action of `XSpi`.  A failed open or mapping
  ends the process.
- The menu's option 7 and the end of option 0 (icap: the FPGA reboots, and with it
  everything modelled here) and option 15 (PciSweep: reads and prints registers).
- `SpiFlashReadRegister`, `SpiFlashWriteDisable`, `SpiFlashEnableHPM` and the serial
  verification (`qspi_verify_flash`): called by nothing.
- The constructor of the addon when dlopen fails; the unused direction of the
  streaming worker, from Node to the worker; the size of libuv's pool; statistics;
  all printing but the dump's and the blank check's addresses.
- XDMA: cyclic transfers, the performance test, credits (`desc_used` is used for
  nothing else), user interrupts, completion threads, character devices, BARs,
  MSI and engine set-up.
- QDMA, XVSEC, and the DPDK drivers: third-party code that nothing in the flash
  program calls or links.

Most lines of the repository are of the last kind or saved copies: of about
250,000 lines, 134,000 are an editor's `.history` of the few files modelled here,
and 90,000 are Xilinx drivers and tools.  The program itself has some 26,000, in
two near-identical copies.  The share of the repository that is modelled is
therefore small by construction.

## 7. Plan

Done: 1. `SpiPort`, `XSpi`, `XSpiProofs`.  2. `FlashPages`, `FlashStore`, `SpiFlash`.
3. `Kiflash`.  4. `KiflashCmd`.  5. `FlashWindows`.  6. `XdmaEngine`.
7. `SpiFlashProofs`.  8. `KiflashProofs`.  9. `FlashWindowsProofs`.  10. `KiflashCmdProofs`.
11. `XdmaEngineProofs`.  12. `ReflashProofs`.

What could still be taken up: the completion threads and cyclic transfers of XDMA.
