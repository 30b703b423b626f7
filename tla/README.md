# A verification development for EasyEmbeddedFramework

EasyEmbeddedFramework is a C framework for microcontrollers: containers that
work without a heap, services (task worker, event bus, RPC, state machine, ...)
built on them, drivers with a common locking scheme, and an operating system
abstraction layer (OSAL). This directory models its core in TLA+, checks the
models with TLC on small instances and proves the central invariants with TLAPS
for every value of the constants. Paths below are relative to the repository.

    tlc -config Queue.cfg Queue          # one run; PROJECT.json lists them all
    tlapm TaskWorkerProofs.tla           # one proof module

## The system

| Component | State | Operations | Hard behaviour |
|---|---|---|---|
| linked list `src/utilities/linked_list` | next and prev of nodes embedded in other structures | append, add head/tail, insert head, unlink, traverse | aliasing of the nodes an operation touches |
| ring buffer `src/utilities/ring_buffer` | array, head and tail index, count | push, pop, reset | indices at the end, two-part copies |
| static allocator `src/utilities/static_alloc` | free and allocated list per buffer, a global pool of block headers | init, malloc, free with merge | an exhausted pool, fragmentation, lists that interfere |
| queue `src/utilities/queue` | list of items that live in the queue's own buffer | create, reserve, push (reserved), release, pop and get at both ends | half-failed reservations, pointers into a changing buffer |
| task worker `src/service/task_worker` | queue of task blocks, semaphore, event bit | enqueue (any thread), execute (worker's thread) | threads, timeouts, wake-up |
| HAL drivers `src/hal`, `inc/hal/ez_driver_def.h` | list of hardware drivers, the instance that has the lock | register, synchronous and asynchronous calls, completion interrupt | interrupts, a lock held across calls |
| OSAL `src/middlewares/osal` | table of functions of the chosen RTOS | tasks, semaphores, timers, events | what each backend returns |
| event bus `src/service/event_bus` | listener list, queue of (code, data) pairs | send, run, listen, unlisten | callbacks that change the list, paired elements |
| RPC `src/service/rpc` | request records, two queues, byte-wise parser | request, response, run | lost and damaged bytes, full queues, unknown commands |
| state machine `src/service/state_machine` | current and next state, ring of events, a sub machine | run, set event, set state, clear | callbacks that redirect a transition, events from interrupts |
| data model `src/service/data_model` | sorted array of points, one buffer, dirty flags | set, get, first dirty, clear | search bounds, a set between read and clear |
| CLI `src/service/cli`, `samples/app/app_cli` | one buffer, indices into it, parser state | one character at a time | the buffer's limit, quotation marks, pauses in typing |
| OSAL demo `samples/app/app_osal` | three tasks, a timer, events | started by the CLI | a flag set once, deleted objects used again |
| IPC `src/service/ipc` | mail boxes over the allocator, pending messages | init, send, receive, release | does not compile at this commit |
| logging, hexdump, snprintf, assert, endian, system error | tables | formatting, forwarding | none over time |

How they interact: the allocator keeps its blocks on linked lists; the queue
keeps its items on a linked list and in the allocator; task worker, event bus
and RPC own queues, the state machine a ring buffer; drivers keep their hardware
drivers on a linked list; the task worker and the OSAL demo call the OSAL; the CLI
sample starts both demos. All of it is plain function calls on shared structures.
Concurrency enters at five places: threads around the task worker; interrupts that
end a driver's transfer, set events of a state machine or come from a pin; callbacks
that call back the bus or the machine that called them; tasks, timer and kernel of
the OSAL demo; and the two ends of an RPC link, which share only a line that loses
and damages bytes.

What makes each correct: no list loses or shares a node; a ring is a FIFO; no
byte is in two blocks and no header is lost; a queue returns what was put into
it, unchanged; every enqueued task is executed, alone and in order, and the
semaphore is always given back; a driver in a transfer belongs to the instance
that started it, and that instance is told when it ends; a listener that stays hears
every event once, in order; RPC messages are handled in order and at most once, a
response closes the request it answers, and the parser never loses an element; a
state machine is inside exactly its current state and handles its events in order; a
clean data point is one its reader has; a command line calls the callback its words
ask for, or none; the OSAL demo comes to its end on both kernels.

## The modules

| Module | Models | Implements |
|---|---|---|
| `LinkedList` | the pointer operations over nodes and list heads | `ListSeq`: sequences with insertion and removal |
| `RingBuffer` | push and pop in one or two parts, reset, repeated init | `ByteFifo`: a bounded FIFO of bytes |
| `StaticAlloc` | first fit, split, insertion of a freed block, merge loop, header pool | `Heap`: disjoint free and allocated blocks |
| `Queue` | the queue over an instance of `StaticAlloc` | `Deque`: payloads first in first out, or out at the back |
| `TaskWorker` | EnqueueTask and ExecuteTask, one action per call they make, with the port's semaphore and event | `WorkQueue`: tasks one at a time, in order |
| `HalDriver` | driver list, lock, calls, completion interrupt of UART, I2C, SPI and GPIO | properties only |
| `Rpc` (`RpcMC`) | two RPC instances, their parsers byte by byte, the line between them | `RpcLink`: messages in order, at most once; requests open until answered |
| `EventBus` over an instance of `LinkedList` | listener list and event queue, the loop of Run with callbacks | `Announcer`: one topic at a time, told once to everyone who stays |
| `StateMachine` | a machine and a sub machine, one step per callback | properties only |
| `DataModel` | table, buffer, dirty marks, a setter and a reader | the search against its definition |
| `Cli` | the parser and the sample's two tasks | the meaning of a line, read off its words |
| `Osal`, `OsalApp` | the calls of both ports on kernel objects; the demo's tasks on them | properties only |
| `UtilitiesMC` | the list, the ring, the allocator and the task worker in one run, one part per behaviour | |
| `ServicesMC` | the last five of the others in one run, one part per behaviour | |

**LinkedList.** `next` and `prev` are functions over heads and items, as the
struct's two pointers. `Link` and `Unlink` are the pointer writes; the
operations choose their arguments. Appending a node that is on a list is
excluded: the code does not check it and no caller does it. The macro
`EZ_LINKEDLIST_ADD_HEAD` appends after `head->next`, so on a non-empty list the
new node becomes the second; the model does the same. Other modules use the
result, a list as a sequence, instead of pointers.

**RingBuffer.** One action per path of the code. `moved` and `data` are what the
last call returned and copied out. The stored bytes are read off the array from
the tail index, and that sequence is what refines `ByteFifo`.

**StaticAlloc.** The functions of the C file are operators on one list's memory
`[free, alloc, used]`; `Malloc`, `Free` and `InitMemList` apply them. A header is
free exactly when its `buff` is NULL, so the pool is a counter. The free list is
not sorted: a freed block goes before or after the *first* free block, and the
merge loop starts at the first one only. Both are modelled as they are, and that
no harm but fragmentation comes from it is a result of the checks. A block that
cannot be split because the pool is empty loses its tail, as in the code.

**Queue.** An item is two blocks of the queue's own allocator, so `Queue`
instantiates `StaticAlloc` with the queues as memory lists and reuses its
operators: `ReserveElement` is two allocations, a failing one frees the first,
and a pop frees the data and then the item. `buff` holds the payload bytes; the
allocator clears a block when it is freed, the queue when it is created. The
fields of the item header are kept in the item record; their bytes in the buffer
are one abstract unit (`ItemSize`). A reserved element is pushed or released
once, by whoever holds it.

**TaskWorker.** Each thread that enqueues has a program counter, the worker's
thread another one (`wpc`). A step is one call of the code to the OSAL or one
critical section of the queue, which the semaphore protects. A task runs on the
worker's thread with the semaphore held and may call EnqueueTask itself.
`InitialCount`, `EventSet` and `ExecuteTask` contain what the two ports do:
FreeRTOS creates the semaphore empty (the application has to give it first) and
clears the bit when a waiter takes it; ThreadX creates it full and never clears
the bit. `AfterEventWait` is the comparison of the code, which takes the branch
of a success when EventWait returned 0, i.e. when it timed out. The allocator is
reduced to a capacity: a reservation may succeed below it and may fail any time.

**HalDriver.** The calls of an instance that lock and unlock are two kinds,
synchronous and asynchronous; each is split between the check of the lock, the
write of the lock and the end of the call, so interrupts and other threads come
between. The module's code is correct only for an application that follows rules
nobody enforces (one thread makes the calls; an instance is left alone during its
transfer; no registration in use is changed). All steps may break them;
`orderly` is a history variable that says whether one did. The properties that
hold for an orderly application start with `orderly =>`; the run
`hal_driver_lock` shows what happens without it.
A step of a disorderly application is never forbidden, only recorded. Registering
a hardware driver that is on the list already is excluded, see LinkedList. The four
drivers are the same code but for a few lines, so `peripheral` is chosen at the start:
UART and I2C keep the lock until the completion event, SPI gives it back as soon as
the transfer has begun and has no handler for the event (the three properties about
transfers exclude it for that reason), GPIO has synchronous calls only and its pin
interrupt reaches whichever instance is in a call and takes the lock from it. That
interrupt breaks no rule: `orderly` keeps its value. `UserIsCurrent` says that the
instance in a call is the driver's current one; it is checked of UART, I2C and SPI
(`CallHoldsLock`) and shown violated for GPIO (`hal_driver_gpio`).

**Rpc.** Both ends run the same code, so every variable is a function of the
instance. ezRPC_Run is three actions: `ReceiveByte` (one action per parser state),
`ezRpc_HandleReceivedMsg`, `Transmit`; `stage` keeps their order. Frames have their
real bytes: the parser shifts two bytes into a register and compares after every
second one, and it leaves a frame with a byte count above zero, so whether it finds
the next frame depends on the number of bytes before. `reserved` counts the queue
elements the parser holds. The receive queue holds headers and payloads as they were
pushed; when an unknown command has left a payload in the place of a header, the code
reads 20 bytes from it, whatever is there: `FrontHeader` is any header of the constant
`Misread`, of which the proofs assume nothing but that its members are headers (the
type `EVENT` stands for every type that is neither a request nor a response, which the
code does not tell apart). The size of a payload has its 32 bits, in two halves: the
parser compares all of it with its count, and the queue reserves a block of the low
half, since `ezQueue_ReserveElement` casts the size to 16 bits. A byte for which the
block has no room is written behind it; `PayloadOverrun` takes the instance to the
stage `overrun`, and what it does from there on is not followed, as it depends on what
the byte overwrites. `sent` and `handled` are histories; they are what refines
`RpcLink`. The line is external: it keeps the order and may lose or damage a byte.

**RpcMC.** Two scenes. On a perfect line both instances ask, for a command both know
and with a payload of one byte: such a frame has an odd length, so the parser, which is
out of step behind the frame it has received, is in step again behind the next one, and
each instance handles two messages. On a faulty line the client alone asks, for a known
and an unknown command and with frames of an odd and of an even length, and one byte of
either direction is lost or damaged, the first byte of a size included.

**EventBus.** The pointers are those of `LinkedList`, because the loop over the
listeners reads a node's `next` after the callback of that node has run. As in
HalDriver, `bus_orderly` records whether a caller has broken a rule nobody enforces:
listening twice or from a callback, leaving in one's own callback, resetting during a
Run. Within the rules the bus is the `Announcer`, and a Run ends.

**StateMachine.** One action per callback (`SmHandleEvent`, `SmAct`, `SmExit`,
`SmEnter`), for the main machine and the one its states run inside; `ezSM_SetEvent` and
`ezSM_ClearAllEvents` come between any two. The table says which functions a state
has, because the code treats a missing one as "nothing reported". A history says which
states the machine is inside of.

**DataModel.** The search is a recursive function on intervals, as its loop; offsets
are computed and asserted as in AllocateDataPoints. The reader's three calls are three
actions, so that setters come between.

**Cli.** A line is typed, and its characters are polled one at a time; a poll between
two of them reads NUL. `cli` is the struct, with the pointers into the buffer as
indices. `LineMeaning` does not use the parser: it says from the words of a line what
is called. Printing writes the buffer, as in the code.

**Osal, OsalApp.** Each call is an operator from the kernel's objects to the objects
after it, by port; using a deleted object sets `undefined` where the code does not
check, and nothing is said of what follows. The demo's tasks are the actions. On
FreeRTOS, creating an object without memory for it (`ez_osal_freertos.c:148, 247, 319,
393`) and starting or stopping a timer while the kernel's queue of timer commands is
full (l.351-357, 369-375) return `ezFAIL`; these returns are left out, as the demo
creates six objects at its start and has one timer command under way at a time.

**UtilitiesMC, ServicesMC.** Their parts share no state in the code, so a product of
them would show nothing: a behaviour is one of a single part, chosen at the start.

## What is checked

| Run | Instance | Shows |
|---|---|---|
| `utilities`, list | 2 heads, 4 nodes | rings stay whole, every node on one list or none, each operation is one insertion or removal |
| `utilities`, ring | capacity 4, requests up to 5, 2 byte values | count and indices agree, FIFO |
| `utilities`, allocator | 2 lists of 4 bytes, 6 headers | blocks disjoint, headers only leak in InitMemList, bytes only without headers, refines `Heap` |
| `utilities`, task worker | 2 callers, the worker, 2 tasks, 2 places, FreeRTOS, finite waits | semaphore balanced, refines `WorkQueue`, enqueued tasks run |
| `queue` | 2 queues of 6 bytes, 5 headers, items of 1 byte, data of 1 or 2, 2 payloads | items own their blocks, payloads intact, refines `Deque` |
| `hal_driver` | 2 instances, 2 drivers, each of the four peripherals | lock held through calls (not of GPIO) and transfers (not of SPI), the event reaches the starter and unlocks |
| `rpc` | client and server, 3 and 1 requests, 2 records, 1 place to transmit, 3 to receive, with and without a CRC; a perfect line, or 1 byte lost or damaged | elements reserved and pushed in pairs, the queue holds messages, refines `RpcLink`, the first request is answered |
| `services` | bus: 3 listeners, 2 events, 4 places, 4 sends; CLI: 4 commands, 27 lines, 13 bytes; machines of 3 and 2 states, 1 place, 2 events; 3 valid tables in 4 bytes; demo started twice, counters of 0..5 | each part's properties, see below |
| `static_alloc_merge` (violation) | 1 list of 4 bytes, 8 headers | free blocks that are adjacent are not merged |
| `task_worker_forever` (violation) | as in `utilities`, the worker waits forever | an enqueued task is never executed |
| `task_worker_result` (violation) | as in `utilities` | EnqueueTask returns true for a dropped task, or false for an enqueued one |
| `hal_driver_lock` (violation) | 2 instances, 2 drivers | the lock lets a second instance use a busy driver |
| `hal_driver_gpio` (violation) | 2 instances, 2 drivers | a pin interrupt unlocks the GPIO driver in the middle of a call |
| `rpc_next_frame` (violation) | as `rpc`, 9 places to receive, no faults | the frame behind a received one is dropped |
| `rpc_overrun` (violation) | as `rpc` | a damaged size makes the parser write behind the payload's block |

In `services`: `BusImplementsAnnouncer` and `BusRunEnds` say what listeners hear and
that a Run returns; `CliObeys` compares what a line calls with what its words mean,
and `CliCanRecover` bounds what a line can do to the parser; `SmSettles` is about
states and events of both machines; `DmFindsEvery` and `DmCleanMeansSeen` are about
search and marks; `OsalAppEnds` about the demo on either kernel.

**Bounds.** The runs of the first six modules have no bound on the length of behaviours:
their state spaces are finite because the data structures are. In `rpc` the number of
requests and of faults is bounded: three requests are the fewest with which one
follows another, fills the records and finds the transmit queue full; with the server's
one request both directions carry requests and responses, and on the perfect line each
instance handles two messages, so that order and at-most-once are exercised without a
fault; one fault in any byte of any frame reaches every error path of the parser and the
overrun, and three places to receive make the header, the payload or the CRC the one
that is refused. `MCMisread` has uuids and commands known and unknown, all types, and
sizes that fit the element behind and that do not. In `services`, four sends fill
the bus's queue again while it is run; `SmMaxEvents` bounds events between two
`ClearAllEvents`; the widths of counters (`MarksRange`, `IndexWidth`, `CountRange`) are
smaller than in C and wrap as there. The lines of the CLI have every kind of word at
every place, and fill the buffer to its last byte and beyond. Four nodes give every alias an append or
unlink can meet (neighbours equal, equal to the head, different, on the other
list). A ring of four with requests up to five has every combination of index at,
before and on the end with full, part full and empty, and requests larger than the
ring. Four bytes cut into at most four blocks, which is enough to free blocks
before, after and between others; six headers for two lists let the pool run out
in the middle of an allocation and after it. A queue of six bytes holds three
elements of two bytes or two of three. Two callers and the worker give every pair
of threads that can meet, and a third that waits. Two instances and two drivers
let instances share a driver and move between drivers.

**Deadlock** is checked in every run but `services`: none of the other systems
stops (an RPC instance that has written behind a block does, its peer goes on polling). In `services` the bus stops when its sends are used up and nothing else is
asked of it, and the OSAL demo when it has used a deleted object.

**Fairness.** `TaskWorker` assumes that a thread that can go on does (`WF` on
the worker's steps and on each caller's continuation of a call it has made); the
scheduler is preemptive, a task returns, and a wait with a finite time ends.
Nobody is obliged to start a call. `QueuedTaskRuns` holds once the callers are
quiet: while they are not, they may keep the semaphore from the worker for any
time. `HalDriver` assumes that the hardware ends each transfer
it started (`WF` on the completion event of each driver). `Rpc` assumes that both
applications keep polling ezRPC_Run (`WF`), as the code demands, and that a byte that
is on the line again and again when receive is called is read at last (`SF`: receive
may return nothing any number of times, but not for ever). `BusFairness`: the
application calls ezEventBus_Run again and callbacks return. `OsalFairness`: a ready
task runs, an active timer elapses, its callback finishes; tasks 1 and 2 need nothing.

**Disagreements** between the code and what its documentation says are the
seven runs that expect a violation; `findings` in `PROJECT.json` quotes the lines.

**What else the models do as the code does**, and a reader of the code may not expect:

- *RPC*: of two frames sent one after the other at most one is received (the run
  `rpc_next_frame`, the theorem `EverySecondFrameIsLost`), because the parser's byte
  count is not reset when it leaves a frame. An unknown command leaves its payload in the queue, and from then on payloads are
  read as headers. The CRC does not cover the header, and a response with uuid 0 matches
  a record that was never used. Records never time out, so a lost response keeps its
  record for ever.
- *CLI*: the character that finds the buffer full is still written, one byte behind it.
  An unclosed quotation mark is counted on the next line; a NUL polled during a pause
  becomes part of the line; printing goes through the buffer the command is read into;
  the line after one with an unknown command is swallowed.
- *State machine*: the state that the initial state's enter function reports becomes
  current without being entered; SetState leaves a state without exit; a transition,
  redirected by an enter function, to a state without one dereferences NULL.
- *Data model*: a set between GetDataPoint and ClearDirtyFlags is not seen. Index
  2^32 - 1 cannot be told from "none dirty".
- *Event bus*: a listener that stops listening in its own callback makes the loop
  over the listeners run for ever.
- *OSAL*: FreeRTOS's EventSet reports failure when a waiter has already cleared the
  bit. The semaphore starts empty on FreeRTOS, full and unbounded on ThreadX. Starting
  the demo twice uses what its first run has deleted.
- *SPI*: the driver is unlocked while its asynchronous transfer goes on, and nobody is
  told of its end. *GPIO*: a pin interrupt is lost unless it comes during a call, and
  then unlocks the driver in the middle of it (`hal_driver_gpio`). *All drivers*: an
  asynchronous call that the hardware refuses leaves the driver locked.
- *Static allocator*: a list initialised while the pool of headers is empty counts as
  ready although it has no memory.

## What is proved

| Module | Theorems | Assumptions |
|---|---|---|
| `LinkedListProofs` | `TypeCorrect`, `AlwaysWellLinked`, `ListsAlwaysPartitionNodes`, `ListSeqRefinement` | heads are no items, finitely many nodes |
| `RingBufferProofs` | `TypeCorrect`, `IndicesAlwaysAgree`, `FifoRefinement` | capacity positive, zero is a byte |
| `TaskWorkerProofs` | `TypeCorrect`, `SemaphoreAlwaysBalanced`, `WorkQueueRefinement` | the worker is not a caller, any capacity, either port, any waiting time |
| `HalDriverProofs` | `TypeCorrect`, `TransferAlwaysHoldsLock`, `CallAlwaysHoldsLock`, `EventReachesStarter` | NULL is no instance and no driver |
| `StaticAllocProofs` | `AlwaysTyped`, `AlwaysDisjoint`, `HeapRefinement`, `BytesLostOnlyThen`, `HeadersLeakOnlyAtInit` | buffers and the pool are not empty |
| `QueueProofs` | `TypeCorrect`, `ItemsAlwaysOwnTheirBlocks`, `PayloadAlwaysIntact`, `DequeRefinement` | the same, items and data have at least a byte, a cleared byte is no payload |
| `RpcProofs` | `TypeCorrect`, `AlwaysReservedAsParsed`, `QueueAlwaysHoldsMessages` | any commands, payloads whose frame's size fits 16 bits, CRC of two bytes, records and queue sizes, any number of faults, any misread headers |
| `RpcProofs`, the line | `EverySecondFrameIsLost`, `LinkRefinement`, `PerfectLinkRefinement` | the same, and `MarksOnlyAtStarts`; only known commands are asked for; `LinkRefinement`: `CrcCatches`; the last: no faults |
| `ServicesProofs`, state machine | `SmTypeCorrect`, `AlwaysSettles` | any states, table, events and buffer size; two machines |
| `ServicesProofs`, event bus | `BusTypeCorrect`, `AnnouncerRefinement` | the head is no listener, finitely many of these; any events and capacity |
| `ServicesProofs`, data model | `DmTypeCorrect`, `DmAlwaysFinds`, `DmCleanIsAlwaysSeen` | the tables are of points with natural sizes and no index is the invalid one; any lengths, sizes and width of an index |
| `ServicesProofs`, command line | `CliTypeCorrect`, `AlwaysRecovers`, `CliAlwaysObeys` | any table of commands (`CliTypeCorrect`: with one at least), a buffer and an argument list that are not empty; any lines whose pieces have no character that would end them: a blank is inside marks, and a mark left open is in the last word |
| `ServicesProofs`, OSAL demo | `OsalTypeCorrect`, `FlagNeverLost` | the pool of the ThreadX port has room for three stacks (the code's has 4096 bytes, and a stack 256); either port, any bounds of the counters |
| `ServicesProofs`, together | `ServicesTypeCorrect`, `ServicesKeepTheirPromises` | those of the parts |

- *LinkedList*: `ListTypeOK /\ WellLinked` is inductive as it stands: `prev` and
  `next` being inverse to each other gives every case of aliasing at once. It does not
  say which rings there are: for that, `Shown` adds that some sequences `L[h]` without
  a common element go round the heads' rings (`Rounds`) and hold every node that is not
  detached (`Complete`). `LinkInserts` and `UnlinkRemoves` turn one pointer operation
  into one `InsertAt` or `RemoveAt` of them, and `VisitedItems` shows that the
  traversal reads exactly `L[h]`: the traversal is a recursive function, and instead
  of an induction the smallest number of steps for which a claim about it fails is
  shown not to exist (`Smallest`). That there are finitely many nodes is what lets the
  traversal of the model stop; the program has finitely many.
- *RingBuffer*: `RingTypeOK /\ IndicesAgree` is inductive. The refinement shows per
  action that the bytes read off the array change as `ByteFifo` says; the work is
  in the index arithmetic of the two-part copies.
- *TaskWorker*: balance needs the types of the program counters; the refinement
  needs in addition that a running task is the head of the queue and that no
  caller is inside the critical section meanwhile (`LocalsOK`).
- *HalDriver*: neither lock property is inductive, and `CallHoldsLock` is proved of
  UART, I2C and SPI only: for GPIO it is false, see above. `IInv` adds, for an orderly
  application, that calls are alone and on a driver for which their instance
  has no transfer (`CallsAlone`), that a driver is locked only for an instance
  registered to it (`LockedForOwn`), and that such drivers are on the list
  (`RegisteredInList`). From these the event finds exactly the driver of the
  transfer (`EventFindsStarter`), which gives the theorem about callbacks. The list of
  drivers is an invariant of its own (`ListOK`).
- *StaticAlloc*: `IInv` says of each memory list that its free blocks, its allocated
  blocks and the two lists with each other are apart, and that every block ends
  inside the buffer, without which the tail of a split block would have no type. The
  merge loop is a largest element (`LargestAbsorbable`); that what is apart from the
  blocks it absorbs is apart from the block they become, and that this block has
  exactly their bytes (`MergedBlock`, `MergedBytes`), follows from the first of them
  to break the chain, which exists as numbers are well-founded: no induction over
  data is needed. For the refinement the lists become sets: blocks that are apart
  are distinct, so removing one from the list removes it from the set.
  Headers are counted as the set of their places on the lists (`OnLists`):
  `HeadersTaken` says that all of these are taken from the pool, and per operation
  `Drawn` that it takes as many headers as it adds to the lists.
- *Queue*: the proof instantiates `StaticAllocProofs` and uses of the allocator only
  what a reservation and a release do to the set of allocated blocks (`Reserving`,
  `Releasing`), each for a list whose blocks are apart and counted (`Accounted`). The
  inductive invariant `Keeps` adds to the three properties that no item is linked
  twice or both linked and reserved (`Listed`), and that no two items have a block at
  the same address (`Owns`): a pop frees by address, so without that it might free a
  block of another item. Items of a queue are then apart (`ItemsApart`), which is why
  what is stored or cleared for one leaves the bytes of the others
  (`HoldsPushed`, `ClearedOthers`). The refinement reads the payloads as
  `Values(items, bytes)` and needs one lemma for each end.
- *Rpc*: the elements held follow from the state at every exit of the parser. That
  the queue holds whole messages needs in addition that the length of the payload is
  the parser's count until it is complete (`PayloadsWhole`), as a header is pushed
  with the payload read so far, and that a payload is complete only if the high half of
  its size is zero: with any other, the block ends before the payload does, and the next
  byte is the overrun. `TypeOK` has the bound of the count in every state (`CountOK`); in
  the state PAYLOAD it is the size of the block that was reserved. The line and the link are below.
- *StateMachine*: `IInv` extends `SmSettles` to the middle of a Run: between an exit
  and the end of the enter function a machine is inside of no state
  (`InsideAsStaged`), and an exit always leads to a state (`ExitsToState`).
- *Cli*: `CliIInv` gives the parser's state and index together; each handler either
  stores one character of a buffer that is not full or starts afresh. For `CliObeys` the
  invariant `CliTracks` says how far the line has been read: `Layout` gives the place in
  the text, and `LengthsAre` the place in the buffer, behind which each word stands, and
  the parser is *on* the line (`On`) in one of five ways, in the command, before a name
  or a value, or inside one (`InCommand`, ..., `InValue`), with the words read so far in
  the buffer and the pointers at their first characters; or the line is no command line
  and is *lost*, in the error state or behind a mark left open (`Lost`). Each way has a
  lemma that the next character leads to one of the others (`InCommandStep`, ...,
  `InValueStep`), or, if it is the last, calls what the line means (`Complete`). A line
  whose bytes fill the buffer is none (`FullIsLost`), and a pause ends what is claimed of
  a line but not the claim about the error state (`PauseTracks`).
- *EventBus*: types hold always, the rest as long as `bus_orderly` says that the rules
  are kept. Then there are a sequence `s` of listeners and a sequence `w` of events such
  that `next` goes round `s` (`Ring`) and `prev` round it the other way (`Back`), that
  the queue is `w` with a code and its data for each, behind the data of the event being
  announced (`Carries`), and that the loop stands on the ring (`Holding`). Only the ring
  of the bus is spoken of: after a ResetBus the nodes of former listeners still point
  into it, and the invariant of `LinkedListProofs` does not hold for them. Its lemmas
  are used all the same, for an instance with the bus as the only head; they need only
  the pointers of the ring. `Due` is what follows the loop's node on `s`: a listener
  that leaves is not that node, so the order of the others is the same (`ShorterBefore`).
- *DataModel*: what is recursive is shown by a smallest counterexample, as the traversal
  of *LinkedList*: offsets grow by the sizes (`OffsetsGrow`), so the bytes of two points
  are apart (`PointsApart`), and the search keeps an interval that holds every position
  of its index and shrinks in each round (`Searching`). `DmCleanMeansSeen` speaks of a
  reader between its calls only; `ReaderUpToDate` says of one in the middle of them that
  it also has the point it has just read.

- *OsalApp*: each call of the OSAL has a lemma, for both ports at once, that says what it
  does to the objects it names and that it leaves the event flags, or the tasks, alone
  (`Keeps`, `Handed`, `Awaited`, `Cleared`). The inductive invariant `OsalIInv` is, beside
  the types: every object was created, a blocked task is task 3 in its wait, the event
  flags are deleted after task 3 only, and `TimerFlagKept`. That property is the safety
  half of `OsalAppEnds`. The timer sets flag 2 once, and on FreeRTOS the set that wakes
  task 3 leaves no flag set, the wait that finds flags clears them all, and task 3 clears
  those it has seen one by one: at each point the flag is set, or task 3 has been given it,
  holds it in its mask, or is acting on it.
- *The services together*: a behaviour of the composition is one of each part, which
  stutters while another moves (`ServicesAreEach`), so what is proved of the parts'
  specifications holds of the specification the run checks.

**The line of the RPC.** What two instances do to each other does not hold of every
payload: one that contains the bytes of a frame is parsed as a frame once the parser has
lost its place, and it loses its place at every frame it skips. The theorems therefore
assume of the constants `MarksOnlyAtStarts`, that the two sync bytes stand nowhere in a
frame but at its start (of all frames the program can send: its uuids, commands, payloads
and checksums). `RpcMC` has the same assumption, which TLC evaluates: the instance of
the run satisfies it.

- `Line` says of one direction, while nothing has gone wrong (`Clean`), where everything
  is: the frames `F` on the line or already read and those not yet transmitted are what
  was sent (`Framed`); the bytes left are a tail of the frames (`Streams`); the parser is
  inside of a frame as the bytes it has read say, or skips it with a count above zero
  (`Positioned`, `Follows`, `SkipsTo`); the set `Q` of frames it has taken has no two
  neighbours (`Chosen`), and the receive queue holds these, in order, from the last one
  handled on (`Queued`); what was handled is in `Q` (`Reached`). `CleanInv` is that for
  both directions, with the histories (`HInv`). `EverySecondFrameIsLost` follows as `Q`
  has no neighbours: of two messages sent one after the other at most one is handled. It
  is the extent of the finding of `rpc_next_frame`, and no promise of the code.
- Why only known commands: ezRPC_Run takes the header of an unknown
  command off the queue and leaves its payload, which it then takes for a header. From
  there responses may be sent that are alike, and the place of a message in the sequence
  sent is not determined. The run does ask for an unknown command; what follows it is
  covered by TLC only.
- `LinkInv` adds for a line without faults that a record made available again belongs to
  a request whose response was handled (`ClosedOK`), and each step is then one of
  `RpcLink` or a stutter: a request, a response, a message handled. With faults the
  abstract link promises less, but it does promise that with a CRC no payload is handled
  that was not sent. That is a property of the CRC function, which the application
  supplies, and no checksum of two bytes has it for every payload: `LinkRefinement` takes
  it as a hypothesis on the behaviour, `CrcCatches`. `PerfectLinkRefinement` needs no such
  hypothesis.

Left to TLC: liveness under fairness (`QueuedTaskRuns`, `TransferReleasesLock`,
`FirstRequestAnswered`, `BusRunEnds`, `OsalAppEnds`), which is out of the prover's reach,
and of the RPC what follows an unknown command. Every other property of a passing run is
stated by a theorem.

## Not modelled, and why

- `ezTaskWorker_CreateWorker` and the task worker without an RTOS. CreateWorker starts
  the worker's thread before the event, the semaphore and the queue exist, listed as a
  hazard; without an RTOS there is no semaphore, so a task may enqueue another while it
  is itself in the queue, which `WorkQueue` excludes.
- IPC: the file uses a type nothing declares and allocator functions under names that
  no longer exist, so there is no behaviour to model.
- OSAL's tick count, and priorities: a task that can run may run at any time.
- RPC: encryption (it does nothing in the code), record timeouts (compiled out),
  requests made while ezRPC_Run reads (they touch nothing it reads).
- What follows undefined behaviour: a NULL enter function, a deleted kernel object.
- What an RPC instance does after it has written behind a block.
- Widths: the cast of a 32-bit `data_size` to 16 bits in `ezQueue_ReserveElement` is
  modelled where a size that does not fit can come from, in `Rpc`; in `Queue` itself
  indices and sizes are far below 2^16.
- NULL arguments and the early returns for them: callers of the models pass none.
- Text (logging, hexdump, snprintf, error strings, what the CLI prints): no
  behaviour over time.

## Plan

Done: all components above except those under "Not modelled", and the proofs above.
Left, most important first:

1. Proofs: for the RPC what is left of the order of messages after an unknown command.
2. `TaskWorker` with CreateWorker and the variant without an RTOS.
3. `Rpc` with two clients on a faulty line; `EventBus` over `Queue` instead of counted elements.
4. Widths of indices in the containers.
