# Specifications of the skynet runtime experiments in gamelearning

The repository is a collection of about seventy small projects in which its
author learns to build game servers. Most directories are vendored libraries,
one-file exercises or front ends; the part with a core of its own is
`test_skynet/`, where the runtime of the actor framework skynet is rebuilt file
by file (message queues, dispatch, timer, socket server, handle tables) and
driven by small test programs. These specifications model that runtime. The
newest copy of each file is the reference: `test_skynet/skynet_socket` for
queues, timer and sockets, `test_skynet/handlemap` and
`test_skynet/skynet_handle` for the tables and their lock.

Modules, configurations and proofs are all in this directory; `PROJECT.json`
links every definition to the lines it models.

## 1. Inventory

### The program

`test_skynet_socket` (`example_test.h`) starts the runtime: the main
thread creates the services (`skynet_context_init`), then starts a worker
thread, a timer thread and a socket thread, and goes on sending itself. The
dispatch is written for any number of workers, and is modelled so; the example
has one. A worker with nothing to do sleeps and polls Q again: the condition
variable that would wake it is commented out in `thread_worker`.

```
 timer thread ──skynet_context_push──┐                ┌── worker 1 ── callback of a service
 socket thread ─skynet_context_push──┼─> queue of the │     │  socket_server_send / _close
 main thread ───skynet_context_push──┘   service ──> Q┼── worker 2 ...
                                                      └── worker n
 workers ──control pipe, direct write──> socket of the socket server ──> kernel ──> peer
 workers ──skynet_timeout──> timing wheel <── timer thread
```

### Components

| Component | Code | State | Operations | Hard part | What makes it correct |
|---|---|---|---|---|---|
| Message dispatch | `skynet_mq.c`, `skynet_context.c`, `thread_worker` | global queue Q, one queue per service, flag `in_global`, the locals `q`, `nq` of each worker | push, pop, link and unlink, the dispatch loop | every interleaving of workers and senders; who must link a queue | one worker per service, no lost wake-up, order per service, no starvation |
| Ring buffer | `skynet_mq.c` | `cap`, `head`, `tail`, the array, `overload`, `overload_threshold` | push with doubling, pop, overload | wrap, full against empty, doubling while wrapped | it is a FIFO queue; reports grow |
| Global list and release | `skynet_mq.c`, `test_skynet_mq` | linked list head and tail, `release`, `in_global` | link, unlink, mark, release | a queue that is freed while it is linked | no freed queue in the list; every queue is freed |
| Timing wheel | `skynet_timer.c`, `thread_timer` | near wheel, four levels, `time`, the list being dispatched | set a timer, tick, shift, dispatch | wrap of the 32-bit counter; timers set while a list is dispatched without the lock | each timer fires in its tick, in order, always |
| Write path of a TCP socket | `socket_server.c` | type, two lists, `dw_buffer`, `sending`, `dw_lock`, events of the fd, control pipe | send, send low priority, close, shutdown; the socket thread's commands and events | senders write to the fd themselves while the socket thread owns the rest | packages whole, in order, freed once; a graceful close loses nothing |
| Slots, accept, UDP | `socket_server.c`, `skynet_socket.c` | slot table, event array, reference counts | reserve, connect, listen, accept, UDP | ids used again while events of the old socket are pending | an event reaches only the socket it is for |
| Readers-writer lock | `rwlock.h`, `simplelock.h` | two integers | read lock, write lock, unlock | two integers tested in opposite orders | exclusion; a writer is not starved |
| Handle map | `handlemap.c` | slots (id, ref, ud), `n`, `lastid` | new, grab, release, list | release is two sections; ids wrap; the table grows | counts are exact; nothing held is freed; ids keep naming their object |
| Handle registry | `skynet_handle.c` | slots, sorted names, `handle_index`, the count of each context | register, retire, retireall, grab, release, names | growth while a handle is not stored yet; a reference given back outside the lock; a loop over the slots without it | every context is where its handle leads; counts are exact; names are found; retireall leaves nothing |
| Network server task | `network_server/` | peers, one receive and one send buffer, two queues | accept, input, hang-up, send | fds used again; one buffer for all peers | packets reach the peer they belong to |
| Database server task | `database_server/` | two queues, one connection | request, retry, response | tests outside the lock; retry after a lost connection | every request answered once |
| Thread pool | `ThreadPool/ThreadPool.h` | task queue, stop flag | enqueue, worker loop, destructor | shutdown against waiting workers | every task runs once, the destructor ends |

Left aside: vendored and third-party code (`3rd`, `ConnectSkynet*`, `lua-*`,
`luasql`, `pbc`, `referlib`, `candlua`, `tencent_libco`, ...), client exercises
and games (`chess_*`, `card`, `cpp*`, `test_*` other than `test_skynet`), data
and notes, and earlier copies of the files above (`test_skynet/skynet_mq`,
`test_skynet/skynet_timer`, `socket-server`, `timer`).

The hazards, each at its line with the properties that would show it, are
listed in `PROJECT.json`.

## 2. Modules

| Module | Models | Shown by |
|---|---|---|
| `Mailbox` | abstract: a mailbox per service, one message at a time, in order, always served | |
| `SkynetDispatch` | queues, Q, `in_global`, workers, senders | TLC `dispatch`; `SkynetDispatch_proofs` |
| `FifoQueue` | abstract: a queue | |
| `MqRing` | one `message_queue`: ring, doubling, overload counter | TLC `ring`; `MqRing_proofs` |
| `GlobalMq` | Q as a linked list with head, tail and `next` | through `MqRelease` |
| `MqRelease` | `test_skynet_mq`: taking queues down | TLC `release`; `MqRelease_proofs` |
| `TimerWheel` | `skynet_timer.c` | TLC `timer`; `TimerWheel_proofs` |
| `SocketWrite` | one TCP socket, senders against the socket thread | TLC `socket_*`; `SocketWrite_proofs` |
| `RwLock` | the spinning readers-writer lock | TLC `rwlock`; `RwLock_proofs` |
| `HandleMap` | `handlemap.c` | TLC `handle_map*`; `HandleMap_proofs` |
| `SkynetHandle` | `skynet_handle.c` with the `main` that drives it | TLC `skynet_handle`; `SkynetHandle_proofs` |

`MC...` modules give the constants of a module values for TLC.

How they fit together. `SkynetDispatch` treats the queue of a service as a
sequence; `MqRing` shows that the ring buffer is one (it implements
`FifoQueue`). It treats Q as a sequence too; `GlobalMq` is the linked list, and
`MqRelease` shows that it is a queue of queues (`GlobalIsFifo`) even while
queues are freed. `SkynetDispatch` then implements `Mailbox`, which is what the
callbacks and the senders may rely on. `MqRing` in its turn assumes that one
thread pops a queue at a time, which is `Exclusive` of `SkynetDispatch`.
`HandleMap` and `SkynetHandle` take a section under the lock for one step,
because `RwLock` excludes.

### Conventions

* A critical section under a spinlock is one step when everything it touches is
  guarded by that lock; where another lock is taken inside, or something is read
  or written outside a lock, the section is split there.
* Locals of a thread that outlive a step are functions over the threads (`q`,
  `nq`, `hand`), and `pc` or `at` says where the thread is.
* An operator `Bug...` is a plausible mistake in the definition that follows
  it. No specification uses one: they show that the property named with them in
  `PROJECT.json` notices that mistake.
* Variables marked *history* record what happened and steer nothing the code
  decides. Two also bound the inputs: a package is sent once (`fresh`), and a
  timer is set again only when it is not pending (`order` in `TimerWheel`).

### SkynetDispatch

| Action | Code |
|---|---|
| `Push`, `Publish` | `skynet_context_push`, `skynet_mq_push`. The message is stored and the flag set; if the queue was not in Q the sender keeps the lock of the queue until it has linked it (`publishing`) |
| `FetchQueue` | `skynet_context_message_dispatch` with `q == NULL` |
| `PopMessage`, `PopEmpty` | `skynet_mq_pop`; on an empty queue the flag is cleared and the call returns NULL |
| `Callback` | `dispatch_message` runs the callback and frees the message |
| `SwapNone`, `SwapNext`, `PutBack` | `nq = skynet_globalmq_pop()`, then `skynet_globalmq_push(q)` |

What a callback computes is left out; that it returns is assumed. Messages
return to `idle` and can be sent again, so runs are unbounded in time with
mailboxes bounded by `Message`. A worker that finds Q empty sleeps and tries
again in the code; here it waits.

### MqRing, GlobalMq, MqRelease

`Push` is `skynet_mq_push` with `expand_queue`, `Pop` and `PopEmpty` are the two
ways through `skynet_mq_pop`, `Overload` is `skynet_mq_overload`, called once
after each message. `ReportsGrow` says of the overload counter both that a report
is never repeated for a length no greater and that a length of twice the last
report is never passed over, also after the queue was empty. `MqRelease` follows the loop of `test_skynet_mq` statement
by statement: a pop that fails clears the flag, so the loop gives the queue a
message (`Refill`), which links it again, rather than releasing it at once; the
comment above the loop tells of the crash that taught its author to.

### TimerWheel

`Timeout` is `skynet_timeout`, `UpdateTime` is `skynet_updatetime` after the
clock has moved `d` ticks, and `Lock`, `Execute`, `DispatchOne`, `Shift`,
`Unlock` are the parts of `timer_update`. `Execute` unhooks the list of the
current tick and gives up the lock, `DispatchOne` sends one message without it.
The first `timer_execute` of `timer_update`, for what its comment calls a rare
condition (a timeout of zero), never finds a node, because `skynet_timeout`
sends at once when the time is not positive. It is part of the model all the
same (`Execute` in phase `before`). Delays stay below half of the counter, as
the argument is a signed int. The sizes `TIME_NEAR` and `TIME_LEVEL` are the
code's; its shifts and masks by them are divisions and remainders, `Mask[k]` is
the size of a block of level `k`, and nothing needs the sizes to be powers of
two.

### SocketWrite

One socket from the moment `connect` or `accept` has made it until its slot is
INVALID. The senders' actions follow `socket_server_send` line by line, because
it reads shared state without a lock: `can_direct_write` is two steps (`Peek`
reads the lists, `TryLock` reads `sending` and the type and tries the lock), and
again two with the lock (`Look`, `DoubleCheck`). `IncSendingRef` and
`SendRequest` are the way through the pipe. The socket thread takes commands
(`CtrlSend`, `DecSendingRef`, `CloseSocket`, `CloseDecide`) and events
(`ReportConnect` .. `DisableWrite`, `WriteEvent`, `ReadEnd`); `ForceClose` is the
end of `force_close`, which waits for the lock. `Connected`, `PeerReads`,
`PeerEnds` and `PeerFails` stand for the kernel and the peer and are external.
A peer can end its own side (FIN) and go on reading: then `read` returns 0 and
`force_close` is called, while a write still succeeds. When the connection is
gone a write fails too.

What the socket thread does under `dw_lock` is one step. The count of
`socket_lock`, by which `force_close` inside `send_buffer` takes a lock that is
already held, is therefore not kept, and nothing here is claimed of it.

Lists hold bytes, each named by its package, so that a package cut in two, or
two packages mixed, can be seen on `wire`.

### RwLock, HandleMap

Every access of `RwLock` to one of the two integers is a step. `HandleMap` has
one action per section: `New`, `Grab`, `ReleaseRef` and `TryDelete`, with
anything in between the last two. `holds` counts what each thread has got and
not released; the model lets a thread release only that. (`test.c` releases
random ids, also some it has released already; such a caller takes away a
reference of another thread, and no count can tell.)

### SkynetHandle

| Action | Code |
|---|---|
| `Create` | `main`: a context with two references, its own and the table's to be |
| `Register` | `skynet_handle_register` under the write lock: the first free slot in the order of the handles, or the table doubled (`Doubled`) and searched again; the two assertions there end the program |
| `StoreHandle` | `ctx->handle = skynet_handle_register(ctx)`: the store, outside the lock |
| `Grab`, `Release` | `skynet_handle_grab`, `skynet_context_release` |
| `RetireNull`, `RetireMiss`, `RetireHit`, `Drop` | `skynet_handle_retire`: a free slot, another context, the context asked for; then the reference of the table, given back after the unlock |
| `CallRetireAll`, `Peek`, `EndPass` | the loop of `skynet_handle_retireall`, which looks at one slot at a time and calls retire between |
| `NameHandle` | `skynet_handle_namehandle`, called by the creator for a context that it holds, as `main` does; `Search` is the search by halves of `_insert_name`, turn by turn (`Narrowed`), `InsertedBefore` the shift of `_insert_name_before`, `Kept` the compaction in `skynet_handle_retire` |

A context whose count is zero has been deleted. `delete_context` closes its log
file and does not free it; the model uses it again as the context of a later
`malloc`. `Fail` ends the program: an assertion, or the read through NULL
in `RetireNull`.

## 3. Runs

| Run | Instance | Shows |
|---|---|---|
| `dispatch` | 3 workers, 2 senders, 3 services, 3 messages | `Exclusive`, `LinkedOnce`, `FlagTruth`, `NoLostWakeup`; implements `Mailbox` with its fairness |
| `ring` | 2 slots at first, up to 6 messages, threshold 1 | `RingOK` (with the types), implements `FifoQueue`, `ReportsGrow` |
| `release` | 4 queues with 0 to 2 messages each | a well-formed list (`TypeOK`), `NoUseAfterFree`, `FlagTruth`, `GlobalIsFifo`, `AllReleased` |
| `timer` | counter of 5 bits: near wheel of 2 slots, 2 levels of 4; 2 timers, any delay up to 15, up to 2 ticks late | `PlacedRight`, `OnTime`, `SameTickInOrder`, `AllFire` |
| `socket_write` | 2 senders, 3 packages of 2 bytes, kernel buffer of 3, 2 closes, connection made, and possibly ended by the peer or lost | `WholePackages`, `InOrder`, `Accounted`, `SendingTrue`, `GracefulClose` |
| `socket_flush` | the same from a connected socket, 2 packages | `AllFlushed`, `ShutdownCloses` |
| `rwlock` | 4 threads | `Exclusive`, `Balanced`, `WriterGetsIn` |
| `handle_map` | 3 threads, 3 objects, 2 slots at first, ids of 3 bits, 2 references per thread | `RefExact`, `SlotRight`, `Counted`, `NoOrphan` |
| `skynet_handle` | 2 threads, one of which creates contexts and closes as `main` does; 3 contexts, a table of 2 slots, handles of 2 bits, 2 names | `FoundByHandle`, `RefExact`, `NamesFound`, `AllRetired` |
| `socket_connect_stall`, `socket_half_close_stall`, `handle_map_expand` | as above | expected violations, section 6 |

Why the bounds are enough. *dispatch*: a third worker can take a queue while two
others are in the two halves of an exchange, a second sender can meet the first
inside `skynet_mq_push`, and with three services Q has a head, a middle and a
tail; more of each repeats these roles, and the safety properties are proved
for any number. *ring*: six messages double a ring of two slots twice, from
every position of head and tail. *release*: four queues give a list with two
inner links, and 0, 1 and 2 messages are the cases the loop tells apart. *timer*:
five bits let the counter wrap with timers pending, two levels over the near
wheel make a node move down twice, and two timers are what an order needs; the
counter really has 32 bits, with the same three kinds of digit. *socket*: a
package of two bytes can be cut, a buffer of three takes one and cuts the next,
and three packages can be at once in `dw_buffer`, in a list and in the pipe.
*handle_map*: ids wrap at 8 and are used again while a stale deletion is
pending; the table doubles with and without a handle at index 0. With three
objects it doubles once. *skynet_handle*: the table doubles once, to the largest
size its handles allow, and three contexts at four handles make the index wrap
onto slots that are taken; two threads are one that is inside a function and one
that changes what it has read. A thread holds at most one reference, so that a
context is kept by the table, by its creator, by a thread that grabbed it, or by
two of them. Two names are inserted in either order, and removed by retirements.

`CHECK_DEADLOCK FALSE` stands in `release`, whose loop ends, in the runs of
`SocketWrite`, where each package is sent once and the system then stops, and in
`skynet_handle`, where a failed assertion ends the program.

`FoundByHandle` and `AllRetired` are claimed for one creating thread, which is
what the repository has: a retireall while another thread registers promises
nothing, and section 6 says what a second creator does to the first
property. `RefExact` and `NamesFound` need no such limit.

`WholePackages` and `InOrder` hold without a condition on the calls, and make one
exception, `CutOff`: a package may stand behind one whose rest `force_close` has
freed, or overtake one that it has freed (section 6 says how). `Accounted` says
of a freed package that no list, no sender and no command has it any more.
`GracefulClose` is claimed for closes without a shutdown and for a peer that
neither ends its side nor fails: on a FIN `force_close` frees what is left, also
on a half-closed socket.

`RefExact` and `NoOrphan` leave out handles that `expand_map` has dropped
(`lost`), see section 6; everything else is claimed for them too.

### Fairness

* `SkynetDispatch`: weak fairness of each worker's steps (`thread_worker` loops
  for ever and a callback returns) and of a sender's way out of
  `skynet_mq_push`. Sending is never forced. Spinlocks are not fair, but each
  section under one is short and ends; weak fairness per thread says that a
  thread gets its lock some time.
* `MqRelease`: the one thread runs.
* `TimerWheel`: the timer thread runs, and with it the clock (`thread_timer`
  sleeps and calls `skynet_updatetime` for ever).
* `SocketWrite`: a thread inside `socket_server_send` leaves it, the socket
  thread runs, a connection attempt ends, and a peer reads, also one that has
  ended its own side, until the connection fails. The last two are
  assumptions about the outside; without a peer that reads nothing is flushed.
* `RwLock`: a thread that has called goes on and leaves its section. Nothing
  says that a spinning thread wins the race for the write flag, and nothing that
  holds depends on it: a reader may starve.

## 4. Proofs

Eight modules hold proofs that TLAPS checks; they are for every value of the
constants that meets the module's assumption.

**SkynetDispatch_proofs**, from `DispatchAssumption` (NULL is no queue and no
message; the services are linked once each at the start). The inductive
invariant `IInv` is `TypeOK`, `Exclusive`, `LinkedOnce`, `FlagTruth` and
`NoLostWakeup` together, and none of them is inductive alone: that a worker may
put its queue back without linking it twice needs `LinkedOnce` and `Exclusive`;
that a sender may link a queue whose flag is clear needs `FlagTruth`, which says
that then nobody else has it; that a worker may drop an empty queue needs
`Exclusive`. `LinkTail` and `UnlinkHead` say what the two operations on Q do to
the set of linked queues, for sequences without repetition, and each action's
step cites them. Results: `TypeCorrect`, `ExclusiveDispatch`,
`NeverLinkedTwice`, `FlagIsTrue`, `NoWakeupIsLost`, and `ImplementsMailbox`:
every step is a step of `Mailbox` or leaves it unchanged (the safety half of
the refinement).

**MqRing_proofs**, from `RingAssumption`. The invariant relates the stored
messages to the array (`RInv`); `ModOnce` reduces `%` to one subtraction, as
indices stay below twice the size. `RingNeverFull`: the types hold, and after a
push the ring is never full, so `head = tail` means empty. `RingIsFifo`: push
appends and pop takes the head, through wraps and doublings. `OverloadsGrow`
(`ReportsGrow`): `DoubledBounds` follows the doubling loop turn by turn, and
`OverloadInv` says that the last report does not pass the threshold while the
next one is more than half of it and more than the last, and that the threshold
is `MQ_OVERLOAD` or less than twice the last report.

**MqRelease_proofs**, from `ReleaseAssumption` (finitely many queues, created in
some order). `IsList(s)` says in terms of head, tail and links that the list is
the sequence `s`; `ChainIs` shows that following the links from the head then
gives `s` (by the least position where it would not), and `LinkAppends` and
`UnlinkTakes` what the two operations do to it. The invariant of the protocol
adds the flag of the queue in hand: it is set unless the pop has just failed
(`Taken`), so `skynet_mq_mark_release` never links the queue that is freed next.
`ListStaysWellFormed`, `NeverUsedAfterFree`, `FlagTellsTruth`, `ListIsFifo`.

**RwLock_proofs**, from `ThreadAssumption` (finitely many threads). The
invariant says that `read` is the number of readers that have counted
themselves, whether or not they have looked at the flag again; that the flag has
one owner; and that a writer inside excludes readers inside. A reader that has
counted itself and not looked again may coexist with a writer: this is why
`Exclusive` alone is not inductive. `LockExcludes` and `LockBalanced`.

**SocketWrite_proofs**, from `WriteAssumption` (finitely many threads and
packages, each package of at least one byte). Each part of the invariant stands
on the parts before it:

* *The count.* What `sending` must count are the senders between
  `inc_sending_ref` and the write of the command, the commands D and P in the
  pipe, and the one the socket thread has taken and not yet finished. `Total` is
  their number, and one lemma each says what a step does to the first two sets.
  `CountIsExact`; `DecNeverBelowZero` is the assertion of `dec_sending_ref`.
* *The shape* (`Shape`, `Calls`). In every list the rest of a package follows its
  first part, the low list starts with a whole package, and `dw_buffer` is
  followed by a high list that starts with one. The lock has the owner that
  stands inside `socket_server_send`; that owner still sees no `dw_buffer` when
  it writes. A socket that is INVALID has nothing left.
* *The place of each byte* (`Where`). A package that was handed over and not
  freed is with one sender, in one command, or each of its bytes is once in the
  lists, `dw_buffer` or on the wire; one that was freed is in none but the wire. `BytesAreAccounted`, and with it
  `SocketTypes`.
* *What a close leaves behind* (`Marks`). A package is freed on a living socket
  only once it is half closed, which takes a close command.
* *One stream* (`Streams`). What is written, what is in `dw_buffer` and the high
  list, one after the other (`Written`), is a sequence of whole packages. A
  direct write may add to the wire only because `dw_buffer` is empty and no
  package is cut in the high list. `PackagesStayWhole`.
* *Order* (`Order`). Of two packages of a thread the earlier is ahead on
  `Written`, and its command is ahead in the pipe. `Direct` is what the two looks
  of `can_direct_write` establish: once `sending` was seen to be zero no earlier
  package of the thread is in the pipe, for only the thread itself could put one
  there; once the lists are then found empty, with the lock, all of them are on
  the wire or freed; once the type is found CONNECTED, on the wire. The first
  look reads the lists before `sending`, so that a package may come out of the
  pipe into a list between the two; therefore the second. `SentInOrder`.
* *Grace* (`Grace`). A package sent before the first close stands before every
  close command in the pipe, so it has left the pipe when the close is worked
  on, and the socket does not close before the lists are empty.
  `CloseIsGraceful`.

`Streams` and `Order` say what `force_close` changes: from the moment it has freed
the lists (`ListsFreed`), a package that it cut may be followed on the wire by
one that a sender writes directly (a seam of the stream), and what it freed may
be overtaken. A seam stays one, because nothing comes back from the freed
packages (`Where`). `Grace` alone is for closes without a shutdown.

**HandleMap_proofs**, from `HandleMapAssumption` and, for the behaviours in
which it holds throughout, `TableFits`: the table has fewer slots than there are
ids, as any table that fits into memory has fewer than 2^31. With as many slots
as ids the only id of slot 0 would be 0, which is no id, and `handlemap_new`
could look for ever. The invariant `IInv` is the types, `Room`, `SlotRight`,
`RefExact` and `NoOrphan`; they need each other: a new id is free because the
table has room (`NextIdIsFree`, by the least distance at which a slot is free),
that it has no holder left needs `RefExact`, and that a late deletion frees the
right object needs `SlotRight`. `Copied` describes the table that
`handlemap_new` works on, the old one or an expanded copy that may have dropped
a handle, so that one lemma covers both. `SlotsAreRight`, `ReferencesCounted`,
`NoneForgotten`, `HandlesCounted`, and the types, `MapTypes`.

**SkynetHandle_proofs**, from `HandleAssumption` (finitely many threads, handle
mask and first table size powers of two). `ReferencesExact` holds for any number
of creating threads; its invariant is `RefExact` with the types. It rests on
`DoublingKeeps` (a doubling moves contexts and neither loses nor repeats one)
and on three lemmas on what one reference more or less does.
`ContextsAreFound` is for one creator. Its invariant adds that the size of the
table divides the number of handles, without which a wrapped handle would hash
elsewhere; that a context being registered has no handle yet and is held by its
creator (`Fresh`); and that a freed context has none.

`RetireAllEmpties` (`AllRetired`) is about the loop: all slots the pass has left
behind are free unless it has found something (`Passed`), and the handle it is
about to retire is still the one of its slot (`Aimed`); `Stored` says that a
context in the table has a handle that the loop does not take for a free slot.
`Harbor # 0` is assumed: a handle that wraps to 0 is one that
`skynet_handle_retireall` skips for ever.

`NamesStayFound` and `RegistryTypes` rest on the order of the array
(`Ascending`). `Turns` gives every loop of bounded length a function from the
turns to what they leave, and `UpTo` is induction along it. `SearchEnds` then
says that a search which fails ends where the name belongs (what is outside
`begin` and `end` is smaller or larger, and every turn makes the rest smaller);
`Inserted` and `InsertedInOrder`, and `KeptInOrder`, that an insertion there, and
the loop that closes up the array, leave it in order with just the entries it
should have.

**TimerWheel_proofs**, from `WheelAssumption` (sizes and number of levels at
least one, levels of more than one slot, delays below half of the counter). The
invariant `WheelInv` says that every pending node is in the slot its expiry and
the time call for (`Place`) or in the list that is being dispatched, once, that
nothing else is in a list, and that nodes of one tick stand in each list in the
order they were set. `OnTime` and `SameTickInOrder` are its consequences: a list
that is dispatched is the near slot of the tick (`NearIsNow`: all its nodes are
due), and two nodes of one tick are always in the same list. The heart is
`ShiftPlaces`: after the tick the slots that `timer_shift` empties
(`SlotsToMove`, at most one: `OneDue`) hold exactly the nodes whose place has
changed, also when the counter wraps. `PlaceAt` names the level of a node by the
first block that it shares with the time, and `DivTwice` and `NextBlock` are the
arithmetic of nested blocks. `MoveListEffect` follows `move_list` node by node:
it appends to slots the nodes of which are placed right, in their order. Since a
node set for a tick that is further away cannot overtake one in the slot it
moves to (both are in one slot, or neither is), order survives
(`NodesArePlaced`, `TimersAreOnTime`, `TimersKeepOrder`, `WheelTypes`).

Every safety invariant and action property that a passing run checks is a
theorem. Only model-checked are the liveness properties, which are out of the
prover's reach: `MailboxSpec` beyond its safety half, `AllReleased`, `AllFire`,
`AllFlushed`, `ShutdownCloses` and `WriterGetsIn`.

## 5. What was planned and what is left

Done: `SkynetDispatch` with `Mailbox`, `MqRing` with `FifoQueue`, `RwLock`,
`GlobalMq` with `MqRelease`, `TimerWheel`, `SocketWrite`, `HandleMap` and
`SkynetHandle`, checked, and each of their safety properties proved.

Left, with the reason:

* `SocketSlots`: reserve_id, the event array and `clear_closed_event`, listen,
  accept. It needs two sockets that take one slot after each other, each with
  the events of `SocketWrite`: a second model of that size.
* A composition of `TimerWheel` and `SkynetDispatch`. Each is shown to deliver
  in order; together they say no more than the two properties one after the
  other.

## 6. What the runs found

**A direct write that is not finished** (`socket_connect_stall`).
`report_connect` sets the type to CONNECTED, asks whether there is anything to
send and, if not, turns write events off. It takes no lock. A sender that sees
CONNECTED in between writes a part of its package, leaves the rest in
`dw_buffer` and turns write events on; then the socket thread turns them off.
The rest stays until somebody sends again, though the peer reads. The comment in
`socket_server_send` (`socket_server.c:1616`) promises that the socket thread
will send it.

**A half-closed socket that stays** (`socket_half_close_stall`). `close_socket`
flushes the lists, which turns write events off, and sets HALFCLOSE if
`s->sending` counts a package whose command comes behind the close in the pipe.
That package is then dropped, and nothing is left that would close the socket,
unless the peer closes it. The comment at `socket_server.c:1014` says that
SOCKET_CLOSE will be sent later.

**A handle that is lost when the map grows** (`handle_map_expand`). `expand_map`
copies the free slots as well. Their id is 0, so they go to index 0 of the new
table, over a handle that was copied there before: one whose id is a multiple of
twice the old size, such as 32 in a map that still has its first 16 slots. From
then on the holder cannot find it, its object is never returned by
`handlemap_release`, and `n` counts it for ever.

**Behind a package that was cut.** `force_close` frees the lists
(`socket_server.c:419`) before it takes `dw_lock` (424) and sets the type (430).
A sender that is about to test, or tests, with the lock in hand (1587) then finds
the lists empty and the type CONNECTED, and writes its package. If the lists held
the rest of a package, the peer sees the new one in the middle of it; if they
held an earlier package of the same sender, that one is overtaken. It takes a
`force_close` of a socket that still can be written to: a shutdown, or a `read`
that returned 0 because the peer has ended its side only. The socket is closed
right after. No comment of the code promises otherwise, so this is an exception
of the properties and not a finding.

Two more facts, which no program of the repository meets:

* *A second creator* in `SkynetHandle`. A context is in the table before its
  handle is stored. When another thread's registration doubles the table in
  between, the context is placed by handle 0, and the handle it gets then leads
  elsewhere. TLC finds it when `Creator` has two threads. The comment at
  `skynet_handle.c:105` says that old contexts stay within reach; `main` has one
  creator, and for one this is proved.
* *A handle retired twice* (`RetireNull`). `skynet_handle_retire` reads the
  handle of the context at `skynet_handle.c:131`, before it asks whether there is
  one; a call with the handle of a free slot reads through NULL.

## 7. Not modelled

* UDP, write-buffer warnings, statistics, DNS, and everything that happens to a
  slot of the socket server before connect or accept and after the close
  (section 5).
* The tasks in `network_server` and `database_server`: not part of the runtime,
  and made for the most part of calls to the kernel and to the MySQL client,
  whose behaviour is not in the repository. Their hazards are listed.
* `ThreadPool.h`, taken over from a public project, and the earlier copies of the
  files of the runtime.
* `skynet_globalmq_find`, a scan for debugging; `skynet_handle_findname`, which
  changes nothing; the log file of `skynet_handle`; `handlemap_list` and
  `handlemap_exit`; the pthread variant of the lock.
* Failures of `malloc`, which the runtime does not handle (and of `calloc` in
  `handlemap.c`, which leave everything unchanged).
* Memory models: every shared access is sequentially consistent. The code's
  `__sync` operations on counters are full barriers, but the spinlocks rest on
  `__sync_lock_test_and_set` and `__sync_lock_release`, which gcc documents as
  acquire and release only, and the plain reads of `can_direct_write` have no
  barrier at all. Nothing is claimed about reorderings these allow.
* Components with status `not_modelled` in `PROJECT.json`, for the reasons given
  there.
