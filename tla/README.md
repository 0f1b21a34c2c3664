# TimeWall in TLA+

TLA+ models, TLC runs and TLAPS proofs for TimeWall (`src/`), a C library that is
to become a graph database: a worker pool, an event loop over epoll with buffered
sockets, and an in-memory graph of named nodes. The modules are translated from
the source files; `PROJECT.json` maps each definition to the lines it stands for
and lists the runs, the mutants, the hazards, the findings and the theorems.

## The system

| component | state | operations | works with |
|---|---|---|---|
| **Thread pool** `threadpool.c/.h` | one global pool: `isalive`, `ready` (`uint8_t`), `task_queue`, `queue_lock`, `task_cond`, the threads | `thread_pool_ini`, `thread_pool_add_task`, `thread_pool_destory`; each worker runs `thread_entry` | the linked list of `queue.h`; handlers run in the workers and may call `add_task` |
| **Reactor** `event.c`, `_epoll.h` | `waitQueue` and `signalQueue`, doubly linked through the events; a `status` in each event | `eventAddListen`, `eventRmListen`, `eventModListen`, `setEventError`, `setEventClose`, `_reactorRun` | calls the back end, then the callbacks of events, which call back into it |
| **epoll back end** `epoll.c` | the epoll set | `epoll_add`, `epoll_del`, `epoll_mod`, `epoll_run` | moves reported events from `waitQueue` to `signalQueue` |
| **Socket buffers** `buffer.c/.h` | for each connection: the received bytes, the bytes still to send, the split it waits for | `_readFromSocket`, `_writeToSocket`, `bufferWrite`, `bufferReadUntil`, `bufferReadSplit`, `disBuffer`, `_errCallback` | they are the callbacks of events |
| **Graph** `graph.c/.h` | nodes; the links of a node, in a tree, a list and a count; a tree of nodes and its count | create, delete, add, remove, build and destroy links in one or both directions, iterate, free | trees of `rbtree.c`, lists of `queue.h` |
| **Red-black tree** `rbtree.c/.h` | a root; nodes with a parent, two children (NULL when missing) and a colour | insert, search, erase, replace, first, last, next, previous | used by the graph and the configuration, which descend by `strcmp` on names themselves |
| **Linked lists** `queue.h` | a head and nodes with `next` and `prev`, circular; the list API of the Linux kernel with `queue_` names on top | init, add, remove, first, empty, walk | used by the pool and the graph |
| **Log** `log.c/.h` | a global handler `GLOGHANDLER`, set by `INIT_LOG` or created by the first call, without a lock | `INIT_LOG`, `write_fmt_log`, `write_log` | called from everywhere, also from the workers of the pool |
| **Config** `config.c`, `utils.c` | a tree of strings read from a file | read, look up | |
| **Socket options** `socket.h` | none | wrappers of system calls | |

What is hard in each, and what makes it correct:

* *Thread pool.* Threads interleave at every lock and unlock; the signal is sent after the
  unlock; `ready` is written once and read in a loop without the lock; it has eight bits; ini
  may fail half way; a pool may live again. Correct means: mutual exclusion, `ready` counts
  the queue, no task is lost, linked twice or run twice, tasks start in order, no wake-up is
  lost, what is added is taken, and destory joins only when the queue is drained, and returns.
* *Reactor.* One thread, but callbacks re-enter the queues that are being walked; events are
  freed by their own error callback; a removal picks its queue by the status only; the
  kernel reports what it likes in any order, and may refuse to register. Correct means: the two queues are well formed and
  agree with the statuses, only reported events are called, all of them go back to the waitQueue, ready
  events are called, failed and closed connections are freed, and never touched again.
* *Graph.* Sequential, but a link is kept in three places, a call can fail in the middle, and
  names can come back. Correct means: tree, list and count agree, a name finds one link and
  one node, nothing is used after it is freed, and a call that answers -1 has not half worked.
* *Buffers.* `send` and `recv` take any part; the read callback writes, and registers anew, while its
  caller still holds counts; the memory behind `malloc` is not cleared. Correct means: nothing outside the arrays is
  written, bytes come out of either direction in the order they went in, the callback is called
  when what it waits for is there, input is answered and output drained.
* *Lists.* Pointers of nodes that left a list, or that a restart has dropped, must not matter.
* *Log.* Threads test and set the handler without a lock, `INIT_LOG(NULL, ..)` takes it away, and a line takes three stdio
  calls. Correct means: the parts of a message go to one stream in order, the first use costs a thread little, and a redirection lasts.
* *Red-black tree.* Two dozen cases of pointer surgery, most of them met only after long
  sequences of inserts and erases. Correct means: the pointers agree, search order and balance
  hold, nothing is lost or doubled, the walks visit everything in order (children before parents where the visit may free), and every call returns.

## The modules

| module | what it is |
|---|---|
| `TaskPool` | what a worker pool promises: tasks wait in order, start once, finish |
| `ThreadPool` | `threadpool.c`; implements `TaskPool` |
| `ThreadPoolProofs` | theorems about `ThreadPool` and `ThreadPoolQueue` |
| `Reactor` | `event.c` with the reporting loop of `epoll.c` and what the callbacks of `buffer.c` do to events |
| `ReactorProofs` | theorems about `Reactor` |
| `Digraph` | what `graph.h` promises: named nodes, edges, the members of a graph, and each call's answer |
| `Graph` | `graph.c`; implements `Digraph` |
| `GraphProofs` | theorems about `Graph` |
| `OrderedSet` | what a search tree promises: a set, no two of whose nodes have the same key |
| `RBTree` | `rbtree.c`; implements `OrderedSet` |
| `RBTreeProofs` | theorems about `RBTree`: its pointers |
| `RBTreeOrderProofs` | theorems about `RBTree`: the order of the keys, the set it implements, the walks |
| `RBTreeBalanceProofs` | theorems about `RBTree`: the colours |
| `Queue` | the list operations of `queue.h`, pointer by pointer |
| `ThreadPoolQueue` | `ThreadPool` over the list it keeps its tasks in |
| `ByteStream` | what either direction of a connection promises: first in, first out, each byte once |
| `Buffer` | `buffer.c`; both its directions implement `ByteStream` |
| `BufferProofs` | theorems about `Buffer` |
| `Log` | `log.c` as several threads use it |
| `LogProofs` | theorems about `Log` |
| `MCThreadPool`, `MCReactor`, `MCGraph`, `MCLog` | the symmetry sets the runs use, and the constraint of `reactor_queues` |
| `MCBuffer` | the data, the split and the bound of the runs of `Buffer` |
| `MCRBTree` | the keys, and which calls the runs of `RBTree` explore |

### ThreadPool

One step is one lock acquisition, one critical section up to its unlock, one signal, or one
unlocked access of the owner. The critical section of `add_task` takes two steps, linking and counting, since the owner reads
`ready` without the lock and may do so between them. `owner` is the control point of the thread that calls ini
and destory, `pc` that of each worker and client; the other variables are fields of
`g_threads_pool` and of the mutex and the condition variable.

* `IniStart`, `CreateWorker`, `IniFinish` are `thread_pool_ini`; `IniFinish` is the `ready = 0`
  that comes after the threads have been created. With `AllocMayFail` ini leaves `isalive` at 1
  (`wedged`) and every later ini is refused. With `CreateMayFail` a thread may be missing: the
  test `err == -1` does not see the positive error numbers of `pthread_create`.
* `Submit`, `AddLock`, `AddTask`, `CountTask`, `Signal` are `thread_pool_add_task`, by a client or by a
  handler inside a worker.
* `Lock`, `Wait`, `Wake`, `SpuriousWake`, `Skip`, `Take`, `HandlerEnd` are `thread_entry`.
  `Wait` gives up the lock and goes to sleep in one step, as `pthread_cond_wait` does; `Wake`
  is the return of it. A `pthread_cond_wait` may also return with no signal.
* `DestroyCall`, `DestroyPoll`, `DestroySleep`, `DestroyFinish` are `thread_pool_destory`.

The callers do what the code cannot do without: they submit a `task_t` that is not in use,
and use the pool between the return of ini and the call of destory. `ExitTasks` are tasks
whose handler calls `pthread_exit`, the only way a worker can end.

`ThreadPoolQueue` adds to each state the pointers of `task_queue` and of the tasks (`list`), which
`IniStart`, `AddTask` and `Take` change as `init_queue_head`, `queue_add_tail` and `queue_del_first`
do; the runs of the pool are runs of this module. `ListIsQueue` says that the pointers are the sequence
`taskQueue` of `ThreadPool` in both directions. A restart empties the head only: the tasks that were
waiting keep their pointers, and are written anew when they are added again.

### Reactor

The queues are modelled pointer by pointer (`head`, `tail`, `next`, `prev`), since what
`eventListRm` does with an event that is not where its status says is the interesting part.
A step that goes through NULL or freed memory sets `mem.ok` to FALSE and ends the behaviour.
One step is a return of `epoll_wait` (with nothing when it is interrupted: `_reactorRun`
ignores the result), the handling of one reported event, one callback, or one turn of the
sweep. `Arrive` is the kernel making a registered fd ready. `AddEpoll` may fail, as EPOLL_CTL_ADD may: `epoll_add`
prints a message and returns 0, so the event waits and is not registered.

A callback is one of: read or write (`Use`), change direction (`Mod`), stop (`Rm`), accept a
connection or listen again (`Listen`), see the peer close (`Close`), fail (`Error`), see the
peer close and write in the read callback it still calls (`CloseMod`), write to another
connection (`ModOther`), fail on it (`ErrOther`) or free it (`Discard`). `Acts` chooses
among them. A connection whose peer has closed is at `closing` until its read callback returns: `CloseMod` is
the write of that callback.

`apart` is a history variable: it becomes TRUE with the three things after which the queues need not agree with the statuses any more.
An event is reported while it is still in the signalQueue (`epoll.c:113-117`), an event is
removed with INCLOSEQUEUE or INERRORQUEUE (`event.c:174-180`), or the sweep goes on with an event it has just unlinked (`event.c:264,273`).
`QueuesAgree`, `CallsReported` and `NoneStray` say what holds until then. `MovedBack`, `Called` and `CloseCalled` do not mention `apart`.
`MovedBack` is what the comments of the sweep promise, and the code does not keep it; the other two hold in the scope of `reactor_one`.

### Graph

One step is one call. A tree is the set of what it holds, at most one link to a name; a list
is the sequence of the links in it, also of links that have been freed, and a call that reads
or writes a neighbour's pointers needs the neighbour to be allocated, or else
sets `mem.ok` to FALSE. `calloc` may return NULL or any link that is free, so memory comes
back while a list still leads to it. The weight and data that are stored for the user are left out.
The walks over the trees are in `RBTree`.

`Digraph` allows each call exactly what a caller can make sense of: a single call that
answers -1 has changed no edge, a call for both directions may have done the first. It says nothing of lists and counts, which a
call that fails may have changed; `CountsList` and `TreesListed` say what keeps together all the same.

### RBTree

One step is one turn of a loop: of the descent to a key, of the walk to the successor, of
`rb_insert_color`, of `__rb_erase_color`. A turn that rotates twice takes a step for each rotation, after
which the tests of the loop lead to the other. The code writes each turn twice, for left and
right; the model has the side as a parameter. `pc` is the loop the call is in, and `node`,
`parent` and `arg` are its locals. A turn that would go through NULL has no step, so that a
call which reads a missing sibling or grandparent never returns, and `CallEnds` would see it.

* `InsertCall`, `Descend`, `InsertRefused`, `InsertLink` are the descent of `rb_tree_insert`
  with `rb_link_node`; `InsertDone`, `InsertRecolor`, `InsertRotateInner`, `InsertRotate` are
  `rb_insert_color`.
* `SearchCall`, `Descend`, `SearchEnd` are `rb_tree_search`; the caller then leaves it (`Leave`), replaces the
  node it found (`Replace`, `rb_replace_node`) or erases it.
* `Erase`, `EraseInner`, `Successor`, `EraseSplice` are `rb_erase`; `EraseDone`,
  `EraseRedSibling`, `EraseUp`, `EraseRedNear`, `EraseRotate` are `__rb_erase_color`.
* `Furthest` and `Neighbour` are `rb_first`, `rb_last`, `rb_next` and `rb_prev`, operators on the
  tree, as they change nothing.
* `Visit` and `Iterate` are the recursive walks of `graph.c`: `__rb_node_tree_iterate` with its depth and its twins
  over the trees of links (`rb_link_tree_iterate`, `rb_link_tree_iterate_deep`), and, to full depth, `__rb_node_tree_iterate_free`.
  `iterate_graph_nodes` finds *a* node with the name of `start` and walks from `start` itself:
  `Iterates` is about walks from a node of the tree. The others need not stay in the graph, as a node that was removed keeps its pointers.

`members` is no variable of the code: it is what the caller has put in. A key is a number, and
comparing is `<`. `rb_tree_insert` and `rb_tree_search` subtract (`valuecmp`), which orders keys only while
the difference fits an `int`; nothing calls them, and the graph and the configuration have the same
descent with `strcmp`, a total order. A node is zeroed when it is allocated, `Leaf` writes it when it is linked, and one that leaves the tree keeps its pointers and its colour. `rb_augment_*` has no caller and is left out.

### Buffer

One connection. A step is `_readFromSocket` up to the read callback, one call the callback makes,
the return of the callback (the end of `aioNRead`), or one `_writeToSocket`. `sock` and `nExist` are
`sockBuffer` and its count, `leave` and `nWBufExist` `sendLeaveBuf` and its; `mode` and `status` are what the event listens
for and whether it closed or failed. Other connections' callbacks may write to this one,
register on it or discard it between any two steps. `io` holds the bytes that the last step took from the
peer, gave to the callback, got from the application and gave to the kernel; `ByteStream` relates them to what is inside.

The code makes no provision for some orders of calls. They are not excluded from the model: `slips`
records them, and each property names those it does not survive, and no more (each was seen to be needed).

| slip | what has happened | source |
|---|---|---|
| `rearm` | the read callback registered anew, which sets `nExist` to 0, and then returned bytes it had used: `nExist` is negative and `recv` writes in front of the array | `buffer.c:98,202` |
| `again` | a second write waits; `nWBufLeave` is never counted down, so nobody looks whether it fits | `buffer.c:164,173` |
| `reused` | `createBuffer` leaves `nWBufExist` as the memory has it | `buffer.c:246` |
| `wiped` | a registration clears `sendLeaveBuf` while bytes wait in it | `buffer.c:207,233` |
| `partial` | `send` took a part of a write; the rest is dropped | `buffer.c:169` |
| `overtake` | a write is sent while earlier bytes wait | `buffer.c:169` |
| `cut` | a flush sent a part; `memMove` is given the new count and zeroes bytes that still wait | `buffer.c:151` |
| `spill` | the same `memset`, beginning in front of `sendLeaveBuf`, zeroes bytes held in `sockBuffer` | `buffer.c:29,151` |

`splitFind` is a recursive function over the bytes, and `CalledWhenDue` compares it with the definition of
an occurrence: what it reports is there, and it finds every split in front of which no byte of the split
stands. It does not find every split ("aab" hides "ab" from it, `\r\r\n` hides `\r\n`). `memMove` copies overlapping memory with `memcpy`; the model takes
the copy to go forward. `bufferReadContinue` is called in a read of a number only, as its comment says, and a read waits for at least one byte.

### Log

One step is one access of `GLOGHANDLER`, the creation of a handler, or one stdio call (each locks its stream). The macros pass
`GLOGHANDLER` as an argument, so a call reads it once before the test reads it again; after
`GLOGHANDLER = _init_log(...)` the value just stored is used, as the optimised build does.
A message is lost when its argument was NULL and the handler has come up by the test, or when the handler it would have created
could not be. `INIT_LOG(NULL, ..)` (kind `clear`) sets `GLOGHANDLER` to NULL, and so does a `malloc` that fails. Three variables are history:
`nulled` counts the times it was set to NULL, `redirected` says that `INIT_LOG` has set a handler since the last of them, and `racing` who was
creating the default handler at the last such `INIT_LOG`. `fopen` may fail, and so may a `malloc`; `BINARY` always ends in the `assert`, since its branch is nested in that of `TEXT` (`log.c:68-80`).

## The runs

| run | instance | question | outcome |
|---|---|---|---|
| `threadpool_safety` | 3 workers, 2 clients, 3 tasks, one of which ends its thread; create and malloc fail; `ready` has 3 values | lock, counter, tasks, wake-ups and list; `PoolSpec` | holds, 183 450 states |
| `threadpool_live` | 3 workers, 1 client, 4 tasks, `ready` has 256 values | `TaskTaken`, `DrainedAtJoin` | holds, 111 877 states |
| `threadpool_wrap` | 1 worker, 2 tasks, `ready` has 2 values | `TaskTaken` when `ready` can wrap | violated |
| `reactor_queues` | 1 listener, 2 connections, two events reported at a time, all that callbacks do | `QueuesAgree`, `CallsReported`, `NoneStray` | holds, 4 508 399 states |
| `reactor_one` | the same events, one reported at a time, no failing callback | `Called`, `CloseCalled` | holds, 14 462 states |
| `reactor_pair` | two reported at a time, callbacks that read or find their peer gone | `MovedBack` | violated |
| `graph_safety` | 2 nodes, 4 links, 2 names, all calls | `CountsList`, `TreesListed`, `OneForAName`, `DigraphSpec` | holds, 40 529 states |
| `graph_double` | 2 nodes, 3 links, links in both directions | `ListsAllocated` | violated |
| `rbtree` | 11 nodes, two of them with the same key | `Linked`, `Ordered`, `Balanced`, `Found`, `WalksInOrder`, `Iterates`, `SetSpec`, `CallEnds` | holds, 135 503 states |
| `buffer` | arrays of 3 bytes, 2 byte values, a split of 2, data of 1 or 2, up to one kind of slip | `StaysInside`, `WriteArmed`, `ReadInOrder`, `SendInOrder`, `CalledWhenDue`, `Answered`, `Drained` | holds, 245 362 states |
| `buffer_order` | the same | `SendAlwaysInOrder` | violated |
| `log` | 2 threads, 4 handlers, 2 calls each, 2 levels, failing mallocs | `PartsInOrder`, `FirstUse`, `RedirectionKept` | holds, 208 329 states |

`threadpool_safety`, `reactor_queues`, `graph_safety` and `buffer` also check their module's `TypeOK`; a run that is violated checks one property.

**Bounds.** Nothing in the modules is cut off by a bound except what the constants say.
`ReadyLimit` stands for the 256 values of a `uint8_t`. In `threadpool_safety` it is 3 with three tasks, so the counter wraps while
tasks wait; three workers leave one asleep while another is woken and a third takes the task, and
a task that ends its thread lets the pool go down and come up again. In `threadpool_live` it is
256, far above the four tasks. In the reactor three events are enough for a head, a middle
and a tail of a queue. `MaxBatch` is the number of events one `epoll_wait` reports (512 in the code). In `reactor_queues` it is 2:
with two events in the signalQueue one may remove, move, close or free the other, be walked over, and the sweep may stop between them;
a third event is in the waitQueue meanwhile, or is reported in a later round to the end of what the sweep left behind.
The run has a constraint, `RoundOfApart`: the round in which `apart` becomes TRUE is followed to its end and no further, as its properties claim
nothing after that (without it the run has 25 million states and passes as well). In
`reactor_one` `MaxBatch` is 1 and no callback fails or writes to a peer that has closed: that is the scope in which the promises about
calls and frees hold. `reactor_pair` shows that two events reported together break them, and TLC finds `CloseCalled` violated with `closemod` among the `Acts`,
and a connection that fails never freed; both are described below.
Two nodes and four links let `build_double_link` and
`destory_double_link` fail on the way back, a duplicate be listed between two others, and a
freed link be allocated again while a list leads to it.
`MCRBTree` bounds the calls: on the six nodes of `Few` everything is called in any order, and
beyond that a tree of ten is built in the order of the keys and taken down in any order.
Six nodes are enough for each case of both rebalancings on both sides, but not for an
erasure whose shortage moves up more than one level: that needs a tree whose nodes are black three
levels deep, and ascending inserts build one with ten nodes. The run has a VIEW, `InTheTree`, that leaves out what nodes outside the tree
still hold: no action reads it before `Leaf` overwrites it, and no property of the run does.

`Buffer` is finite by itself: arrays of three bytes hold a whole split behind a stray byte, and a write of
two that waits behind another one of two overflows. Its runs have one bound, the constraint `FewSlips`: a connection is followed
until its second kind of slip, `again` not counted. Nothing is asked of a connection with two, and what a property
excuses it excuses for the rest of the connection's life. TLC checks the liveness properties on the behaviours within the bound.
In `log` two calls for each thread (`MaxCalls`) are a first use and a use after it, or an `INIT_LOG`
between, or an `INIT_LOG(NULL, ..)`; four handlers are as many as two threads can make with two calls each.

**Deadlock.** The thread pool runs and `rbtree` check it: something is always possible, be it only
the owner's polling loop or a refused ini, and a tree can always be searched. The reactor stops when
it has used freed memory and the graph when it has, or when all that is left to call is not
among `Calls`, a connection when it has written outside its arrays, and the log when every thread has made its calls, so their runs say `CHECK_DEADLOCK FALSE`.

**Symmetry** is used where only invariants and refinements of steps are checked, in sets
whose elements nothing else tells apart.

**Fairness.** `ThreadPool`: weak fairness of every step of a thread that only the thread itself or a free lock can hold back, and of
`IniFinish`, `DestroyPoll` and `DestroyFinish`: the scheduler runs every thread, and handlers
return. The lock is not fair: `Lock` and `Wake` are only weakly fair, so one worker may never get it; what is
shown needs no more. Nothing obliges anyone to call `ini`, `add_task` or `destory`, and a sleeping worker is
woken only by a signal. `Reactor`: weak fairness of the loop, and strong fairness of
reporting each fd that is ready again and again, since epoll queues a level-triggered fd at the end of its
ready list when it has reported it. New input is never promised.
`RBTree`: weak fairness of `Turn`, a call that has begun goes on; which calls are made is the caller's choice.
`Buffer`: weak fairness of the callback's return, of input and of flushing: the reactor calls what epoll, level triggered,
goes on reporting, and the peer is assumed to go on sending and taking. That is an assumption about the peer, not about the code: `Answered` and
`Drained` say what the code makes of such a peer. A connection that keeps being registered anew, or written to, is excepted in the properties.

Each property of a passing run has a mutant: a change of one action, kept in the module under a
comment that says what slip it is, under which TLC finds the property violated.

## Where code and comments disagree

The runs that are violated state what a comment or a header says, and a finding in `PROJECT.json` quotes it:

1. `threadpool_wrap`: with 256 tasks waiting `ready` is 0 and workers sleep on a full queue.
2. `reactor_pair`: the sweep reads `next` after it has moved the event, and ends after one event.
3. `graph_double`: `destory_double_link` frees links that stay in the lists.
4. `buffer_order`: a write of which `send` takes a part is reported as done and its rest is dropped.

Also met while modelling. Each contradicts the line quoted; the models have the behaviour, and no run of its own is spent on it:

* `threadpool.h:38-41`, "destory an thread pool", and `test_threadpool.c:21`, which calls `thread_pool_destory` with handlers that return and goes on:
  `thread_entry` has no way out, so the first join (`threadpool.c:138`) waits for ever unless a handler ends each thread. `NeverDown` proves it.
* `event.c:266`, "In errCb, event may be destroied": the sweep advances `ev_next` and never `ev` (`event.c:251`), so it reads the
  status of an event its error callback has freed when another one follows: two connections that close in one round. `MovedBack` forbids it too.
* `_epoll.h:149-153`, "when event has been set error flag error callback will be called": the sweep unlinks an event that failed and calls
  its error callback, whose `disBuffer` (`buffer.c:279`) unlinks it again as its status is still INERRORQUEUE (`event.c:175`), through pointers that are NULL.
* `_epoll.h:155-161`, "when event has been set close flag, close callback will be called": `recv` has returned 0 and the read callback
  writes; `eventModListen` takes INCLOSEQUEUE away (`event.c:198`), and nothing frees the connection.
* `graph.h:142-144`, "0 [+] success", "!0 [+] failed": `build_link` counts and lists a link (`graph.c:321-323`) whose name is then refused, and
  no call can take it out again.
* `graph.h:185-187`, the same words: `destory_double_link` answers -1 when there is no link back, and has taken the link there out of its tree (`graph.c:386`).
* `graph.h:95-96`, "iterate nodes on this graph": `iterate_graph_nodes` looks up the name of `start` and walks from `start` itself (`graph.c:110`).
  `rm_node` without a callback (`graph.c:206-208`) leaves the node its children, so when another node of the name is there the walk visits nodes that have left the graph.
* `buffer.h:76`, "Set callback to buffer when there are split char in buffer": `splitFind` starts over behind a byte that does not
  match without trying it as the first of the split (`buffer.c:14`).
* `log.h:62-64`, "if INIT_LOG been called, log will be redirect to the fpath which you give": a thread that has found `GLOGHANDLER` NULL and is creating
  the default handler puts it in the place of the one `INIT_LOG` has set meanwhile (`log.c:92`). `RedirectionKept` says who can do so, and who cannot.
* `buffer.h:63`, "when read_buffer >= n, the read callback will be trigger": bytes a callback leaves over that are enough
  for the next call wait until more arrives or `recv` has nothing to give.
* `buffer.c:165`, "No enough memory": `nWBufLeave` is compared and never counted.
* `threadpool.c:84-85`: `&&` between the initialisations of the lock and the condition variable, so the second
  is made only when the first fails. On Linux zeroed memory is what it would have written.

## What is proved

The modules whose names end in `Proofs` are checked to the last leaf, for all
values of the constants that satisfy each module's `ConstantsAssumption` (which says that the sets are disjoint
and do not contain NULL, that workers, clients, events and nodes are finite, for `Buffer` that a write or a split is not empty and a split fits the array,
for `RBTree` that keys are numbers, and no more).

**Thread pool.** The invariant `IInv` is the conjunction of `TypeOK`, `MutualExclusion`,
`ReadyCountsQueue`, `TaskInOnePlace`, `NoLostWakeup` and two parts that make it inductive:
`InHand` says at which control points a thread holds a task, and `Stages` what the owner's
control point implies of the others. `Stages` carries the hard case: `ready = 0` at the end
of ini is unlocked, but until then no client may submit, so the queue is empty and the
workers can at most have found an old counter and started over. `NoLostWakeup` is preserved
because a signal either wakes a sleeper, who then heads for the queue, or finds none, and then
the property says nothing; its steps reason on cardinalities of `Heading` and `Signalling`. From
`IInv` follow `TypeCorrect`, `Exclusive`, `Counted`, `OnePlace`, `WakeupKept`, and
`ImplementsTaskPool` (every step is a step of `TaskPool` or a stutter).
`DrainedWhenItFits` assumes in addition that there are fewer tasks than `ready` has values: an owner
that reads 0 then leaves at most the task that is linked and not counted yet (`Uncounted`, which is also in `ReadyCountsQueue`).
`NeverDown` assumes that no handler ends its thread and that every thread is created, and shows that such a pool never leaves
`isalive = 1` (`StaysAlive`): `thread_pool_destory` does not complete, whatever its header says.

**Reactor.** `Orderly` adds three parts to `TypeOK`: `ev` is not NULL while `ev_next` is not
(`Sweeping`), what is being reported is registered (`Reported`), and `Tidy`, which says where the loop stands as long as nothing has come apart.
There are two sets of events, one that the waitQueue lists and one that the signalQueue does, the callbacks and the sweep are at a
member of the second, and nothing registered is removed or freed. An event that has failed may be in either set, as its status does not tell.
`ListAddListed` and `ListRmListed` say what `eventListAdd` and `eventListRm` do, pointer
by pointer, to a queue that lists a set of events, at either end and in the middle, and that they leave the other queue alone; on them rest the lemmas about
the calls callbacks make, and on those one step for each action. The theorems put no condition on the constants or on the behaviour: any number of events, any `MaxBatch`,
any callbacks, registrations that fail. `QueuesAgreeHolds` includes that no freed memory is used before `apart`; `CallsReportedHolds`
and `NoneStrayHolds` come from the same invariant.

**Graph.** `Good(m)` is the invariant of the links as a predicate of their memory, so that
each operation on them gets a lemma of its own (building, destroying, uprooting, deleting,
releasing keep `Good`), and `Members` that of the graph. Each call has a lemma that says it keeps `IInv` and is a step of
`Digraph`; from these follow `TypeCorrect`, `Counted`, `Listed`, `NamesFindOne` and `ImplementsDigraph`.

**Lists.** Two lemmas say what `queue_add_tail` and `queue_del_first` do to a list that `Chains` a sequence without
repetitions: next and prev then lead through the sequence with its new end, or without its head. `TaskInOnePlace` gives
that the sequence has no repetitions and that a task which is added is not in it, so the invariant is `ListIsQueue` with the type of the
pointers. `ImplementsThreadPool` says that every step of `ThreadPoolQueue` is one of `ThreadPool`, which carries the theorems of `ThreadPoolProofs` over; `ListAgrees` is `ListIsQueue`.

**Buffers.** `IInv` adds `Counts` to `TypeOK`, `WriteArmed` and `StaysInside`: a split is searched with the length it was registered with, `nExist` is negative only after
the slip `rearm`, and while the callback runs it is what the callback was called with, or 0. `WriteArmed` is what makes `StaysInside`
inductive: a write that does not fit finds bytes waiting, hence the event listening for room, hence it is a second one. Three lemmas on the arrays
(`Front`, `PutFollows`, `MemMoveLeaves`) say what is in front after a copy or a `memMove`, and with them
each step is a step of `ByteStream` in both directions, or has one of the named slips: `ReadsInOrder` and `SendsInOrder`, for arrays, data and splits of any size.
`CallsWhenDue` (`CalledWhenDue`) is about what `splitFind` computes: by induction over the bytes, what has matched is a front of the split and the last bytes read until
an occurrence is complete (`MatchesSound`), and from a clean place on the match is as long as what has been read of the occurrence (`MatchesComplete`).
As a step that writes outside the arrays leaves `io` as it was, the theorem goes by an invariant of the state after the input, `Timely`.

**Red-black tree.** Three invariants, each on top of the one before, for any set of nodes and any keys.

* `LinkInv` (`RBTreeProofs`): `Good(t, members)` and `Control`, what `node`, `parent` and `arg` are in each loop. `Good` is the agreement of the pointers
  (`Shape`) with `Rooted`: no nonempty set of members is closed under parents, which is how a set of pairs of pointers says that it has
  no cycle. `Control` carries for the walk to the successor a `LeftPath` of nodes from `arg`'s right child down to `node`, without which `EraseSplice` could meet a
  node that is not below `arg`. The operators get lemmas of their own (`RotateWrites`, `CutWrites`, `CopyWrites`, `SpliceWrites`:
  what each writes, pointer by pointer), and the surgery is put down to four changes, `Links`, `Removes`, `Renames` and a rotation, each of which keeps `Good`.
  From it: `LinkedHolds` (`Linked`), `TypeCorrect`, `RootedHolds`.
* `OrderInv` (`RBTreeOrderProofs`): `Sorted`, every member `n` has a set of keys `B[n]` with its own key in it, the set of a left child is among the smaller ones of it,
  that of a right child among the greater; a descent has passed only nodes from which `arg` belongs to the side it took, and a successor is the least key to the right.
  From it: `FoundHolds` (a search tells the truth), `MembersOrderedSet` (`members` takes the steps of `OrderedSet`), and, since the walk from the root
  passes exactly the members as their keys rise, `OrderedHolds` and `SetImplemented`: what the pointers lead to takes the steps of `OrderedSet`, between two turns as well.
* `ColorInv` (`RBTreeBalanceProofs`): `Heights`, a function from nodes to numbers which on every way down falls by one at each black node, and by one more on the one side that is
  short in `__rb_erase_color`; `Reds`, the nodes that alone may be red under a red one or at the root: `node` in `rb_insert_color`, `node` and its children in `__rb_erase_color`, otherwise none.
  A rotation with its painting has to fit the two nodes that turn (`TurnedHeights`, `TurnedReds`); one lemma does the others. From it `BalancedHolds`.
  TLC checked `ColorInv` on 6 and on 11 nodes before.

The walks follow from `OrderInv` in a state where a call has returned. With bounds fixed, what is under a node and what is above it are sets of nodes given by
the bounds alone: a node is under another when its key is in that one's set, its parent is the lowest node above it, and what is under two children has
nothing in common (`AboveIs`, `Down`, `Apart`). So `Furthest` ends at the least or greatest key under its start, `Ascend` at the lowest node above that is
to the side, and `Neighbour` is the nearest member by key: `WalksInOrderHolds`. `IteratesHolds` is about walks from members, and from the root;
of a node outside the tree nothing is known but what it held when it left.

`InOrder`, `BlackAbove`, `Furthest`, `Ascend` and `Visit` are recursive functions over the number of levels. What they compute is proved by induction over levels, in the form of a set of
numbers that contains 0 and with each number the next (`NatSet`, from the well-foundedness of `<` with `WFMin`), and `Levels` gives the existence of a function that is built
level by level; neither takes an operator as a parameter.

**Log.** Until `_init_log` has returned NULL, `GLOGHANDLER`, once set, is never NULL again, and a handler that exists is in it or is about to be put there by the thread that created it (`FirstInv`).
`CountInv` counts what the first use costs a thread: at most one handler for `/dev/stderr` or one message for each time the handler was NULL, with one to spare for a thread that
has found it NULL and has not paid yet. `RedirectInv` adds that after a redirection nobody creates the default handler but who did so at the time of it (`racing`): a thread tests `GLOGHANDLER` again before it creates. `PrintingInv` says what is printed of a message at each control
point of its thread: no part that comes at that point or later, all that come before, and on the handler the
call goes by. From these `FirstUseHolds`, `RedirectionKeptHolds` and `PartsInOrderHolds`, for any number of threads, handlers, calls and levels. That lines of different threads
do not mix is not among them: nothing in the code or its comments provides for it.

**Only model-checked.** Liveness (`TaskTaken`, `Called`, `CloseCalled`, `CallEnds`, `Answered`, `Drained`) is out of
TLAPS' reach, as is ENABLED, and so is the library's induction over an operator. Every safety property of the passing runs is stated by a theorem.

## What is not modelled, and why

* `expWBuf` and `nExpWBufLen` of a buffer are set and never used; `nodeNum` of the reactor is never read.
* The composition of `Reactor` and `Buffer`: each has the part of `buffer.c` that concerns it, and `Buffer` lets the
  other connections do to this one all that `Reactor` lets their callbacks do. A product of the two has too many states to add to what each shows.
* `epoll_mod` has no caller; time-outs and the stop of the loop are commented out in the source.
  Which of EPOLLIN and EPOLLOUT an fd waits for is abstracted to being ready for what it listens for (`Buffer` has `mode`).
* Of `queue.h` what the pool and the graph call is modelled, with pointers under the pool and as a sequence under the graph; the rest is the kernel's list API without a caller.
* Of `log.c` the calls that nothing calls: buffering, flushing, syncing, seeking, the size, and `uinit_log`.
* `config.c`, `utils.c`: one thread reads a file of `key:value` lines once and puts them into a tree, with the
  descent `RBTree` models; the rest is splitting strings in arrays of fixed size, for which tests do.
* `socket.h`: three wrappers of system calls.

## Plan

Done: every component that has a state of its own, the abstract specifications `TaskPool`, `Digraph`, `OrderedSet` and `ByteStream`, and the proofs
above. What is left:

* The list of links of the graph over `Queue`, as the pool's is; it needs `queue_del` in the middle of a list and freed nodes.
