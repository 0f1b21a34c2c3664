----------------------------- MODULE ThreadPool -----------------------------
(***************************************************************************)
(* The worker pool of src/src/threadpool.c: one global pool, a task queue  *)
(* and a counter `ready` under queue_lock, a condition variable the        *)
(* workers sleep on, and the owner that calls thread_pool_ini and          *)
(* thread_pool_destory.                                                    *)
(*                                                                         *)
(* One step is one lock acquisition, one critical section (with the unlock *)
(* that ends it), one signal, or one unlocked access of the owner.  The    *)
(* critical section of add_task is two steps, since the owner may look at  *)
(* `ready` between them; that of a worker is one, since what the owner can *)
(* see inside it, a `ready` that is not 0 yet, it can see before it.       *)
(*                                                                         *)
(* Environment.  A caller submits a task_t that is not in use (linking one *)
(* that is already linked would corrupt the list), uses the pool between   *)
(* the return of ini and the call of destory, and a handler may itself     *)
(* submit tasks.  The handler of a task of ExitTasks ends its thread       *)
(* (pthread_exit): the pool's code has no other way for a worker to end.   *)
(***************************************************************************)
EXTENDS Naturals, Sequences, FiniteSets, Functions

CONSTANTS
  Workers,        \* the threads pthreads[0..workernum-1]
  Clients,        \* the caller threads of thread_pool_add_task
  Tasks,          \* the task_t structures
  ExitTasks,      \* the tasks whose handler ends its thread
  CreateMayFail,  \* whether pthread_create may return an error
  AllocMayFail,   \* whether malloc may return NULL in thread_pool_ini
  ReadyLimit,     \* the number of values of `ready`: 256 for its uint8_t
  None            \* no thread, no task

Threads == Workers \cup Clients

ASSUME ConstantsAssumption ==
  /\ IsFiniteSet(Workers) /\ Workers # {}
  /\ IsFiniteSet(Clients)
  /\ Workers \cap Clients = {}
  /\ ExitTasks \subseteq Tasks
  /\ CreateMayFail \in BOOLEAN /\ AllocMayFail \in BOOLEAN
  /\ ReadyLimit \in Nat \ {0}
  /\ None \notin Threads \cup Tasks

VARIABLES
  owner,      \* control point of the thread that calls ini and destory
  isalive,    \* g_threads_pool.isalive
  ready,      \* g_threads_pool.ready
  taskQueue,  \* g_threads_pool.task_queue
  lock,       \* the holder of queue_lock
  waiters,    \* the workers blocked in pthread_cond_wait(task_cond)
  pc,         \* control point of each worker and client
  cur,        \* the task a worker's handler is running
  arg         \* the task a thread has passed to thread_pool_add_task

vars == <<owner, isalive, ready, taskQueue, lock, waiters, pc, cur, arg>>

Held(f) == Range(f) \ {None}
Queued == Range(taskQueue)
Running == Held(cur)
Submitting == Held(arg)

WorkerPC == {"none", "failed", "lock", "test", "wait", "run",
             "addlock", "add", "count", "signal", "exited"}
ClientPC == {"idle", "addlock", "add", "count", "signal"}
OwnerPC  == {"idle", "starting", "wedged", "up", "polling", "joining"}

\* The static g_threads_pool is all zero bytes.
Init ==
  /\ owner = "idle" /\ isalive = 0 /\ ready = 0
  /\ taskQueue = <<>> /\ lock = None /\ waiters = {}
  /\ pc = [t \in Threads |-> IF t \in Workers THEN "none" ELSE "idle"]
  /\ cur = [w \in Workers |-> None]
  /\ arg = [t \in Threads |-> None]

-----------------------------------------------------------------------------
(* Slips a change of the code could make: each is the mutated form of the   *)
(* action it is named after, and breaks one of the properties below.        *)

\* ini forgets to reset the counter an earlier life of the pool has left.
IniFinishKeepsReady ==
  /\ owner = "starting"
  /\ \A w \in Workers : pc[w] # "none"
  /\ owner' = "up"
  /\ UNCHANGED <<isalive, ready, taskQueue, lock, waiters, pc, cur, arg>>

\* add_task returns without the signal.
CountTaskSilent(t) ==
  /\ pc[t] = "count"
  /\ ready' = (ready + 1) % ReadyLimit
  /\ lock' = None
  /\ pc' = [pc EXCEPT ![t] = IF t \in Workers THEN "run" ELSE "idle"]
  /\ UNCHANGED <<owner, isalive, taskQueue, waiters, cur, arg>>

\* The signal goes to another condition variable.
SignalNobody(t) ==
  /\ pc[t] = "signal"
  /\ pc' = [pc EXCEPT ![t] = IF t \in Workers THEN "run" ELSE "idle"]
  /\ UNCHANGED <<owner, isalive, ready, taskQueue, lock, waiters, cur, arg>>

\* `continue` without the unlock before it.
SkipLocked(w) ==
  /\ pc[w] = "test" /\ ready # 0 /\ taskQueue = <<>>
  /\ pc' = [pc EXCEPT ![w] = "lock"]
  /\ UNCHANGED <<owner, isalive, ready, taskQueue, lock, waiters, cur, arg>>

\* The worker looks at the queue only and counts down a counter that is 0.
TakeUncounted(w) ==
  /\ pc[w] = "test" /\ taskQueue # <<>>
  /\ cur' = [cur EXCEPT ![w] = Head(taskQueue)]
  /\ taskQueue' = Tail(taskQueue)
  /\ ready' = ready - 1
  /\ lock' = None
  /\ pc' = [pc EXCEPT ![w] = "run"]
  /\ UNCHANGED <<owner, isalive, waiters, arg>>

\* The task is read but not unlinked.
TakeLinked(w) ==
  /\ pc[w] = "test" /\ ready # 0 /\ taskQueue # <<>>
  /\ cur' = [cur EXCEPT ![w] = Head(taskQueue)]
  /\ ready' = ready - 1
  /\ lock' = None
  /\ pc' = [pc EXCEPT ![w] = "run"]
  /\ UNCHANGED <<owner, isalive, taskQueue, waiters, arg>>

\* The newest task is taken (queue_get_tail, queue_del_tail).
TakeNewest(w) ==
  /\ pc[w] = "test" /\ ready # 0 /\ taskQueue # <<>>
  /\ cur' = [cur EXCEPT ![w] = taskQueue[Len(taskQueue)]]
  /\ taskQueue' = SubSeq(taskQueue, 1, Len(taskQueue) - 1)
  /\ ready' = ready - 1
  /\ lock' = None
  /\ pc' = [pc EXCEPT ![w] = "run"]
  /\ UNCHANGED <<owner, isalive, waiters, arg>>

\* destory joins at once.
DestroyPollBlind ==
  /\ owner = "polling"
  /\ owner' = "joining"
  /\ UNCHANGED <<isalive, ready, taskQueue, lock, waiters, pc, cur, arg>>

-----------------------------------------------------------------------------
(* thread_pool_ini *)

\* Up to the thread creation: isalive is set first, then the queue is made
\* empty.  When malloc fails NULL is returned with isalive left at 1.
IniStart ==
  /\ owner = "idle" /\ isalive = 0
  /\ isalive' = 1
  /\ lock' = None
  /\ taskQueue' = <<>>
  /\ pc' = [t \in Threads |-> IF t \in Workers THEN "none" ELSE pc[t]]
  /\ \/ owner' = "starting"
     \/ AllocMayFail /\ owner' = "wedged"
  /\ UNCHANGED <<ready, waiters, cur, arg>>

\* One turn of the creation loop.  pthread_create reports an error with a
\* positive number, which the test `err == -1` does not see.
CreateWorker(w) ==
  /\ owner = "starting" /\ pc[w] = "none"
  /\ \/ pc' = [pc EXCEPT ![w] = "lock"]
     \/ CreateMayFail /\ pc' = [pc EXCEPT ![w] = "failed"]
  /\ UNCHANGED <<owner, isalive, ready, taskQueue, lock, waiters, cur, arg>>

\* The end of ini, outside the lock: the workers already run.
IniFinish ==
  /\ owner = "starting"
  /\ \A w \in Workers : pc[w] # "none"
  /\ ready' = 0
  /\ owner' = "up"
  /\ UNCHANGED <<isalive, taskQueue, lock, waiters, pc, cur, arg>>

\* A caller whose first ini failed tries again and is refused.
IniRefused == owner = "wedged" /\ isalive = 1 /\ UNCHANGED vars

-----------------------------------------------------------------------------
(* thread_pool_add_task, by a client or by a handler that a worker runs *)

\* The call.
Submit(t, k) ==
  /\ \/ t \in Clients /\ pc[t] = "idle" /\ owner = "up"
     \/ t \in Workers /\ pc[t] = "run"
  /\ k \notin Queued \cup Running \cup Submitting
  /\ arg' = [arg EXCEPT ![t] = k]
  /\ pc' = [pc EXCEPT ![t] = "addlock"]
  /\ UNCHANGED <<owner, isalive, ready, taskQueue, lock, waiters, cur>>

AddLock(t) ==
  /\ pc[t] = "addlock" /\ lock = None
  /\ lock' = t
  /\ pc' = [pc EXCEPT ![t] = "add"]
  /\ UNCHANGED <<owner, isalive, ready, taskQueue, waiters, cur, arg>>

\* In the critical section the task is linked first,
AddTask(t) ==
  /\ pc[t] = "add"
  /\ taskQueue' = Append(taskQueue, arg[t])
  /\ arg' = [arg EXCEPT ![t] = None]
  /\ pc' = [pc EXCEPT ![t] = "count"]
  /\ UNCHANGED <<owner, isalive, ready, lock, waiters, cur>>

\* and counted then: `ready` is a uint8_t and wraps.
CountTask(t) ==
  /\ pc[t] = "count"
  /\ ready' = (ready + 1) % ReadyLimit
  /\ lock' = None
  /\ pc' = [pc EXCEPT ![t] = "signal"]
  /\ UNCHANGED <<owner, isalive, taskQueue, waiters, cur, arg>>

\* pthread_cond_signal, after the unlock: wakes one waiter if there is one.
Signal(t) ==
  /\ pc[t] = "signal"
  /\ \/ waiters = {} /\ UNCHANGED waiters
     \/ \E w \in waiters : waiters' = waiters \ {w}
  /\ pc' = [pc EXCEPT ![t] = IF t \in Workers THEN "run" ELSE "idle"]
  /\ UNCHANGED <<owner, isalive, ready, taskQueue, lock, cur, arg>>

-----------------------------------------------------------------------------
(* thread_entry *)

Lock(w) ==
  /\ pc[w] = "lock" /\ lock = None
  /\ lock' = w
  /\ pc' = [pc EXCEPT ![w] = "test"]
  /\ UNCHANGED <<owner, isalive, ready, taskQueue, waiters, cur, arg>>

\* pthread_cond_wait gives up the lock and goes to sleep in one step.
Wait(w) ==
  /\ pc[w] = "test" /\ ready = 0
  /\ waiters' = waiters \cup {w}
  /\ lock' = None
  /\ pc' = [pc EXCEPT ![w] = "wait"]
  /\ UNCHANGED <<owner, isalive, ready, taskQueue, cur, arg>>

\* A woken worker takes the lock back and tests `ready` again.
Wake(w) ==
  /\ pc[w] = "wait" /\ w \notin waiters /\ lock = None
  /\ lock' = w
  /\ pc' = [pc EXCEPT ![w] = "test"]
  /\ UNCHANGED <<owner, isalive, ready, taskQueue, waiters, cur, arg>>

\* pthread_cond_wait may return without a signal.
SpuriousWake(w) ==
  /\ w \in waiters
  /\ waiters' = waiters \ {w}
  /\ UNCHANGED <<owner, isalive, ready, taskQueue, lock, pc, cur, arg>>

\* `ready` counts a task but the queue is empty: unlock and start over.
Skip(w) ==
  /\ pc[w] = "test" /\ ready # 0 /\ taskQueue = <<>>
  /\ lock' = None
  /\ pc' = [pc EXCEPT ![w] = "lock"]
  /\ UNCHANGED <<owner, isalive, ready, taskQueue, waiters, cur, arg>>

Take(w) ==
  /\ pc[w] = "test" /\ ready # 0 /\ taskQueue # <<>>
  /\ cur' = [cur EXCEPT ![w] = Head(taskQueue)]
  /\ taskQueue' = Tail(taskQueue)
  /\ ready' = ready - 1
  /\ lock' = None
  /\ pc' = [pc EXCEPT ![w] = "run"]
  /\ UNCHANGED <<owner, isalive, waiters, arg>>

\* fp_task_handler returns, or ends the thread.
HandlerEnd(w) ==
  /\ pc[w] = "run"
  /\ pc' = [pc EXCEPT ![w] = IF cur[w] \in ExitTasks THEN "exited" ELSE "lock"]
  /\ cur' = [cur EXCEPT ![w] = None]
  /\ UNCHANGED <<owner, isalive, ready, taskQueue, lock, waiters, arg>>

-----------------------------------------------------------------------------
(* thread_pool_destory *)

\* The call, by the thread that submits: no client is inside add_task.
DestroyCall ==
  /\ owner = "up" /\ isalive = 1
  /\ \A c \in Clients : pc[c] = "idle"
  /\ owner' = "polling"
  /\ UNCHANGED <<isalive, ready, taskQueue, lock, waiters, pc, cur, arg>>

\* `ready` is read without the lock.
DestroyPoll ==
  /\ owner = "polling" /\ ready = 0
  /\ owner' = "joining"
  /\ UNCHANGED <<isalive, ready, taskQueue, lock, waiters, pc, cur, arg>>

\* While `ready` is not 0 the owner sleeps and reads it again.
DestroySleep == owner = "polling" /\ ready # 0 /\ UNCHANGED vars

\* The join loop ends when every thread has ended.  (The join of a thread
\* that was never created may return an error, which the code ignores.)
DestroyFinish ==
  /\ owner = "joining"
  /\ \A w \in Workers : pc[w] \in {"exited", "failed"}
  /\ isalive' = 0
  /\ owner' = "idle"
  /\ UNCHANGED <<ready, taskQueue, lock, waiters, pc, cur, arg>>

-----------------------------------------------------------------------------

Owner ==
  \/ IniStart
  \/ IniFinish
  \/ IniRefused
  \/ DestroyCall
  \/ DestroyPoll
  \/ DestroySleep
  \/ DestroyFinish
  \/ \E w \in Workers : CreateWorker(w)

Adder(t) ==
  \/ AddLock(t)
  \/ AddTask(t)
  \/ CountTask(t)
  \/ Signal(t)
  \/ \E k \in Tasks : Submit(t, k)

Worker(w) ==
  \/ Lock(w)
  \/ Wait(w)
  \/ Wake(w)
  \/ SpuriousWake(w)
  \/ Skip(w)
  \/ Take(w)
  \/ HandlerEnd(w)

Next ==
  \/ Owner
  \/ \E t \in Threads : Adder(t)
  \/ \E w \in Workers : Worker(w)

Spec == Init /\ [][Next]_vars

\* The scheduler lets every thread that can move go on, and handlers return.
\* Nothing obliges anyone to call ini, add_task or destory, and a sleeping
\* worker need not wake without a signal.
Fairness ==
  /\ WF_vars(IniFinish) /\ WF_vars(DestroyPoll) /\ WF_vars(DestroyFinish)
  /\ \A w \in Workers :
       /\ WF_vars(CreateWorker(w)) /\ WF_vars(Lock(w)) /\ WF_vars(Wait(w))
       /\ WF_vars(Wake(w)) /\ WF_vars(Skip(w)) /\ WF_vars(Take(w))
       /\ WF_vars(HandlerEnd(w))
  /\ \A t \in Threads : WF_vars(AddLock(t) \/ AddTask(t) \/ CountTask(t) \/ Signal(t))

FairSpec == Spec /\ Fairness

-----------------------------------------------------------------------------
(* Properties *)

\* Every variable has its type: the control points of the three kinds of
\* thread, the uint8_t range of `ready`, and the task structures in transit.
TypeOK ==
  /\ owner \in OwnerPC /\ isalive \in {0, 1}
  /\ ready \in 0..ReadyLimit-1
  /\ taskQueue \in Seq(Tasks)
  /\ lock \in Threads \cup {None}
  /\ waiters \in SUBSET Workers
  /\ pc \in [Threads -> WorkerPC \cup ClientPC]
  /\ \A w \in Workers : pc[w] \in WorkerPC
  /\ \A c \in Clients : pc[c] \in ClientPC
  /\ cur \in [Workers -> Tasks \cup {None}]
  /\ arg \in [Threads -> Tasks \cup {None}]

\* A thread is between the lock and the unlock of queue_lock exactly when it
\* holds the lock, across sleeps, wake-ups, handler calls and restarts of the
\* pool: no two threads touch task_queue and ready at once.
MutualExclusion ==
  \A t \in Threads : pc[t] \in {"test", "add", "count"} <=> lock = t

\* The tasks in the queue that add_task has linked and not counted yet.
Uncounted == IF \E t \in Threads : pc[t] = "count" THEN 1 ELSE 0

\* While the pool is in use the counter the workers sleep on agrees with the
\* queue they take from, modulo the width of `ready` and but for the task that
\* is just being added, in spite of the unlocked `ready = 0` that ends ini
\* after the workers have started.
ReadyCountsQueue ==
  owner \in {"up", "polling", "joining"} =>
    /\ Uncounted <= Len(taskQueue)
    /\ ready = (Len(taskQueue) - Uncounted) % ReadyLimit

HeldOnce(f) == \A x, y \in DOMAIN f : f[x] = f[y] /\ f[x] # None => x = y

\* A task_t is linked into the queue at most once, run by at most one worker,
\* and never queued, run or handed over at the same time: no handler call is
\* duplicated and no list node is linked twice.
TaskInOnePlace ==
  /\ IsInjective(taskQueue) /\ HeldOnce(cur) /\ HeldOnce(arg)
  /\ Queued \cap Running = {}
  /\ Submitting \cap (Queued \cup Running) = {}

\* The workers that will look at `ready` again without being signalled.
Heading == {w \in Workers : \/ pc[w] \in {"lock", "test"}
                            \/ pc[w] = "wait" /\ w \notin waiters}

\* The threads that have added a task and not signalled yet.
Signalling == {t \in Threads : pc[t] = "signal"}

\* No wake-up is lost: while some worker sleeps, every task `ready` counts
\* has a worker on its way to the queue or a signal still to come, although
\* add_task signals after it has unlocked and the signal may find no sleeper.
NoLostWakeup ==
  waiters # {} => ready <= Cardinality(Heading) + Cardinality(Signalling)

\* The queue and the workers together are a TaskPool: tasks are started in
\* the order they were added, each once.
Pool == INSTANCE TaskPool WITH pending <- taskQueue, running <- Running
PoolSpec == Pool!Spec

\* A task that was added is eventually handed to a worker's handler.
\* threadpool.h says of add_task: "fp_handler will deal this task".
TaskTaken == \A k \in Tasks : k \in Queued ~> k \in Running

\* destory reads `ready` without the lock, and may read it while a handler is
\* between the linking and the counting of a task.  When that read lets it go
\* on to the join loop, every task whose add_task has given the lock back has
\* been taken; all that can be left is the one task that is being added just
\* then (as long as `ready` cannot wrap).
DrainedAtJoin ==
  [][owner = "polling" /\ owner' = "joining" => Len(taskQueue) = Uncounted]_vars
=============================================================================
