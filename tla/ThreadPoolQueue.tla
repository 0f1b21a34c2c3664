--------------------------- MODULE ThreadPoolQueue ---------------------------
(***************************************************************************)
(* The worker pool over the list it keeps its tasks in: ThreadPool.tla,    *)
(* whose taskQueue is a sequence, together with the list of queue.h that   *)
(* task_queue and the task_node of every task really are.  The steps are   *)
(* those of ThreadPool; three of them change the list.                     *)
(***************************************************************************)
EXTENDS ThreadPool

CONSTANT Root  \* the list_head task_queue

ASSUME RootAssumption == Root \notin Tasks \cup {None}

VARIABLE list  \* the pointers of task_queue and of the tasks' task_nodes

Q == INSTANCE Queue WITH Nodes <- Tasks, Nil <- None

listVars == <<vars, list>>

ListInit == Init /\ list = Q!Zeroed

IniStartList == IniStart /\ list' = Q!InitHead(list)
AddTaskList(t) == AddTask(t) /\ list' = Q!AddTail(list, arg[t])

\* Faulty: the task is read but stays in the list.
TakeListed(w) == Take(w) /\ list' = list

TakeList(w) == Take(w) /\ list' = Q!DelFirst(list)

\* The other steps leave the list alone.
Elsewhere ==
  \/ IniFinish \/ IniRefused
  \/ DestroyCall \/ DestroyPoll \/ DestroySleep \/ DestroyFinish
  \/ \E t \in Threads : \/ AddLock(t) \/ CountTask(t) \/ Signal(t)
                        \/ \E k \in Tasks : Submit(t, k)
  \/ \E w \in Workers : \/ CreateWorker(w) \/ Lock(w) \/ Wait(w) \/ Wake(w)
                        \/ SpuriousWake(w) \/ Skip(w) \/ HandlerEnd(w)

ListNext ==
  \/ IniStartList
  \/ \E t \in Threads : AddTaskList(t)
  \/ \E w \in Workers : TakeList(w)
  \/ Elsewhere /\ UNCHANGED list

ListSpec == ListInit /\ [][ListNext]_listVars

\* With the fairness of ThreadPool, whose steps these are.
FairListSpec == ListSpec /\ Fairness

-----------------------------------------------------------------------------
(* Properties *)

\* From the first ini on the list is the queue: read along next and along
\* prev it has the tasks that wait, in the order they were added.  A worker
\* that asks queue_empty and queue_get_first gets the answer the model's
\* sequence gives, however adds, takes and restarts of the pool interleave,
\* and although a restart empties the list with tasks still linked to it.
ListIsQueue ==
  owner # "idle" \/ taskQueue # <<>> =>
    /\ Q!Chains(list, taskQueue)
    /\ Q!Empty(list) <=> taskQueue = <<>>
    /\ taskQueue # <<>> => Q!GetFirst(list) = Head(taskQueue)
=============================================================================
