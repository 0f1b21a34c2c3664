-------------------------- MODULE ThreadPoolProofs --------------------------
(***************************************************************************)
(* The invariants of ThreadPool, for every number of workers, clients and  *)
(* tasks and every width of the counter `ready`; and at the end            *)
(* ThreadPoolQueue, the pool over its list: the pointers agree with the    *)
(* sequence of waiting tasks, and its steps are steps of ThreadPool only,  *)
(* so that all the theorems are about it too.                              *)
(***************************************************************************)
EXTENDS ThreadPoolQueue, Integers, FiniteSetTheorems, SequenceTheorems, TLAPS

\* A thread carries a task into add_task, and a worker has a task in hand,
\* exactly at the control points where the code has it in a local variable;
\* only workers inside pthread_cond_wait are among the sleepers.
InHand ==
  /\ \A t \in Threads : arg[t] # None <=> pc[t] \in {"addlock", "add"}
  /\ \A w \in Workers :
       cur[w] # None <=> pc[w] \in {"run", "addlock", "add", "count", "signal"}
  /\ \A w \in waiters : pc[w] = "wait"

\* What each stage of the owner's calls lets the other threads be doing.
Stages ==
  /\ isalive = 0 <=> owner = "idle"
  /\ owner # "up" => \A c \in Clients : pc[c] = "idle"
  /\ owner \in {"idle", "wedged"} =>
       \A w \in Workers : pc[w] \in {"none", "failed", "exited"}
  /\ owner = "starting" =>
       /\ taskQueue = <<>>
       /\ \A w \in Workers : pc[w] \in {"none", "failed", "lock", "test", "wait"}

\* The static pool has the types.
LEMMA TypeOKInit == Init => TypeOK
<1> USE ConstantsAssumption
<1> QED BY DEF Init, TypeOK, Threads, OwnerPC, WorkerPC, ClientPC

\* Every step keeps the types; a task that is added comes out of arg.
LEMMA TypeOKStep ==
  ASSUME TypeOK, InHand, [Next]_vars
  PROVE  TypeOK'
<1> USE ConstantsAssumption DEF TypeOK, Threads, OwnerPC, WorkerPC, ClientPC
<1>1. CASE IniStart BY <1>1 DEF IniStart
<1>2. CASE IniFinish BY <1>2 DEF IniFinish
<1>4. CASE DestroyCall BY <1>4 DEF DestroyCall
<1>5. CASE DestroyPoll BY <1>5 DEF DestroyPoll
<1>7. CASE DestroyFinish BY <1>7 DEF DestroyFinish
<1>8. ASSUME NEW w \in Workers, CreateWorker(w) PROVE TypeOK'
  BY <1>8 DEF CreateWorker
<1>9. ASSUME NEW t \in Threads, AddLock(t) PROVE TypeOK'
  BY <1>9 DEF AddLock
<1>10. ASSUME NEW t \in Threads, AddTask(t) PROVE TypeOK'
  BY <1>10 DEF AddTask, InHand
<1>3. ASSUME NEW t \in Threads, CountTask(t) PROVE TypeOK'
  BY <1>3 DEF CountTask
<1>11. ASSUME NEW t \in Threads, Signal(t) PROVE TypeOK'
  BY <1>11 DEF Signal
<1>12. ASSUME NEW t \in Threads, NEW k \in Tasks, Submit(t, k) PROVE TypeOK'
  BY <1>12 DEF Submit
<1>13. ASSUME NEW w \in Workers, Lock(w) PROVE TypeOK'
  BY <1>13 DEF Lock
<1>14. ASSUME NEW w \in Workers, Wait(w) PROVE TypeOK'
  BY <1>14 DEF Wait
<1>15. ASSUME NEW w \in Workers, Wake(w) PROVE TypeOK'
  BY <1>15 DEF Wake
<1>16. ASSUME NEW w \in Workers, SpuriousWake(w) PROVE TypeOK'
  BY <1>16 DEF SpuriousWake
<1>17. ASSUME NEW w \in Workers, Skip(w) PROVE TypeOK'
  BY <1>17 DEF Skip
<1>18. ASSUME NEW w \in Workers, Take(w) PROVE TypeOK'
  BY <1>18 DEF Take
<1>19. ASSUME NEW w \in Workers, HandlerEnd(w) PROVE TypeOK'
  BY <1>19 DEF HandlerEnd
<1>20. CASE UNCHANGED vars BY <1>20 DEF vars
<1> QED
  BY <1>1, <1>2, <1>3, <1>4, <1>5, <1>7, <1>8, <1>9, <1>10, <1>11, <1>12, <1>13,
     <1>14, <1>15, <1>16, <1>17, <1>18, <1>19, <1>20
     DEF Next, Owner, Adder, Worker, IniRefused, DestroySleep

\* Every step keeps what the threads have in hand in line with where they are.
LEMMA InHandStep ==
  ASSUME TypeOK, InHand, Stages, [Next]_vars
  PROVE  InHand'
<1> USE ConstantsAssumption DEF TypeOK, Threads, OwnerPC, WorkerPC, ClientPC, InHand, Stages
<1>1. CASE IniStart BY <1>1 DEF IniStart
<1>2. ASSUME NEW w \in Workers, CreateWorker(w) PROVE InHand'
  BY <1>2 DEF CreateWorker
<1>3. ASSUME NEW t \in Threads, AddLock(t) PROVE InHand'
  BY <1>3 DEF AddLock
<1>4. ASSUME NEW t \in Threads, AddTask(t) PROVE InHand'
  BY <1>4 DEF AddTask
<1>15. ASSUME NEW t \in Threads, CountTask(t) PROVE InHand'
  BY <1>15 DEF CountTask
<1>5. ASSUME NEW t \in Threads, Signal(t) PROVE InHand'
  BY <1>5 DEF Signal
<1>6. ASSUME NEW t \in Threads, NEW k \in Tasks, Submit(t, k) PROVE InHand'
  BY <1>6 DEF Submit
<1>7. ASSUME NEW w \in Workers, Lock(w) PROVE InHand'
  BY <1>7 DEF Lock
<1>8. ASSUME NEW w \in Workers, Wait(w) PROVE InHand'
  BY <1>8 DEF Wait
<1>9. ASSUME NEW w \in Workers, Wake(w) PROVE InHand'
  BY <1>9 DEF Wake
<1>10. ASSUME NEW w \in Workers, SpuriousWake(w) PROVE InHand'
  BY <1>10 DEF SpuriousWake
<1>11. ASSUME NEW w \in Workers, Skip(w) PROVE InHand'
  BY <1>11 DEF Skip
<1>12. ASSUME NEW w \in Workers, Take(w) PROVE InHand'
  BY <1>12 DEF Take
<1>13. ASSUME NEW w \in Workers, HandlerEnd(w) PROVE InHand'
  BY <1>13 DEF HandlerEnd
<1>14. CASE UNCHANGED <<waiters, pc, cur, arg>> BY <1>14
<1> QED
  BY <1>1, <1>2, <1>3, <1>4, <1>5, <1>6, <1>7, <1>8, <1>9, <1>10, <1>11, <1>12, <1>13, <1>14, <1>15
     DEF Next, Owner, Adder, Worker, IniFinish, DestroyCall, DestroyPoll, DestroyFinish, IniRefused, DestroySleep, vars

\* Every step keeps the threads within what the owner's stage lets them do.
LEMMA StagesStep ==
  ASSUME TypeOK, InHand, Stages, [Next]_vars
  PROVE  Stages'
<1> USE ConstantsAssumption DEF TypeOK, Threads, OwnerPC, WorkerPC, ClientPC, InHand, Stages
<1>1. CASE IniStart BY <1>1 DEF IniStart
<1>2. CASE IniFinish BY <1>2 DEF IniFinish
<1>3. CASE DestroyCall BY <1>3 DEF DestroyCall
<1>4. CASE DestroyPoll BY <1>4 DEF DestroyPoll
<1>5. CASE DestroyFinish BY <1>5 DEF DestroyFinish
<1>6. ASSUME NEW w \in Workers, CreateWorker(w) PROVE Stages'
  BY <1>6 DEF CreateWorker
<1>7. ASSUME NEW t \in Threads, AddLock(t) PROVE Stages'
  BY <1>7 DEF AddLock
<1>8. ASSUME NEW t \in Threads, AddTask(t) PROVE Stages'
  BY <1>8 DEF AddTask
<1>18. ASSUME NEW t \in Threads, CountTask(t) PROVE Stages'
  BY <1>18 DEF CountTask
<1>9. ASSUME NEW t \in Threads, Signal(t) PROVE Stages'
  BY <1>9 DEF Signal
<1>10. ASSUME NEW t \in Threads, NEW k \in Tasks, Submit(t, k) PROVE Stages'
  BY <1>10 DEF Submit
<1>11. ASSUME NEW w \in Workers, Lock(w) PROVE Stages'
  BY <1>11 DEF Lock
<1>12. ASSUME NEW w \in Workers, Wait(w) PROVE Stages'
  BY <1>12 DEF Wait
<1>13. ASSUME NEW w \in Workers, Wake(w) PROVE Stages'
  BY <1>13 DEF Wake
<1>14. ASSUME NEW w \in Workers, Skip(w) PROVE Stages'
  BY <1>14 DEF Skip
<1>15. ASSUME NEW w \in Workers, Take(w) PROVE Stages'
  BY <1>15 DEF Take
<1>16. ASSUME NEW w \in Workers, HandlerEnd(w) PROVE Stages'
  BY <1>16 DEF HandlerEnd
<1>17. CASE UNCHANGED <<owner, isalive, taskQueue, pc>> BY <1>17
<1> QED
  BY <1>1, <1>2, <1>3, <1>4, <1>5, <1>6, <1>7, <1>8, <1>9, <1>10, <1>11, <1>12, <1>13, <1>14, <1>15, <1>16, <1>17, <1>18
     DEF Next, Owner, Adder, Worker, SpuriousWake, IniRefused, DestroySleep, vars

\* Every step keeps the lock with the one thread inside a critical section.
LEMMA MutualExclusionStep ==
  ASSUME TypeOK, Stages, MutualExclusion, [Next]_vars
  PROVE  MutualExclusion'
<1> USE ConstantsAssumption DEF TypeOK, Threads, OwnerPC, WorkerPC, ClientPC, Stages, MutualExclusion
<1>1. CASE IniStart BY <1>1 DEF IniStart
<1>2. ASSUME NEW w \in Workers, CreateWorker(w) PROVE MutualExclusion'
  BY <1>2 DEF CreateWorker
<1>3. ASSUME NEW t \in Threads, AddLock(t) PROVE MutualExclusion'
  BY <1>3 DEF AddLock
<1>4. ASSUME NEW t \in Threads, AddTask(t) PROVE MutualExclusion'
  BY <1>4 DEF AddTask
<1>14. ASSUME NEW t \in Threads, CountTask(t) PROVE MutualExclusion'
  BY <1>14 DEF CountTask
<1>5. ASSUME NEW t \in Threads, Signal(t) PROVE MutualExclusion'
  BY <1>5 DEF Signal
<1>6. ASSUME NEW t \in Threads, NEW k \in Tasks, Submit(t, k) PROVE MutualExclusion'
  BY <1>6 DEF Submit
<1>7. ASSUME NEW w \in Workers, Lock(w) PROVE MutualExclusion'
  BY <1>7 DEF Lock
<1>8. ASSUME NEW w \in Workers, Wait(w) PROVE MutualExclusion'
  BY <1>8 DEF Wait
<1>9. ASSUME NEW w \in Workers, Wake(w) PROVE MutualExclusion'
  BY <1>9 DEF Wake
<1>10. ASSUME NEW w \in Workers, Skip(w) PROVE MutualExclusion'
  BY <1>10 DEF Skip
<1>11. ASSUME NEW w \in Workers, Take(w) PROVE MutualExclusion'
  BY <1>11 DEF Take
<1>12. ASSUME NEW w \in Workers, HandlerEnd(w) PROVE MutualExclusion'
  BY <1>12 DEF HandlerEnd
<1>13. CASE UNCHANGED <<lock, pc>> BY <1>13
<1> QED
  BY <1>1, <1>2, <1>3, <1>4, <1>5, <1>6, <1>7, <1>8, <1>9, <1>10, <1>11, <1>12, <1>13, <1>14
     DEF Next, Owner, Adder, Worker, IniFinish, DestroyCall, DestroyPoll, DestroyFinish, SpuriousWake, IniRefused, DestroySleep, vars

-----------------------------------------------------------------------------
(* `ready` counts the queue, modulo its width. *)

\* The remainder of a division is the one number that fits.
LEMMA ModUnique ==
  ASSUME NEW n \in Nat \ {0}, NEW a \in Nat, NEW q \in Nat, NEW r \in 0..n-1,
         a = n * q + r
  PROVE  a % n = r
<1> DEFINE p == a \div n
           s == a % n
<1>1. n * p + s = n * q + r /\ s \in 0..n-1 /\ p \in Int
  BY SMT
<1> HIDE DEF p, s
<1>2. n * (p - q) = r - s
  BY <1>1
<1>3. CASE p > q
  <2>1. n * (p - q) >= n BY <1>1, <1>3
  <2> QED BY <2>1, <1>1, <1>2
<1>4. CASE p < q
  <2>1. n * (q - p) >= n BY <1>1, <1>4
  <2>2. n * (q - p) = s - r BY <1>1
  <2> QED BY <2>1, <2>2, <1>1
<1>5. CASE p = q
  BY <1>1, <1>5 DEF s
<1> QED BY <1>1, <1>3, <1>4, <1>5

\* The counter of add_task: counting up before or after the wrap is the same.
LEMMA ModSucc ==
  ASSUME NEW n \in Nat \ {0}, NEW a \in Nat
  PROVE  (a + 1) % n = ((a % n) + 1) % n
<1> DEFINE q == a \div n
           r == a % n
<1>1. a = n * q + r /\ q \in Nat /\ r \in 0..n-1
  BY SMT
<1> HIDE DEF q, r
<1>2. CASE r + 1 < n
  <2>1. a + 1 = n * q + (r + 1) /\ r + 1 = n * 0 + (r + 1) BY <1>1
  <2>2. (a + 1) % n = r + 1 BY <1>1, <1>2, <2>1, ModUnique
  <2>3. (r + 1) % n = r + 1 BY <1>1, <1>2, <2>1, ModUnique
  <2> QED BY <2>2, <2>3 DEF r
<1>3. CASE r + 1 = n
  <2>1. a + 1 = n * (q + 1) + 0 /\ r + 1 = n * 1 + 0 BY <1>1, <1>3
  <2>2. (a + 1) % n = 0 BY <1>1, <2>1, ModUnique
  <2>3. (r + 1) % n = 0 BY <1>1, <2>1, ModUnique
  <2> QED BY <2>2, <2>3 DEF r
<1> QED BY <1>1, <1>2, <1>3

\* The counter of thread_entry: counting down from a value that is not 0.
LEMMA ModPred ==
  ASSUME NEW n \in Nat \ {0}, NEW a \in Nat \ {0}, a % n # 0
  PROVE  (a - 1) % n = (a % n) - 1
<1> DEFINE q == a \div n
           r == a % n
<1>1. a = n * q + r /\ q \in Nat /\ r \in 0..n-1 /\ r # 0
  BY SMT
<1> HIDE DEF q, r
<1>2. a - 1 = n * q + (r - 1) /\ r - 1 \in 0..n-1 /\ a - 1 \in Nat
  BY <1>1
<1> QED BY <1>1, <1>2, ModUnique DEF r

\* A remainder is at most what was divided: wrapping only lowers `ready`.
LEMMA ModAtMost == ASSUME NEW n \in Nat \ {0}, NEW a \in Nat PROVE a % n <= a
<1> DEFINE q == a \div n
           r == a % n
<1>1. a = n * q + r /\ q \in Nat /\ r \in 0..n-1
  BY SMT
<1> HIDE DEF q, r
<1>2. n * q >= 0 BY <1>1
<1> QED BY <1>1, <1>2 DEF r

\* Zero has no remainder: an empty queue is counted as 0.
LEMMA ModZero == ASSUME NEW n \in Nat \ {0} PROVE 0 % n = 0
  BY SMT

\* Every step that changes the queue changes the count with it.
LEMMA ReadyCountsQueueStep ==
  ASSUME TypeOK, InHand, Stages, MutualExclusion, ReadyCountsQueue, [Next]_vars
  PROVE  ReadyCountsQueue'
<1> USE ConstantsAssumption DEF TypeOK, ReadyCountsQueue
<1>0. Len(taskQueue) \in Nat /\ Uncounted \in {0, 1} BY DEF Uncounted
\* A step of a thread that is not between the two lines.
<1>a. ASSUME NEW t \in Threads, pc[t] # "count", pc'[t] # "count",
             \A u \in Threads \ {t} : pc'[u] = pc[u]
      PROVE  Uncounted' = Uncounted
  BY <1>a DEF Uncounted
\* Nobody else is, when the lock is held.
<1>b. ASSUME NEW t \in Threads, lock = t
      PROVE  \A u \in Threads : pc[u] = "count" => u = t
  BY <1>b DEF MutualExclusion
<1>c. ASSUME Uncounted' = Uncounted, UNCHANGED <<ready, taskQueue>>,
             owner' \in {"up", "polling", "joining"} => owner \in {"up", "polling", "joining"}
      PROVE  ReadyCountsQueue'
  BY <1>c
<1>d. ASSUME UNCHANGED pc PROVE Uncounted' = Uncounted
  BY <1>d DEF Uncounted
<1>1. CASE IniStart BY <1>1 DEF IniStart
<1>2. CASE IniFinish
  <2>1. taskQueue' = <<>> /\ ready' = 0 BY <1>2 DEF IniFinish, Stages
  <2>2. Uncounted' = 0 BY <1>2 DEF Uncounted, IniFinish, Stages, Threads
  <2>3. (Len(taskQueue') - Uncounted') = 0 /\ Uncounted' <= Len(taskQueue')
    BY <2>1, <2>2
  <2> QED BY <2>1, <2>3, ModZero
<1>3. CASE DestroyCall BY <1>3, <1>c, <1>d DEF DestroyCall
<1>4. CASE DestroyPoll BY <1>4, <1>c, <1>d DEF DestroyPoll
<1>5. CASE DestroyFinish BY <1>5 DEF DestroyFinish
<1>6. ASSUME NEW t \in Threads, AddTask(t) PROVE ReadyCountsQueue'
  <2>1. pc[t] = "add" /\ pc'[t] = "count" /\ ready' = ready
        /\ taskQueue' = Append(taskQueue, arg[t]) /\ owner' = owner
    BY <1>6 DEF AddTask
  <2>2. Uncounted = 0
    BY <1>b, <2>1 DEF MutualExclusion, Uncounted
  <2>3. Uncounted' = 1 BY <2>1 DEF Uncounted
  <2>4. Len(taskQueue') = Len(taskQueue) + 1 BY <2>1, <1>6 DEF AddTask, InHand
  <2>5. Len(taskQueue') - Uncounted' = Len(taskQueue) - Uncounted
        /\ Uncounted' <= Len(taskQueue')
    BY <1>0, <2>2, <2>3, <2>4
  <2> QED BY <2>1, <2>5
<1>7. ASSUME NEW t \in Threads, CountTask(t) PROVE ReadyCountsQueue'
  <2> SUFFICES ASSUME owner' \in {"up", "polling", "joining"}
               PROVE  /\ Uncounted' <= Len(taskQueue')
                      /\ ready' = (Len(taskQueue') - Uncounted') % ReadyLimit
    OBVIOUS
  <2>1. /\ pc[t] = "count" /\ pc' = [pc EXCEPT ![t] = "signal"]
        /\ ready' = (ready + 1) % ReadyLimit
        /\ taskQueue' = taskQueue /\ owner' = owner
    BY <1>7 DEF CountTask
  <2>2. Uncounted = 1 BY <2>1 DEF Uncounted
  <2>3. Uncounted' = 0
    BY <1>b, <2>1 DEF MutualExclusion, Uncounted
  <2>4. ready = (Len(taskQueue) - 1) % ReadyLimit /\ Len(taskQueue) - 1 \in Nat
    BY <1>0, <2>1, <2>2
  <2>5. (Len(taskQueue) - 1) + 1 = Len(taskQueue) BY <1>0
  <2>6. ready' = Len(taskQueue) % ReadyLimit BY <2>1, <2>4, <2>5, ModSucc
  <2>7. Len(taskQueue') - Uncounted' = Len(taskQueue) /\ Uncounted' <= Len(taskQueue')
    BY <1>0, <2>1, <2>3
  <2> QED BY <2>6, <2>7
<1>8. ASSUME NEW w \in Workers, Take(w) PROVE ReadyCountsQueue'
  <2> SUFFICES ASSUME owner' \in {"up", "polling", "joining"}
               PROVE  /\ Uncounted' <= Len(taskQueue')
                      /\ ready' = (Len(taskQueue') - Uncounted') % ReadyLimit
    OBVIOUS
  <2>1. /\ pc[w] = "test" /\ pc' = [pc EXCEPT ![w] = "run"]
        /\ ready # 0
        /\ ready' = ready - 1
        /\ taskQueue # <<>>
        /\ taskQueue' = Tail(taskQueue) /\ owner' = owner
    BY <1>8 DEF Take
  <2>2. w \in Threads /\ lock = w BY <2>1 DEF MutualExclusion, Threads
  <2>3. Uncounted = 0 BY <1>b, <2>1, <2>2 DEF Uncounted
  <2>4. Uncounted' = Uncounted BY <1>a, <2>1, <2>2
  <2>5. Len(taskQueue') = Len(taskQueue) - 1 /\ Len(taskQueue) \in Nat \ {0}
    BY <2>1
  <2>6. ready = Len(taskQueue) % ReadyLimit BY <1>0, <2>1, <2>3
  <2>7. ready' = (Len(taskQueue) - 1) % ReadyLimit BY <2>1, <2>5, <2>6, ModPred
  <2> QED BY <1>0, <2>3, <2>4, <2>5, <2>7
<1>9. ASSUME NEW t \in Threads, AddLock(t) \/ Signal(t) \/ \E k \in Tasks : Submit(t, k)
      PROVE  ReadyCountsQueue'
  <2>1. /\ pc[t] # "count" /\ pc'[t] # "count" /\ \A u \in Threads \ {t} : pc'[u] = pc[u]
        /\ UNCHANGED <<ready, taskQueue, owner>>
    BY <1>9 DEF AddLock, Signal, Submit
  <2> QED BY <1>a, <1>c, <2>1
<1>10. ASSUME NEW w \in Workers, \/ CreateWorker(w) \/ Lock(w) \/ Wait(w) \/ Wake(w)
                                \/ Skip(w) \/ HandlerEnd(w)
      PROVE  ReadyCountsQueue'
  <2>1. /\ pc[w] # "count" /\ pc'[w] # "count" /\ \A u \in Threads \ {w} : pc'[u] = pc[u]
        /\ UNCHANGED <<ready, taskQueue, owner>> /\ w \in Threads
    BY <1>10 DEF CreateWorker, Lock, Wait, Wake, Skip, HandlerEnd, Threads
  <2> QED BY <1>a, <1>c, <2>1
<1>11. CASE UNCHANGED <<owner, ready, taskQueue, pc>> BY <1>11, <1>c, <1>d
<1> QED
  BY <1>1, <1>2, <1>3, <1>4, <1>5, <1>6, <1>7, <1>8, <1>9, <1>10, <1>11
     DEF Next, Owner, Adder, Worker, IniRefused, DestroySleep, SpuriousWake, vars

-----------------------------------------------------------------------------
(* Every task is in one place. *)

\* Linking a node that is not in the list.
LEMMA LinkInjective ==
  ASSUME NEW S, NEW s \in Seq(S), NEW e \in S,
         IsInjective(s), e \notin Range(s)
  PROVE  /\ IsInjective(Append(s, e))
         /\ Range(Append(s, e)) = Range(s) \cup {e}
<1>1. /\ Len(Append(s, e)) = Len(s) + 1 /\ Len(s) \in Nat
      /\ \A i \in 1..Len(s) : Append(s, e)[i] = s[i]
      /\ Append(s, e)[Len(s) + 1] = e
  OBVIOUS
<1>2. 1..Len(s)+1 = (1..Len(s)) \cup {Len(s)+1}
  BY <1>1
<1> HIDE DEF Range
<1>3. IsInjective(Append(s, e))
  BY <1>1, <1>2 DEF IsInjective, Range
<1>4. Range(Append(s, e)) = Range(s) \cup {e}
  BY <1>1, <1>2 DEF Range
<1> QED BY <1>3, <1>4

\* Unlinking the first node of the list.
LEMMA UnlinkInjective ==
  ASSUME NEW S, NEW s \in Seq(S), s # <<>>, IsInjective(s)
  PROVE  /\ IsInjective(Tail(s))
         /\ Head(s) \in Range(s)
         /\ Range(Tail(s)) = Range(s) \ {Head(s)}
<1>1. /\ Len(Tail(s)) = Len(s) - 1 /\ Len(s) \in Nat \ {0}
      /\ \A i \in 1..Len(s)-1 : Tail(s)[i] = s[i+1]
      /\ Head(s) = s[1]
  OBVIOUS
<1>2. IsInjective(Tail(s)) /\ Head(s) \in Range(s)
  BY <1>1 DEF IsInjective, Range
<1>3. ASSUME NEW x \in Range(Tail(s)) PROVE x \in Range(s) \ {Head(s)}
  BY <1>1 DEF IsInjective, Range
<1>4. ASSUME NEW x \in Range(s) \ {Head(s)} PROVE x \in Range(Tail(s))
  <2>1. PICK i \in 1..Len(s) : x = s[i] BY DEF Range
  <2>2. i - 1 \in 1..Len(s)-1 BY <1>1, <1>4, <2>1
  <2>3. i - 1 \in DOMAIN Tail(s) /\ Tail(s)[i-1] = x BY <1>1, <2>1, <2>2
  <2> QED BY <2>3 DEF Range
<1> QED BY <1>2, <1>3, <1>4

\* Taking a new task in an empty hand, and putting it down.
LEMMA HoldTask ==
  ASSUME NEW f, NEW d \in DOMAIN f, NEW v, NEW g, g = [f EXCEPT ![d] = v],
         HeldOnce(f), f[d] = None, v # None, v \notin Held(f)
  PROVE  HeldOnce(g) /\ Held(g) = Held(f) \cup {v}
<1>1. DOMAIN g = DOMAIN f /\ g[d] = v /\ \A x \in DOMAIN f \ {d} : g[x] = f[x]
  OBVIOUS
<1>2. HeldOnce(g) BY <1>1 DEF HeldOnce, Held, Range
<1>3. Held(g) = Held(f) \cup {v} BY <1>1 DEF Held, Range
<1> QED BY <1>2, <1>3

\* A task that one thread puts down is held by no other.
LEMMA DropTask ==
  ASSUME NEW f, NEW d \in DOMAIN f, NEW g, g = [f EXCEPT ![d] = None],
         HeldOnce(f)
  PROVE  HeldOnce(g) /\ Held(g) = Held(f) \ {f[d]}
<1>1. DOMAIN g = DOMAIN f /\ g[d] = None /\ \A x \in DOMAIN f \ {d} : g[x] = f[x]
  OBVIOUS
<1>2. HeldOnce(g) BY <1>1 DEF HeldOnce
<1>3. Held(g) = Held(f) \ {f[d]} BY <1>1 DEF Held, HeldOnce, Range
<1> QED BY <1>2, <1>3

\* Where the tasks are after each of the actions that move one.
LEMMA PlacesSubmit ==
  ASSUME TypeOK, InHand, TaskInOnePlace,
         NEW t \in Threads, NEW k \in Tasks, Submit(t, k)
  PROVE  /\ HeldOnce(arg') /\ Submitting' = Submitting \cup {k}
         /\ UNCHANGED <<taskQueue, cur>>
<1>1. /\ t \in DOMAIN arg /\ k # None /\ arg' = [arg EXCEPT ![t] = k]
      /\ arg[t] = None /\ k \notin Held(arg) /\ HeldOnce(arg)
  BY ConstantsAssumption
     DEF TypeOK, Submit, InHand, Threads, TaskInOnePlace, Submitting
<1> QED BY <1>1, HoldTask DEF Submit, Submitting

\* Adding moves a task from its caller to the queue, and nowhere else.
LEMMA PlacesAddTask ==
  ASSUME TypeOK, InHand, TaskInOnePlace, NEW t \in Threads, AddTask(t)
  PROVE  /\ arg[t] \in Submitting
         /\ HeldOnce(arg') /\ Submitting' = Submitting \ {arg[t]}
         /\ IsInjective(taskQueue') /\ Queued' = Queued \cup {arg[t]}
         /\ UNCHANGED cur
<1>1. /\ t \in DOMAIN arg /\ arg' = [arg EXCEPT ![t] = None]
      /\ taskQueue \in Seq(Tasks) /\ arg[t] \in Tasks /\ arg[t] # None
      /\ taskQueue' = Append(taskQueue, arg[t])
  BY ConstantsAssumption DEF TypeOK, InHand, AddTask
<1>2. arg[t] \in Submitting BY <1>1 DEF Submitting, Held, Range
<1>3. /\ HeldOnce(arg) /\ IsInjective(taskQueue)
      /\ arg[t] \notin Range(taskQueue)
  BY <1>2 DEF TaskInOnePlace, Queued
<1>4. HeldOnce(arg') /\ Submitting' = Submitting \ {arg[t]}
  BY <1>1, <1>3, DropTask DEF Submitting
<1>5. IsInjective(taskQueue') /\ Queued' = Queued \cup {arg[t]}
  BY <1>1, <1>3, LinkInjective DEF Queued
<1> QED BY <1>2, <1>4, <1>5 DEF AddTask

\* Taking moves the first task from the queue to one worker.
LEMMA PlacesTake ==
  ASSUME TypeOK, InHand, TaskInOnePlace, NEW w \in Workers, Take(w)
  PROVE  /\ Head(taskQueue) \in Queued
         /\ HeldOnce(cur') /\ Running' = Running \cup {Head(taskQueue)}
         /\ IsInjective(taskQueue') /\ Queued' = Queued \ {Head(taskQueue)}
         /\ UNCHANGED arg
<1> DEFINE k == Head(taskQueue)
<1>1. /\ w \in DOMAIN cur /\ cur' = [cur EXCEPT ![w] = k] /\ cur[w] = None
      /\ taskQueue \in Seq(Tasks) /\ taskQueue # <<>>
      /\ taskQueue' = Tail(taskQueue) /\ k # None
  BY ConstantsAssumption DEF TypeOK, InHand, Take
<1> HIDE DEF k
<1>2. IsInjective(taskQueue) /\ HeldOnce(cur)
  BY DEF TaskInOnePlace
<1>3. k \in Queued /\ IsInjective(taskQueue') /\ Queued' = Queued \ {k}
  BY <1>1, <1>2, UnlinkInjective DEF Queued, k
<1>4. k \notin Running
  BY <1>3 DEF TaskInOnePlace
<1>5. HeldOnce(cur') /\ Running' = Running \cup {k}
  BY <1>1, <1>2, <1>4, HoldTask DEF Running
<1> QED BY <1>3, <1>5 DEF Take, k

\* A handler that ends lets go of its task.
LEMMA PlacesHandlerEnd ==
  ASSUME TypeOK, InHand, TaskInOnePlace, NEW w \in Workers, HandlerEnd(w)
  PROVE  /\ cur[w] \in Running
         /\ HeldOnce(cur') /\ Running' = Running \ {cur[w]}
         /\ UNCHANGED <<taskQueue, arg>>
<1>1. /\ w \in DOMAIN cur /\ cur' = [cur EXCEPT ![w] = None] /\ cur[w] # None
      /\ HeldOnce(cur)
  BY DEF TypeOK, InHand, HandlerEnd, TaskInOnePlace
<1>2. cur[w] \in Running BY <1>1 DEF Running, Held, Range
<1> QED BY <1>1, <1>2, DropTask DEF HandlerEnd, Running

\* Every step keeps each task in one place.
LEMMA TaskInOnePlaceStep ==
  ASSUME TypeOK, InHand, TaskInOnePlace, [Next]_vars
  PROVE  TaskInOnePlace'
<1>1. CASE IniStart
  <2>1. taskQueue' = <<>> /\ UNCHANGED <<cur, arg>> BY <1>1 DEF IniStart
  <2>2. Queued' = {} /\ IsInjective(taskQueue')
    BY <2>1 DEF Queued, Range, IsInjective
  <2> QED
    BY <2>1, <2>2 DEF TaskInOnePlace, Running, Submitting
<1>2. ASSUME NEW t \in Threads, NEW k \in Tasks, Submit(t, k)
      PROVE  TaskInOnePlace'
  <2>1. k \notin Queued \cup Running BY <1>2 DEF Submit
  <2> QED BY <1>2, <2>1, PlacesSubmit DEF TaskInOnePlace, Queued, Running
<1>3. ASSUME NEW t \in Threads, AddTask(t) PROVE TaskInOnePlace'
  <2> HIDE DEF Queued, Submitting
  <2> QED BY <1>3, PlacesAddTask DEF TaskInOnePlace, Running
<1>4. ASSUME NEW w \in Workers, Take(w) PROVE TaskInOnePlace'
  BY <1>4, PlacesTake DEF TaskInOnePlace, Submitting
<1>5. ASSUME NEW w \in Workers, HandlerEnd(w) PROVE TaskInOnePlace'
  BY <1>5, PlacesHandlerEnd DEF TaskInOnePlace, Queued, Submitting
<1>6. CASE UNCHANGED <<taskQueue, cur, arg>>
  BY <1>6 DEF TaskInOnePlace, Queued, Running, Submitting
<1> QED
  BY <1>1, <1>2, <1>3, <1>4, <1>5, <1>6
     DEF Next, Owner, Adder, Worker, IniFinish, IniRefused, CreateWorker,
         DestroyCall, DestroyPoll, DestroySleep, DestroyFinish, AddLock,
         CountTask, Signal, Lock, Wait, Wake, SpuriousWake, Skip, vars

-----------------------------------------------------------------------------
(* No wake-up is lost. *)

\* Both counts of NoLostWakeup are numbers.
LEMMA CountsFinite ==
  ASSUME TypeOK
  PROVE  /\ IsFiniteSet(Heading) /\ Cardinality(Heading) \in Nat
         /\ IsFiniteSet(Signalling) /\ Cardinality(Signalling) \in Nat
<1>1. IsFiniteSet(Workers) /\ IsFiniteSet(Threads)
  BY ConstantsAssumption, FS_Union DEF Threads
<1>2. Heading \subseteq Workers /\ Signalling \subseteq Threads
  BY DEF Heading, Signalling
<1> QED BY <1>1, <1>2, FS_Subset, FS_CardinalityType

\* The step lemma counts on what each action does to the two sets.
LEMMA NoLostWakeupStep ==
  ASSUME TypeOK, TypeOK', InHand, Stages, NoLostWakeup, [Next]_vars
  PROVE  NoLostWakeup'
<1> USE DEF NoLostWakeup
<1>a. /\ IsFiniteSet(Heading) /\ Cardinality(Heading) \in Nat
      /\ IsFiniteSet(Signalling) /\ Cardinality(Signalling) \in Nat
      /\ ready \in Nat
  BY CountsFinite DEF TypeOK
<1>b. /\ IsFiniteSet(Heading') /\ Cardinality(Heading') \in Nat
      /\ IsFiniteSet(Signalling') /\ Cardinality(Signalling') \in Nat
      /\ ready' \in Nat
  <2>1. IsFiniteSet(Workers) /\ IsFiniteSet(Threads)
    BY ConstantsAssumption, FS_Union DEF Threads
  <2>2. Heading' \subseteq Workers /\ Signalling' \subseteq Threads
    BY DEF Heading, Signalling
  <2> QED BY <2>1, <2>2, FS_Subset, FS_CardinalityType DEF TypeOK
\* Nobody stops heading for the queue and no signal is used up.
<1>c. ASSUME Heading \subseteq Heading', Signalling \subseteq Signalling',
             ready' <= ready, waiters' # {} => waiters # {}
      PROVE  NoLostWakeup'
  <2>1. /\ Cardinality(Heading) <= Cardinality(Heading')
        /\ Cardinality(Signalling) <= Cardinality(Signalling')
    BY <1>b, <1>c, FS_Subset
  <2> QED BY <2>1, <1>a, <1>b, <1>c
<1> USE ConstantsAssumption DEF Heading, Signalling, TypeOK, Threads
<1>1. CASE IniStart
  <2>1. waiters' = {} BY <1>1 DEF IniStart, Stages, InHand
  <2> QED BY <2>1
<1>2. CASE IniFinish
  <2>1. ready' = 0 BY <1>2 DEF IniFinish
  <2> QED BY <2>1, <1>b DEF IniFinish
<1>3. ASSUME NEW w \in Workers, CreateWorker(w) PROVE NoLostWakeup'
  BY <1>3, <1>a, <1>c DEF CreateWorker
<1>4. ASSUME NEW t \in Threads, AddLock(t) PROVE NoLostWakeup'
  BY <1>4, <1>a, <1>c DEF AddLock
<1>16. ASSUME NEW t \in Threads, AddTask(t) PROVE NoLostWakeup'
  BY <1>16, <1>a, <1>c DEF AddTask
<1>5. ASSUME NEW t \in Threads, CountTask(t) PROVE NoLostWakeup'
  <2>1. /\ Heading' = Heading /\ Signalling' = Signalling \cup {t}
        /\ t \notin Signalling /\ UNCHANGED waiters
    BY <1>5 DEF CountTask
  <2> HIDE DEF Heading, Signalling
  <2>2. Cardinality(Signalling') = Cardinality(Signalling) + 1
    BY <2>1, <1>a, FS_AddElement
  <2>3. ready' <= ready + 1
    <3>1. ready' = (ready + 1) % ReadyLimit BY <1>5 DEF CountTask
    <3>2. ready + 1 \in Nat /\ ReadyLimit \in Nat \ {0} BY <1>a
    <3> QED BY <3>1, <3>2, ModAtMost
  <2> QED BY <2>1, <2>2, <2>3, <1>a, <1>b
<1>6. ASSUME NEW t \in Threads, Signal(t) PROVE NoLostWakeup'
  <2>1. CASE waiters' = {} BY <2>1
  <2>2. CASE waiters' # {}
    <3>1. PICK w \in waiters : waiters' = waiters \ {w}
      BY <1>6, <2>2 DEF Signal
    <3>2. /\ Heading' = Heading \cup {w} /\ w \notin Heading
          /\ Signalling' = Signalling \ {t} /\ t \in Signalling
          /\ ready' = ready /\ waiters # {}
      BY <1>6, <3>1 DEF Signal, InHand
    <3> HIDE DEF Heading, Signalling
    <3>3. /\ Cardinality(Heading') = Cardinality(Heading) + 1
          /\ Cardinality(Signalling') = Cardinality(Signalling) - 1
      BY <3>2, <1>a, FS_AddElement, FS_RemoveElement
    <3> QED BY <3>2, <3>3, <1>a
  <2> QED BY <2>1, <2>2
<1>7. ASSUME NEW t \in Threads, NEW k \in Tasks, Submit(t, k)
      PROVE  NoLostWakeup'
  BY <1>7, <1>a, <1>c DEF Submit
<1>8. ASSUME NEW w \in Workers, Lock(w) PROVE NoLostWakeup'
  BY <1>8, <1>a, <1>c DEF Lock
<1>9. ASSUME NEW w \in Workers, Wait(w) PROVE NoLostWakeup'
  <2>1. ready' = 0 BY <1>9 DEF Wait
  <2> QED BY <2>1, <1>b
<1>10. ASSUME NEW w \in Workers, Wake(w) PROVE NoLostWakeup'
  BY <1>10, <1>a, <1>c DEF Wake
<1>11. ASSUME NEW w \in Workers, SpuriousWake(w) PROVE NoLostWakeup'
  BY <1>11, <1>a, <1>c DEF SpuriousWake
<1>12. ASSUME NEW w \in Workers, Skip(w) PROVE NoLostWakeup'
  BY <1>12, <1>a, <1>c DEF Skip
<1>13. ASSUME NEW w \in Workers, Take(w) PROVE NoLostWakeup'
  <2>1. /\ Heading' = Heading \ {w} /\ w \in Heading
        /\ Signalling' = Signalling
        /\ ready' = ready - 1 /\ UNCHANGED waiters
    BY <1>13 DEF Take
  <2> HIDE DEF Heading, Signalling
  <2>2. Cardinality(Heading') = Cardinality(Heading) - 1
    BY <2>1, <1>a, FS_RemoveElement
  <2> QED BY <2>1, <2>2, <1>a
<1>14. ASSUME NEW w \in Workers, HandlerEnd(w) PROVE NoLostWakeup'
  BY <1>14, <1>a, <1>c DEF HandlerEnd
<1>15. CASE UNCHANGED <<ready, waiters, pc>>
  BY <1>15
<1> QED
  BY <1>1, <1>2, <1>3, <1>4, <1>5, <1>6, <1>7, <1>8, <1>9, <1>10, <1>11,
     <1>12, <1>13, <1>14, <1>15, <1>16
     DEF Next, Owner, Adder, Worker, IniRefused, DestroyCall, DestroyPoll,
         DestroySleep, DestroyFinish, vars

-----------------------------------------------------------------------------
(* The theorems. *)

\* The inductive invariant.
IInv ==
  /\ TypeOK /\ InHand /\ Stages
  /\ MutualExclusion /\ ReadyCountsQueue /\ TaskInOnePlace /\ NoLostWakeup

\* The invariant holds before the first thread_pool_ini.
LEMMA IInvInit == Init => IInv
<1> SUFFICES ASSUME Init PROVE IInv
  OBVIOUS
<1> USE ConstantsAssumption DEF Init, Threads
<1>1. TypeOK BY TypeOKInit
<1>2. InHand /\ Stages BY DEF InHand, Stages
<1>3. MutualExclusion /\ ReadyCountsQueue /\ NoLostWakeup
  BY DEF MutualExclusion, ReadyCountsQueue, NoLostWakeup
<1>4. TaskInOnePlace
  BY DEF TaskInOnePlace, IsInjective, HeldOnce, Held, Range, Queued, Running,
         Submitting
<1> QED BY <1>1, <1>2, <1>3, <1>4 DEF IInv

\* The invariant is inductive.
LEMMA IInvStep == IInv /\ [Next]_vars => IInv'
<1> SUFFICES ASSUME IInv, [Next]_vars PROVE IInv'
  OBVIOUS
<1>1. TypeOK' BY TypeOKStep DEF IInv
<1>2. InHand' BY InHandStep DEF IInv
<1>3. Stages' BY StagesStep DEF IInv
<1>4. MutualExclusion' BY MutualExclusionStep DEF IInv
<1>5. ReadyCountsQueue' BY ReadyCountsQueueStep DEF IInv
<1>6. TaskInOnePlace' BY TaskInOnePlaceStep DEF IInv
<1>7. NoLostWakeup' BY <1>1, NoLostWakeupStep DEF IInv
<1> QED BY <1>1, <1>2, <1>3, <1>4, <1>5, <1>6, <1>7 DEF IInv

\* The invariant holds in every state.
LEMMA Invariance == Spec => []IInv
  BY IInvInit, IInvStep, PTL DEF Spec

\* Every variable keeps its type, so the counter `ready` never leaves the
\* range of its uint8_t: thread_entry never counts it down from 0.
THEOREM TypeCorrect == Spec => []TypeOK
  BY Invariance, PTL DEF IInv

\* queue_lock protects the queue and the counter: a thread is in a critical
\* section of thread_entry or add_task exactly when it holds the lock.
THEOREM Exclusive == Spec => []MutualExclusion
  BY Invariance, PTL DEF IInv

\* The counter the workers test agrees with the queue they take from once
\* ini has returned, whatever its width.
THEOREM Counted == Spec => []ReadyCountsQueue
  BY Invariance, PTL DEF IInv

\* No task_t is linked twice, run twice, or linked while it runs.
THEOREM OnePlace == Spec => []TaskInOnePlace
  BY Invariance, PTL DEF IInv

\* No signal of add_task is lost although it is sent after the unlock.
THEOREM WakeupKept == Spec => []NoLostWakeup
  BY Invariance, PTL DEF IInv

-----------------------------------------------------------------------------
(* The pool implements TaskPool. *)

\* Every step is one of TaskPool's or changes nothing that it sees.
LEMMA PoolStep ==
  ASSUME IInv, [Next]_vars
  PROVE  [Pool!Next]_Pool!vars
<1> USE DEF IInv
<1>1. CASE IniStart
  <2>1. Running = {}
    <3>1. \A w \in Workers : cur[w] = None
      BY <1>1 DEF IniStart, Stages, InHand
    <3> QED BY <3>1 DEF Running, Held, Range, TypeOK
  <2>2. taskQueue' = <<>> /\ Running' = Running BY <1>1 DEF IniStart, Running
  <2> QED BY <2>1, <2>2 DEF Pool!Next, Pool!Reset
<1>2. ASSUME NEW t \in Threads, AddTask(t) PROVE Pool!Submit(arg[t])
  <2>1. taskQueue' = Append(taskQueue, arg[t]) /\ Running' = Running
    BY <1>2 DEF AddTask, Running
  <2>2. arg[t] \in Submitting BY <1>2, PlacesAddTask
  <2>3. arg[t] \notin Queued \cup Running BY <2>2 DEF TaskInOnePlace
  <2> QED BY <2>1, <2>3 DEF Pool!Submit, Pool!Range, Queued, Range
<1>3. ASSUME NEW t \in Threads, AddTask(t) PROVE arg[t] \in Tasks
  BY <1>3 DEF AddTask, InHand, TypeOK
<1>4. ASSUME NEW w \in Workers, Take(w) PROVE Pool!Start
  <2>1. Running' = Running \cup {Head(taskQueue)} BY <1>4, PlacesTake
  <2> QED BY <1>4, <2>1 DEF Take, Pool!Start
<1>5. ASSUME NEW w \in Workers, HandlerEnd(w)
      PROVE  cur[w] \in Tasks /\ Pool!Finish(cur[w])
  <2>1. /\ cur[w] \in Running /\ Running' = Running \ {cur[w]}
        /\ UNCHANGED taskQueue
    BY <1>5, PlacesHandlerEnd
  <2>2. cur[w] \in Tasks BY <1>5 DEF HandlerEnd, InHand, TypeOK
  <2> QED BY <2>1, <2>2 DEF Pool!Finish
<1>6. CASE UNCHANGED <<taskQueue, cur>>
  BY <1>6 DEF Pool!vars, Running
<1> QED
  BY <1>1, <1>2, <1>3, <1>4, <1>5, <1>6
     DEF Next, Owner, Adder, Worker, IniFinish, IniRefused, CreateWorker,
         DestroyCall, DestroyPoll, DestroySleep, DestroyFinish, Submit,
         AddLock, CountTask, Signal, Lock, Wait, Wake, SpuriousWake, Skip, vars, Pool!Next

\* The queue and the workers are a TaskPool: every task that was added is
\* started at most once, in the order of the calls that added it, and the
\* only tasks dropped are those a restart of an idle pool finds queued.
THEOREM ImplementsTaskPool == Spec => PoolSpec
<1>1. Init => Pool!Init
  BY ConstantsAssumption DEF Init, Pool!Init, Running, Held, Range
<1>2. IInv /\ [Next]_vars => [Pool!Next]_Pool!vars
  BY PoolStep
<1> QED BY <1>1, <1>2, Invariance, PTL DEF Spec, PoolSpec, Pool!Spec

-----------------------------------------------------------------------------
(* thread_pool_destory *)

\* The queue is no longer than the tasks there are.
LEMMA QueueLength ==
  ASSUME TypeOK, TaskInOnePlace, IsFiniteSet(Tasks)
  PROVE  Len(taskQueue) \in Nat /\ Len(taskQueue) <= Cardinality(Tasks)
<1>1. taskQueue \in Seq(Tasks) /\ Len(taskQueue) \in Nat
  BY DEF TypeOK
<1>2. taskQueue \in Injection(1..Len(taskQueue), Tasks)
  BY <1>1 DEF TaskInOnePlace, Injection
<1>3. Cardinality(1..Len(taskQueue)) = Len(taskQueue)
  <2>1. 1 \in Int /\ Len(taskQueue) \in Int BY <1>1
  <2>2. Cardinality(1..Len(taskQueue)) =
          IF 1 > Len(taskQueue) THEN 0 ELSE Len(taskQueue) - 1 + 1
    BY <2>1, FS_Interval, Zenon
  <2> QED BY <1>1, <2>2
<1>4. Cardinality(1..Len(taskQueue)) <= Cardinality(Tasks)
  BY <1>2, FS_Injection
<1> QED BY <1>1, <1>3, <1>4

\* As long as the tasks in existence fit the counter, destory goes on to the
\* joins only when every task whose add_task has given the lock back is taken:
\* the unlocked read of `ready` can miss no more than the one task that a
\* handler has linked and not counted yet.
THEOREM DrainedWhenItFits ==
  ASSUME IsFiniteSet(Tasks), Cardinality(Tasks) < ReadyLimit
  PROVE  Spec => DrainedAtJoin
<1>1. IInv /\ [Next]_vars =>
        [owner = "polling" /\ owner' = "joining" => Len(taskQueue) = Uncounted]_vars
  <2> SUFFICES ASSUME IInv, [Next]_vars, owner = "polling", owner' = "joining"
               PROVE  Len(taskQueue) = Uncounted
    OBVIOUS
  <2>1. DestroyPoll
    BY DEF Next, Owner, Adder, Worker, IniStart, IniFinish, IniRefused,
           CreateWorker, DestroyCall, DestroySleep, DestroyFinish, Submit,
           AddLock, AddTask, CountTask, Signal, Lock, Wait, Wake, SpuriousWake,
           Skip, Take, HandlerEnd, vars
  <2> DEFINE n == Len(taskQueue) - Uncounted
  <2>2. n % ReadyLimit = 0 /\ n \in Nat /\ n <= Len(taskQueue) /\ Uncounted \in {0, 1}
    BY <2>1 DEF DestroyPoll, IInv, TypeOK, ReadyCountsQueue, Uncounted
  <2>3. Len(taskQueue) \in Nat /\ n < ReadyLimit
    <3>1. /\ Len(taskQueue) \in Nat /\ Len(taskQueue) <= Cardinality(Tasks)
          /\ Cardinality(Tasks) \in Nat /\ ReadyLimit \in Nat
      BY QueueLength, FS_CardinalityType, ConstantsAssumption DEF IInv
    <3> QED BY <2>2, <3>1
  <2> HIDE DEF n
  <2>4. n = ReadyLimit * 0 + n BY <2>2, ConstantsAssumption
  <2>5. n = 0 BY <2>2, <2>3, <2>4, ModUnique, ConstantsAssumption
  <2> QED BY <2>2, <2>3, <2>5 DEF n
<1> QED BY <1>1, Invariance, PTL DEF Spec, DrainedAtJoin

\* A pool that is up does not go down.
StaysAlive == [][isalive = 1 => isalive' = 1]_vars

\* When every thread is created and no handler ends its thread, no worker
\* ever leaves the loop of thread_entry, so the joins of destory do not
\* return and the pool stays alive for ever: destory never completes.
THEOREM NeverDown ==
  ASSUME ExitTasks = {}, CreateMayFail = FALSE
  PROVE  Spec => StaysAlive
<1> DEFINE Inside == \A w \in Workers : pc[w] \notin {"failed", "exited"}
<1>1. Init => Inside
  BY ConstantsAssumption DEF Init, Threads
<1>2. IInv /\ Inside /\ [Next]_vars => Inside'
  BY ConstantsAssumption
     DEF IInv, TypeOK, Threads, Next, Owner, Adder, Worker, IniStart,
         IniFinish, IniRefused, CreateWorker, DestroyCall, DestroyPoll,
         DestroySleep, DestroyFinish, Submit, AddLock, AddTask, CountTask, Signal, Lock,
         Wait, Wake, SpuriousWake, Skip, Take, HandlerEnd, vars
<1>3. IInv /\ Inside /\ [Next]_vars => [isalive = 1 => isalive' = 1]_vars
  BY ConstantsAssumption
     DEF Next, Owner, Adder, Worker, IniStart,
         IniFinish, IniRefused, CreateWorker, DestroyCall, DestroyPoll,
         DestroySleep, DestroyFinish, Submit, AddLock, AddTask, CountTask, Signal, Lock,
         Wait, Wake, SpuriousWake, Skip, Take, HandlerEnd, vars
<1> QED BY <1>1, <1>2, <1>3, Invariance, PTL DEF Spec, StaysAlive

-----------------------------------------------------------------------------
(* The pool over its list *)

\* list_add_tail puts a new node behind the last one.
LEMMA AddTailChains ==
  ASSUME NEW l \in Q!Lists, NEW s \in Seq(Tasks), NEW k \in Tasks,
         IsInjective(s), k \notin Range(s), Q!Chains(l, s)
  PROVE  Q!AddTail(l, k) \in Q!Lists /\ Q!Chains(Q!AddTail(l, k), Append(s, k))
<1> USE RootAssumption
<1> DEFINE m == Q!AddTail(l, k)
           t == Append(s, k)
           p == Q!Nth(s, Len(s))
<1>1. l.prev[Root] = p /\ p \in Q!Links /\ p # k
  <2>1. l.prev[Q!Nth(s, Len(s) + 1)] = p BY DEF Q!Chains
  <2>2. Q!Nth(s, Len(s) + 1) = Root BY DEF Q!Nth
  <2> QED BY <2>1, <2>2 DEF Q!Nth, Q!Links, Range
<1>2. m = [next |-> [l.next EXCEPT ![k] = Root, ![p] = k],
           prev |-> [l.prev EXCEPT ![Root] = k, ![k] = p]]
  BY <1>1 DEF Q!AddTail, Q!ListAdd
<1>3. m \in Q!Lists
  <2>1. k \in Q!Links /\ Root \in Q!Links BY DEF Q!Links
  <2>2. /\ l.next \in [Q!Links -> Q!Links \cup {None}]
        /\ l.prev \in [Q!Links -> Q!Links \cup {None}]
    BY DEF Q!Lists
  <2>3. [l.next EXCEPT ![k] = Root, ![p] = k] \in [Q!Links -> Q!Links \cup {None}]
    <3> HIDE DEF p
    <3> QED BY <1>1, <2>1, <2>2
  <2>4. [l.prev EXCEPT ![Root] = k, ![k] = p] \in [Q!Links -> Q!Links \cup {None}]
    <3> HIDE DEF p
    <3> QED BY <1>1, <2>1, <2>2
  <2> QED BY <1>2, <2>3, <2>4 DEF Q!Lists
<1>4. ASSUME NEW i \in 0..Len(t)
      PROVE  m.next[Q!Nth(t, i)] = Q!Nth(t, i + 1) /\ m.prev[Q!Nth(t, i + 1)] = Q!Nth(t, i)
  <2>1. CASE i < Len(s)
    <3>1. Q!Nth(t, i) = Q!Nth(s, i) /\ Q!Nth(t, i + 1) = Q!Nth(s, i + 1)
      BY <2>1 DEF Q!Nth
    <3>2. Q!Nth(s, i) \in Q!Links /\ Q!Nth(s, i) # k /\ Q!Nth(s, i) # p
      BY <2>1 DEF Q!Nth, Q!Links, Range, IsInjective
    <3>3. Q!Nth(s, i + 1) \in Tasks /\ Q!Nth(s, i + 1) # k
      BY <2>1 DEF Q!Nth, Range
    <3>4. l.next[Q!Nth(s, i)] = Q!Nth(s, i + 1) /\ l.prev[Q!Nth(s, i + 1)] = Q!Nth(s, i)
      BY <2>1 DEF Q!Chains
    <3> QED BY <1>2, <3>1, <3>2, <3>3, <3>4 DEF Q!Lists, Q!Links
  <2>2. CASE i = Len(s)
    <3>1. Q!Nth(t, i) = p /\ Q!Nth(t, i + 1) = k BY <2>2 DEF Q!Nth
    <3> QED BY <1>1, <1>2, <3>1 DEF Q!Lists, Q!Links
  <2>3. CASE i = Len(s) + 1
    <3>1. Q!Nth(t, i) = k /\ Q!Nth(t, i + 1) = Root BY <2>3 DEF Q!Nth
    <3> QED BY <1>1, <1>2, <3>1 DEF Q!Lists, Q!Links
  <2> QED BY <2>1, <2>2, <2>3
<1> QED BY <1>3, <1>4 DEF Q!Chains

\* queue_del_first takes the first node out.
LEMMA DelFirstChains ==
  ASSUME NEW l \in Q!Lists, NEW s \in Seq(Tasks), s # <<>>,
         IsInjective(s), Q!Chains(l, s)
  PROVE  Q!DelFirst(l) \in Q!Lists /\ Q!Chains(Q!DelFirst(l), Tail(s))
<1> USE RootAssumption
<1> DEFINE m == Q!DelFirst(l)
           t == Tail(s)
           e == s[1]
           n == Q!Nth(s, 2)
<1>1. Len(s) \in Nat /\ Len(s) >= 1 /\ Len(t) = Len(s) - 1
      /\ \A i \in 1..Len(t) : t[i] = s[i + 1]
  OBVIOUS
<1>2. /\ l.next[Root] = e /\ l.prev[e] = Root
      /\ l.next[e] = n /\ l.prev[n] = e
      /\ e \in Tasks /\ n \in Q!Links /\ n # e
  <2>1. Q!Nth(s, 0) = Root /\ Q!Nth(s, 1) = e /\ 0 + 1 = 1 /\ 1 + 1 = 2
    BY <1>1 DEF Q!Nth
  <2>2. l.next[Q!Nth(s, 0)] = Q!Nth(s, 0 + 1) /\ l.prev[Q!Nth(s, 0 + 1)] = Q!Nth(s, 0)
    BY <1>1 DEF Q!Chains
  <2>3. l.next[Q!Nth(s, 1)] = Q!Nth(s, 1 + 1) /\ l.prev[Q!Nth(s, 1 + 1)] = Q!Nth(s, 1)
    BY <1>1 DEF Q!Chains
  <2>4. e \in Tasks /\ n \in Q!Links /\ n # e
    BY <1>1 DEF Q!Nth, Q!Links, IsInjective
  <2> QED BY <2>1, <2>2, <2>3, <2>4
<1>3. m = [next |-> [l.next EXCEPT ![Root] = n, ![e] = None],
           prev |-> [l.prev EXCEPT ![n] = Root, ![e] = None]]
  BY <1>2 DEF Q!DelFirst, Q!ListDel, Q!Empty
<1>4. m \in Q!Lists BY <1>2, <1>3 DEF Q!Lists, Q!Links
<1>5. ASSUME NEW i \in 0..Len(t)
      PROVE  m.next[Q!Nth(t, i)] = Q!Nth(t, i + 1) /\ m.prev[Q!Nth(t, i + 1)] = Q!Nth(t, i)
  <2>1. Q!Nth(t, i + 1) = Q!Nth(s, i + 2) BY <1>1 DEF Q!Nth
  <2>2. CASE i = 0
    <3>1. Q!Nth(t, i) = Root /\ Q!Nth(t, i + 1) = n BY <2>1, <2>2 DEF Q!Nth
    <3> QED BY <1>2, <1>3, <3>1 DEF Q!Lists, Q!Links
  <2>3. CASE i > 0
    <3>1. Q!Nth(t, i) = Q!Nth(s, i + 1) BY <1>1, <2>3 DEF Q!Nth
    <3>2. /\ Q!Nth(s, i + 1) \in Tasks \ {e}
          /\ Q!Nth(s, i + 2) \in Q!Links \ {e, n}
      BY <1>1, <2>3 DEF Q!Nth, Q!Links, IsInjective
    <3>3. /\ l.next[Q!Nth(s, i + 1)] = Q!Nth(s, (i + 1) + 1)
          /\ l.prev[Q!Nth(s, (i + 1) + 1)] = Q!Nth(s, i + 1)
      BY <1>1, <2>3 DEF Q!Chains
    <3>4. (i + 1) + 1 = i + 2 BY <2>3
    <3> QED BY <1>2, <1>3, <2>1, <3>1, <3>2, <3>3, <3>4 DEF Q!Lists, Q!Links
  <2> QED BY <2>2, <2>3
<1> QED BY <1>4, <1>5 DEF Q!Chains

-----------------------------------------------------------------------------

\* A step of the pool over its list is a step of the pool.
LEMMA ListNextIsNext == [ListNext]_listVars => [Next]_vars
BY DEF ListNext, listVars, IniStartList, AddTaskList, TakeList, Elsewhere, Next,
       Owner, Adder, Worker

\* Everything shown of ThreadPool holds of the pool over its list: the list
\* adds no behaviour and takes none of the guards away.
THEOREM ImplementsThreadPool == ListSpec => Spec
<1>1. ListInit => Init BY DEF ListInit
<1> QED BY <1>1, ListNextIsNext, PTL DEF ListSpec, Spec

\* From the first ini on the pointers list the tasks that wait.
ListInv ==
  /\ list \in Q!Lists
  /\ owner # "idle" \/ taskQueue # <<>> => Q!Chains(list, taskQueue)

\* The zeroed static list has the type.
LEMMA ListInvInit == ListInit => ListInv
BY DEF ListInit, ListInv, Init, Q!Zeroed, Q!Lists

\* Every step keeps the pointers in line with the sequence: only
\* init_queue_head, queue_add_tail and queue_del_first touch them.
LEMMA ListInvStep == IInv /\ ListInv /\ [ListNext]_listVars => ListInv'
<1> SUFFICES ASSUME IInv, ListInv, [ListNext]_listVars PROVE ListInv'
  OBVIOUS
<1> USE ConstantsAssumption, RootAssumption
<1>1. CASE IniStartList
  <2>1. list' \in Q!Lists
    BY <1>1 DEF IniStartList, ListInv, Q!InitHead, Q!Lists, Q!Links
  <2>2. taskQueue' = <<>> /\ list'.next[Root] = Root /\ list'.prev[Root] = Root
    BY <1>1 DEF IniStartList, IniStart, ListInv, Q!InitHead, Q!Lists, Q!Links
  <2> QED BY <2>1, <2>2 DEF ListInv, Q!Chains, Q!Nth
<1>2. ASSUME NEW t \in Threads, AddTaskList(t) PROVE ListInv'
  <2>1. /\ taskQueue \in Seq(Tasks) /\ IsInjective(taskQueue)
        /\ arg[t] \in Tasks \ Range(taskQueue)
    BY <1>2 DEF AddTaskList, AddTask, IInv, TypeOK, InHand, TaskInOnePlace,
                Queued, Submitting, Held, Range, Threads
  <2>2. owner # "idle"
    BY <1>2 DEF AddTaskList, AddTask, IInv, Stages, Threads
  <2>3. taskQueue' = Append(taskQueue, arg[t]) /\ list' = Q!AddTail(list, arg[t])
    BY <1>2 DEF AddTaskList, AddTask
  <2> QED BY <2>1, <2>2, <2>3, AddTailChains DEF ListInv
<1>3. ASSUME NEW w \in Workers, TakeList(w) PROVE ListInv'
  <2>1. taskQueue \in Seq(Tasks) /\ IsInjective(taskQueue) /\ taskQueue # <<>>
    BY <1>3 DEF TakeList, Take, IInv, TypeOK, TaskInOnePlace
  <2>2. taskQueue' = Tail(taskQueue) /\ list' = Q!DelFirst(list)
    BY <1>3 DEF TakeList, Take
  <2> QED BY <2>1, <2>2, DelFirstChains DEF ListInv
<1>4. CASE Elsewhere /\ UNCHANGED list
  <2>1. taskQueue' = taskQueue /\ (owner' # "idle" => owner # "idle")
    BY <1>4 DEF Elsewhere, IniFinish, IniRefused, DestroyCall, DestroyPoll,
       DestroySleep, DestroyFinish, AddLock, CountTask, Signal, Submit, CreateWorker, Lock,
       Wait, Wake, SpuriousWake, Skip, HandlerEnd, vars
  <2> QED BY <1>4, <2>1 DEF ListInv
<1>5. CASE UNCHANGED listVars
  BY <1>5 DEF listVars, vars, ListInv
<1> QED BY <1>1, <1>2, <1>3, <1>4, <1>5 DEF ListNext

\* The pointers give the answers the sequence gives.
LEMMA ListInvAnswers == IInv /\ ListInv => ListIsQueue
<1> SUFFICES ASSUME IInv, ListInv, owner # "idle" \/ taskQueue # <<>>
             PROVE  /\ Q!Chains(list, taskQueue)
                    /\ Q!Empty(list) <=> taskQueue = <<>>
                    /\ taskQueue # <<>> => Q!GetFirst(list) = Head(taskQueue)
  BY DEF ListIsQueue
<1> USE RootAssumption
<1>1. taskQueue \in Seq(Tasks) /\ Q!Chains(list, taskQueue)
  BY DEF IInv, TypeOK, ListInv
<1>2. list.next[Root] = Q!Nth(taskQueue, 1)
  <2>1. list.next[Q!Nth(taskQueue, 0)] = Q!Nth(taskQueue, 0 + 1)
    BY <1>1 DEF Q!Chains
  <2>2. Q!Nth(taskQueue, 0) = Root /\ 0 + 1 = 1 BY DEF Q!Nth
  <2> QED BY <2>1, <2>2
<1>3. CASE taskQueue = <<>>
  BY <1>1, <1>2, <1>3 DEF Q!Nth, Q!Empty
<1>4. CASE taskQueue # <<>>
  <2>1. Q!Nth(taskQueue, 1) = Head(taskQueue) /\ Head(taskQueue) \in Tasks
    BY <1>1, <1>4 DEF Q!Nth
  <2> QED BY <1>1, <1>2, <1>4, <2>1 DEF Q!Empty, Q!GetFirst
<1> QED BY <1>3, <1>4

\* The list of queue.h is the queue of the pool, for every number of workers,
\* clients and tasks: next and prev lead through the waiting tasks in the
\* order they were added, and queue_empty and queue_get_first tell the truth.
THEOREM ListAgrees == ListSpec => []ListIsQueue
<1>1. ListSpec => []IInv BY ImplementsThreadPool, Invariance, PTL
<1>2. IInv /\ ListInv /\ [ListNext]_listVars => ListInv' BY ListInvStep
<1>3. ListSpec => []ListInv BY ListInvInit, <1>1, <1>2, PTL DEF ListSpec
<1>4. IInv /\ ListInv => ListIsQueue BY ListInvAnswers
<1> QED BY <1>1, <1>3, <1>4, PTL
=============================================================================
