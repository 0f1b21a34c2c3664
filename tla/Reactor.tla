------------------------------ MODULE Reactor ------------------------------
(***************************************************************************)
(* The event loop of src/src/event.c over epoll (src/src/epoll.c): events  *)
(* linked by their own prev and next pointers into a waitQueue and a       *)
(* signalQueue, a status in each event that tells which, and one thread    *)
(* that waits for epoll, calls the callbacks of the reported events and    *)
(* then sweeps the signalQueue.                                            *)
(*                                                                         *)
(* One step is a return of epoll_wait, the handling of one reported event, *)
(* one callback, or one turn of the sweep.  The queues are modelled pointer*)
(* by pointer: what eventListAdd and eventListRm do to an event that is    *)
(* not where they expect it is part of the behaviour.                      *)
(*                                                                         *)
(* Environment.  An fd becomes ready at any time; epoll is level triggered *)
(* and reports up to MaxBatch ready fds in any order (the code asks for    *)
(* 512).  It may refuse to register an fd, which epoll_add does not report.*)
(* A callback does one of the things the callbacks in buffer.c and         *)
(* test/test_buffer.c do.  nodeNum, which nothing reads, and the signal    *)
(* bits, which only say what a callback reads or writes, are left out.     *)
(***************************************************************************)
EXTENDS Naturals, Sequences, FiniteSets, Functions

CONSTANTS
  Listeners,  \* the events with _defaultErrCallback (the accepting socket)
  Buffers,    \* the events inside a struct buffer, with _errCallback
  Acts,       \* what callbacks do, a subset of AllActs
  MaxBatch,   \* the most events one epoll_wait reports
  NULL

Events == Listeners \cup Buffers
AllActs == {"use", "mod", "rm", "listen", "close", "error", "closemod",
            "modother", "errother", "discard"}

ASSUME ConstantsAssumption ==
  /\ IsFiniteSet(Events)
  /\ Listeners \cap Buffers = {}
  /\ Acts \subseteq AllActs
  /\ MaxBatch \in Nat \ {0}
  /\ NULL \notin Events

Queues == {"wait", "signal"}

VARIABLES
  mem,     \* head and tail of the queues; next, prev and status of the events
  epolled, \* the events whose fd is registered with epoll
  ready,   \* the events whose fd is ready for what they listen for
  pc,      \* where _reactorRun is
  batch,   \* the reported events epoll_run has still to handle
  ev,      \* the local variables of _reactorRun
  ev_next,
  apart    \* history: an event was put in or taken out of a queue by a status
           \* that does not tell where it is

vars == <<mem, epolled, ready, pc, batch, ev, ev_next, apart>>

Status == {"free", "init", "wait", "signal", "close", "error"}
PC == {"epoll", "report", "dispatch", "closing", "sweep"}
Pointer == Events \cup {NULL}
Mem == [head : [Queues -> Pointer], tail : [Queues -> Pointer],
        next : [Events -> Pointer], prev : [Events -> Pointer],
        status : [Events -> Status], ok : BOOLEAN]

-----------------------------------------------------------------------------
(* The queues.  `ok` becomes FALSE when NULL or freed memory is used as an *)
(* event.  The process is then taken to be at its end: it crashes, or goes *)
(* on with what it finds there, and nothing is claimed of it any more.     *)

\* p points to an event.
Points(m, p) == p # NULL /\ m.status[p] # "free"

ListInit(m, q) == [m EXCEPT !.head[q] = NULL, !.tail[q] = NULL]

\* eventListAdd: to the end.
ListAdd(m, q, e) ==
  IF m.head[q] = NULL
  THEN [m EXCEPT !.head[q] = e, !.tail[q] = e, !.prev[e] = NULL, !.next[e] = NULL]
  ELSE [m EXCEPT !.next = [@ EXCEPT ![m.tail[q]] = e, ![e] = NULL],
                 !.prev[e] = m.tail[q], !.tail[q] = e,
                 !.ok = @ /\ Points(m, m.tail[q])]

\* Faulty: an event in the middle is unlinked in one direction only.
ListRmOneWay(m, q, e) ==
  LET n == m.next[e]
      p == m.prev[e]
  IN  CASE e = m.head[q] -> IF n = NULL THEN ListInit(m, q)
                                        ELSE [m EXCEPT !.head[q] = n]
        [] e # m.head[q] /\ e = m.tail[q] ->
             IF p = NULL THEN ListInit(m, q)
             ELSE [m EXCEPT !.tail[q] = p, !.next[p] = NULL]
        [] OTHER -> IF Points(m, p) THEN [m EXCEPT !.next[p] = n]
                                    ELSE [m EXCEPT !.ok = FALSE]

\* eventListRm: it trusts that e is in q.
ListRm(m, q, e) ==
  LET n == m.next[e]
      p == m.prev[e]
  IN  CASE e = m.head[q] -> IF n = NULL THEN ListInit(m, q)
                                        ELSE [m EXCEPT !.head[q] = n]
        [] e # m.head[q] /\ e = m.tail[q] ->
             IF p = NULL THEN ListInit(m, q)
             ELSE [m EXCEPT !.tail[q] = p, !.next[p] = NULL,
                            !.ok = @ /\ Points(m, p)]
        [] OTHER ->
             IF Points(m, p) /\ Points(m, n)
             THEN [m EXCEPT !.next[p] = n, !.prev[n] = p]
             ELSE [m EXCEPT !.ok = FALSE]

\* The step that goes wrong has no other effect.
Checked(m) == IF m.ok THEN m ELSE [mem EXCEPT !.ok = FALSE]

SetStatus(m, e, s) == [m EXCEPT !.status[e] = s]

-----------------------------------------------------------------------------
(* The calls callbacks make. *)

\* eventAddListen: an event that is not in ININITQUEUE is refused.
AddListen(m, e) ==
  IF m.status[e] = "init" THEN ListAdd(SetStatus(m, e, "wait"), "wait", e) ELSE m

\* eventRmListen: which queue the event leaves depends on its status only.
RmListen(m, e) ==
  LET m1 == CASE m.status[e] = "wait" -> ListRm(m, "wait", e)
              [] m.status[e] \in {"signal", "error"} -> ListRm(m, "signal", e)
              [] OTHER -> m
  IN  SetStatus(m1, e, "init")

\* Faulty: only an event that waits is taken from epoll.
RmEpollWaiting(e) == IF mem.status[e] = "wait" THEN epolled \ {e} ELSE epolled

\* An event that failed stays registered with epoll.
RmEpoll(e) ==
  IF mem.status[e] \in {"wait", "signal"} THEN epolled \ {e} ELSE epolled

\* What is registered after e is added to E, which may fail: epoll_add prints
\* a message and returns 0.
AddEpoll(E, e) == {E, E \cup {e}}

\* eventModListen: remove, initialise, add again.
ModListen(m, e) == AddListen(RmListen(m, e), e)

\* Faulty: the event is not removed.
DisBufferLinked(m, e) == SetStatus(m, e, "free")

\* disBuffer: remove and free.
DisBuffer(m, e) == SetStatus(RmListen(m, e), e, "free")

-----------------------------------------------------------------------------

\* The application has added its listeners before it calls run.
Init ==
  /\ \E s \in Injection(1..Cardinality(Listeners), Listeners) :
       LET n == Cardinality(Listeners)
           at(i) == IF i \in 1..n THEN s[i] ELSE NULL
           pos(e) == CHOOSE i \in 1..n : s[i] = e
       IN  mem = [head   |-> [q \in Queues |-> IF q = "wait" THEN at(1) ELSE NULL],
                  tail   |-> [q \in Queues |-> IF q = "wait" THEN at(n) ELSE NULL],
                  next   |-> [e \in Events |-> IF e \in Listeners THEN at(pos(e)+1) ELSE NULL],
                  prev   |-> [e \in Events |-> IF e \in Listeners THEN at(pos(e)-1) ELSE NULL],
                  status |-> [e \in Events |-> IF e \in Listeners THEN "wait" ELSE "free"],
                  ok     |-> TRUE]
  /\ epolled \in SUBSET Listeners
  /\ ready = {}
  /\ pc = "epoll" /\ batch = <<>> /\ ev = NULL /\ ev_next = NULL /\ apart = FALSE

\* The kernel: data, a connection or room to write arrives.
Arrive(e) ==
  /\ e \in epolled \ ready
  /\ ready' = ready \cup {e}
  /\ UNCHANGED <<mem, epolled, pc, batch, ev, ev_next, apart>>

-----------------------------------------------------------------------------
(* epoll_run *)

At(p) == mem.ok /\ pc = p

\* epoll_wait returns the ready events of s, in that order: none when it is
\* interrupted, which _reactorRun does not see.
EpollWait(s) ==
  /\ At("epoll")
  /\ batch' = s
  /\ pc' = "report"
  /\ UNCHANGED <<mem, epolled, ready, ev, ev_next, apart>>

\* Faulty: the reported event is not added to the signalQueue.
ReportUnlinked ==
  /\ At("report") /\ batch # <<>>
  /\ LET e == Head(batch)
     IN  mem' = SetStatus(IF mem.status[e] = "wait" THEN ListRm(mem, "wait", e) ELSE mem,
                          e, "signal")
  /\ batch' = Tail(batch)
  /\ UNCHANGED <<epolled, ready, pc, ev, ev_next, apart>>

\* One turn of its loop: from the waitQueue to the end of the signalQueue.
\* One that is still in the signalQueue is added a second time.
Report ==
  /\ At("report") /\ batch # <<>>
  /\ LET e == Head(batch)
         m == IF mem.status[e] = "wait" THEN ListRm(mem, "wait", e) ELSE mem
     IN  /\ mem' = IF mem.status[e] = "free" THEN [mem EXCEPT !.ok = FALSE]
                   ELSE Checked(ListAdd(SetStatus(m, e, "signal"), "signal", e))
         /\ apart' = (apart \/ mem.status[e] \in {"signal", "close", "error"})
  /\ batch' = Tail(batch)
  /\ UNCHANGED <<epolled, ready, pc, ev, ev_next>>

ReportEnd ==
  /\ At("report") /\ batch = <<>>
  /\ ev' = mem.head["signal"]
  /\ pc' = "dispatch"
  /\ UNCHANGED <<mem, epolled, ready, batch, ev_next, apart>>

-----------------------------------------------------------------------------
(* The dispatch loop: one action for each thing a callback may do.  The   *)
(* loop goes on to ev->next as the callback has left it.  A connection    *)
(* whose peer has closed is "closing" until its read callback returns.    *)

Calls(act) == mem.ok /\ pc \in {"dispatch", "closing"} /\ ev # NULL /\ act \in Acts

Returns(m) ==
  /\ mem' = Checked(m) /\ ev' = m.next[ev] /\ pc' = "dispatch"
  /\ UNCHANGED <<batch, ev_next>>

\* Event f is removed, and perhaps added again: with INCLOSEQUEUE it is not
\* unlinked, and with INERRORQUEUE from the signalQueue wherever it is.
Removes(f) == apart' = (apart \/ mem.status[f] \in {"close", "error"})

\* It reads or writes; the fd may be drained or not.
Use ==
  /\ Calls("use") /\ Returns(mem)
  /\ ready' \in {ready, ready \ {ev}}
  /\ UNCHANGED <<epolled, apart>>

\* It goes over to writing or back to reading, eventModListen on itself.
Mod ==
  /\ Calls("mod") /\ pc = "dispatch" /\ ev \in Buffers
  /\ Returns(ModListen(mem, ev)) /\ Removes(ev)
  /\ epolled' \in AddEpoll(RmEpoll(ev), ev)
  /\ ready' \in {ready \cap epolled', ready \ {ev}}

\* It stops listening.
Rm ==
  /\ Calls("rm") /\ pc = "dispatch"
  /\ Returns(RmListen(mem, ev)) /\ Removes(ev)
  /\ epolled' = RmEpoll(ev) /\ ready' = ready \ {ev}

\* It listens to an event of its own choice: a connection it has accepted,
\* or an event that was removed.
Listen(f) ==
  /\ Calls("listen") /\ mem.status[f] \in {"free", "init"}
  /\ Returns(AddListen(SetStatus(mem, f, "init"), f))
  /\ epolled' \in AddEpoll(epolled, f)
  /\ UNCHANGED <<ready, apart>>

\* The peer has closed, recv returns 0; the read callback may still be called.
Close ==
  /\ Calls("close") /\ pc = "dispatch" /\ ev \in Buffers
  /\ mem' = SetStatus(mem, ev, "close") /\ pc' = "closing"
  /\ UNCHANGED <<epolled, ready, batch, ev, ev_next, apart>>

\* It writes to the socket that is closing, which is not ready for it
\* (bufferWrite, eventModListen).
CloseMod ==
  /\ Calls("closemod") /\ pc = "closing"
  /\ Returns(ModListen(mem, ev)) /\ Removes(ev)
  /\ epolled' \in AddEpoll(epolled, ev) /\ UNCHANGED ready

\* setEventError on itself: recv or send fails, the buffer is full.
Error ==
  /\ Calls("error") /\ Returns(SetStatus(mem, ev, "error"))
  /\ UNCHANGED <<epolled, ready, apart>>

\* It writes to another connection that is not ready for it.
ModOther(f) ==
  /\ Calls("modother") /\ f # ev /\ mem.status[f] \notin {"free", "init"}
  /\ Returns(ModListen(mem, f)) /\ Removes(f)
  /\ epolled' \in AddEpoll(RmEpoll(f), f) /\ ready' = ready \ {f}

\* It writes to another connection, and the write fails: setEventError.
ErrOther(f) ==
  /\ Calls("errother") /\ f # ev /\ mem.status[f] \notin {"free", "init"}
  /\ Returns(SetStatus(mem, f, "error"))
  /\ UNCHANGED <<epolled, ready, apart>>

\* It gives up another connection: disBuffer.
Discard(f) ==
  /\ Calls("discard") /\ f # ev /\ mem.status[f] # "free"
  /\ Returns(DisBuffer(mem, f)) /\ Removes(f)
  /\ epolled' = RmEpoll(f) /\ ready' = ready \ {f}

DispatchEnd ==
  /\ At("dispatch") /\ ev = NULL
  /\ ev' = mem.head["signal"] /\ ev_next' = ev'
  /\ pc' = "sweep"
  /\ UNCHANGED <<mem, epolled, ready, batch, apart>>

-----------------------------------------------------------------------------
(* The sweep: `while(ev_next) switch(ev->status)`, which never moves ev. *)

Sweeps(S) == At("sweep") /\ ev_next # NULL /\ mem.status[ev] \in S

\* INSIGNALQUEUE: back to the waitQueue; ev_next is read after the move.
SweepMove ==
  /\ Sweeps({"signal"})
  /\ mem' = Checked(ListAdd(SetStatus(ListRm(mem, "signal", ev), ev, "wait"),
                            "wait", ev))
  /\ ev_next' = mem'.next[ev]
  /\ UNCHANGED <<epolled, ready, pc, batch, ev, apart>>

\* Faulty: errCb is not called.
SweepFailedSilent ==
  /\ Sweeps({"close", "error"})
  /\ LET m == ListRm(mem, "signal", ev)
     IN  mem' = Checked(m) /\ ev_next' = m.next[ev]
  /\ UNCHANGED <<epolled, ready, pc, batch, ev, apart>>

\* INCLOSEQUEUE and INERRORQUEUE: out of the queue, then errCb, which for a
\* buffer closes the fd, removes the event and frees it.  One that failed is
\* taken out of the queue by that a second time, and the loop goes on with
\* the event it has just taken out.
SweepFailed ==
  /\ Sweeps({"close", "error"})
  /\ LET m == ListRm(mem, "signal", ev)
     IN  /\ ev_next' = m.next[ev]
         /\ \/ ev \in Listeners /\ mem' = Checked(m) /\ UNCHANGED <<epolled, ready>>
            \/ /\ ev \in Buffers
               /\ mem' = Checked(DisBuffer(m, ev))
               /\ epolled' = epolled \ {ev} /\ ready' = ready \ {ev}
         /\ apart' = (apart \/ m.next[ev] # NULL
                            \/ (ev \in Buffers /\ mem.status[ev] = "error"))
  /\ UNCHANGED <<pc, batch, ev>>

\* ININITQUEUE and any other status: nothing changes, so neither does this.
SweepSpin == Sweeps({"init", "wait"}) /\ UNCHANGED vars

\* ev has been freed by its errCb and the loop reads its status.
SweepFreed ==
  /\ Sweeps({"free"})
  /\ mem' = [mem EXCEPT !.ok = FALSE]
  /\ UNCHANGED <<epolled, ready, pc, batch, ev, ev_next, apart>>

\* Faulty: the loop runs once.
SweepEndStops ==
  /\ At("sweep") /\ ev_next = NULL
  /\ pc' = "stopped" /\ ev' = NULL
  /\ UNCHANGED <<mem, epolled, ready, batch, ev_next, apart>>

\* The round is over; the next one begins.
SweepEnd ==
  /\ At("sweep") /\ ev_next = NULL
  /\ pc' = "epoll" /\ ev' = NULL
  /\ UNCHANGED <<mem, epolled, ready, batch, ev_next, apart>>

-----------------------------------------------------------------------------

Batches == UNION {Injection(1..n, epolled \cap ready) : n \in 0..MaxBatch}

Dispatch ==
  \/ Use \/ Mod \/ Rm \/ Close \/ Error \/ CloseMod
  \/ \E f \in Events : Listen(f)
  \/ \E f \in Buffers : ModOther(f) \/ ErrOther(f) \/ Discard(f)

Loop ==
  \/ Report \/ ReportEnd \/ Dispatch \/ DispatchEnd
  \/ SweepMove \/ SweepFailed \/ SweepSpin \/ SweepFreed \/ SweepEnd

Poll == \E s \in Batches : EpollWait(s)

Next == Loop \/ Poll \/ \E e \in Events : Arrive(e)

Spec == Init /\ [][Next]_vars

\* The loop goes on, and the kernel leaves out no ready fd for ever: epoll
\* moves a level-triggered fd it has reported to the end of its ready list.
Fairness ==
  /\ WF_vars(Loop)
  /\ \A e \in Events : SF_vars(\E s \in Batches : e \in Range(s) /\ EpollWait(s))

FairSpec == Spec /\ Fairness

-----------------------------------------------------------------------------
(* Properties *)

\* Every variable has its type; what is ready is registered with epoll.
TypeOK ==
  /\ mem \in Mem
  /\ epolled \subseteq Events /\ ready \subseteq epolled
  /\ pc \in PC /\ batch \in Seq(Events)
  /\ ev \in Pointer /\ ev_next \in Pointer
  /\ apart \in BOOLEAN

InStatus(s) == {e \in Events : mem.status[e] = s}

\* The pointers of queue q run through the sequence s: next from the head to
\* the tail, prev back, and NULL ends them.
Runs(m, q, s) ==
  LET at(i) == IF i \in DOMAIN s THEN s[i] ELSE NULL
  IN  /\ m.head[q] = at(1) /\ m.tail[q] = at(Len(s))
      /\ \A i \in DOMAIN s : /\ m.next[s[i]] = at(i+1)
                            /\ i # 1 => m.prev[s[i]] = s[i-1]

\* A queue lists the events of S, each of them once.
Lists(q, S) == \E s \in Bijection(1..Cardinality(S), S) : Runs(mem, q, s)

\* Whatever the callbacks add, remove, modify, accept, discard, close or fail,
\* and however many events are reported together: until an event is reported
\* while it is still in the signalQueue (epoll.c:113-117), or is removed with
\* INCLOSEQUEUE or INERRORQUEUE (event.c:174-180), or the sweep goes on with an
\* event it has just unlinked (event.c:264, 273), neither NULL nor freed memory
\* is used as an event, and the queues agree with the statuses in both
\* directions.  Only an event that has failed may be in either queue, because
\* setEventError does not say which one it leaves.
QueuesAgree ==
  ~apart =>
    /\ mem.ok
    /\ \E Fw \in SUBSET InStatus("error") : \E Fs \in SUBSET (InStatus("error") \ Fw) :
         /\ Lists("wait", InStatus("wait") \cup Fw)
         /\ Lists("signal", InStatus("signal") \cup InStatus("close") \cup Fs)

\* The loop over the callbacks stays in the signalQueue, although callbacks
\* remove, move and free the events it is walking over: it calls no event
\* that waits, was removed or was freed.
CallsReported ==
  ~apart /\ pc \in {"dispatch", "closing"} /\ ev # NULL =>
    mem.status[ev] \in {"signal", "close", "error"}

\* epoll watches no event that has been removed or freed, whose address it
\* would hand to epoll_run: eventRmListen takes the fd of every event out of
\* epoll, of one that has failed only when its error callback closes the fd.
NoneStray == ~apart => epolled \cap (InStatus("free") \cup InStatus("init")) = {}

\* The sweep leaves the signalQueue empty: when epoll_wait is called again,
\* every reported event is back in the waitQueue, as the comment at the head of
\* the loop says, "In run() will move ready event from waitQueue to
\* signalQueue. So when called callBack, should move to waitQueue", or has been
\* handed to its error callback.  And the sweep gets there without using an
\* event that is gone: "In errCb, event may be destroied".
MovedBack ==
  mem.ok /\ (pc = "epoll" => InStatus("signal") \cup InStatus("close") = {})

\* A waiting event whose fd is ready is called (unless it is removed or
\* goes over to something that is not ready).
Called ==
  \A e \in Events : mem.status[e] = "wait" /\ e \in ready ~>
    (pc = "dispatch" /\ ev = e) \/ e \notin ready

\* A connection whose peer has closed is handed to its error callback, which
\* frees it.  _epoll.h says of setEventClose "when event has been set close
\* flag, close callback will be called".
CloseCalled ==
  \A e \in Buffers : mem.status[e] = "close" ~> mem.status[e] = "free"
=============================================================================
