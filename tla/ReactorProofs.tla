--------------------------- MODULE ReactorProofs ---------------------------
(***************************************************************************)
(* Proofs about Reactor, for any events, any batch size and any behaviour  *)
(* of the callbacks: the types, and that the queues agree with the         *)
(* statuses until an event is put in or taken out of a queue by a status   *)
(* that does not tell where it is, that the loop over the callbacks stays  *)
(* in the signalQueue till then, and that epoll watches no event that has  *)
(* been removed or freed.                                                  *)
(*                                                                         *)
(* The first proof needs of the list operations only that they keep the    *)
(* types and the statuses, wherever the pointers lead them; the others rest*)
(* on what they do to lists: eventListAdd appends, eventListRm takes out.  *)
(***************************************************************************)
EXTENDS Reactor, TLAPS, FiniteSetTheorems, SequenceTheorems

-----------------------------------------------------------------------------
(* The operations on mem *)

\* eventListInit empties a queue and keeps every status.
LEMMA ListInitMem ==
  ASSUME NEW m \in Mem, NEW q \in Queues
  PROVE  ListInit(m, q) \in Mem /\ ListInit(m, q).status = m.status
BY DEF ListInit, Mem, Pointer

\* eventListAdd keeps every status, whatever the tail points to.
LEMMA ListAddMem ==
  ASSUME NEW m \in Mem, NEW q \in Queues, NEW e \in Events
  PROVE  ListAdd(m, q, e) \in Mem /\ ListAdd(m, q, e).status = m.status
<1>1. CASE m.head[q] = NULL
  BY <1>1 DEF ListAdd, Mem, Pointer
<1>2. CASE m.head[q] # NULL
  <2> DEFINE nx == [m.next EXCEPT ![m.tail[q]] = e, ![e] = NULL]
             pr == [m.prev EXCEPT ![e] = m.tail[q]]
             tl == [m.tail EXCEPT ![q] = e]
             ok == m.ok /\ Points(m, m.tail[q])
  <2>1. /\ nx \in [Events -> Pointer] /\ pr \in [Events -> Pointer]
        /\ tl \in [Queues -> Pointer] /\ ok \in BOOLEAN
    BY DEF Mem, Pointer
  <2>2. ListAdd(m, q, e) =
          [m EXCEPT !.next = nx, !.prev = pr, !.tail = tl, !.ok = ok]
    BY <1>2 DEF ListAdd, Mem
  <2> HIDE DEF nx, pr, tl, ok
  <2> QED
    BY <2>1, <2>2 DEF Mem
<1> QED
  BY <1>1, <1>2

\* eventListRm keeps every status, whatever e's neighbours are.
LEMMA ListRmMem ==
  ASSUME NEW m \in Mem, NEW q \in Queues, NEW e \in Events
  PROVE  ListRm(m, q, e) \in Mem /\ ListRm(m, q, e).status = m.status
<1> DEFINE n == m.next[e]
           p == m.prev[e]
<1>1. n \in Pointer /\ p \in Pointer /\ m.head[q] \in Pointer
  BY DEF Mem
<1>2. CASE e = m.head[q]
  BY <1>1, <1>2, ListInitMem DEF ListRm, Mem, Pointer
<1>3. CASE e # m.head[q] /\ e = m.tail[q]
  <2>1. (m.ok /\ Points(m, p)) \in BOOLEAN
    OBVIOUS
  <2> QED
    BY <1>1, <1>3, <2>1, ListInitMem DEF ListRm, Mem, Pointer
<1>4. CASE e # m.head[q] /\ e # m.tail[q]
  BY <1>1, <1>4 DEF ListRm, Mem, Pointer
<1> QED
  BY <1>2, <1>3, <1>4

\* Setting a status changes that status only.
LEMMA SetStatusMem ==
  ASSUME NEW m \in Mem, NEW e \in Events, NEW s \in Status
  PROVE  /\ SetStatus(m, e, s) \in Mem
         /\ SetStatus(m, e, s).status = [m.status EXCEPT ![e] = s]
BY DEF SetStatus, Mem

\* eventAddListen changes no status but that of its event.
LEMMA AddListenMem ==
  ASSUME NEW m \in Mem, NEW e \in Events
  PROVE  /\ AddListen(m, e) \in Mem
         /\ \A x \in Events \ {e} : AddListen(m, e).status[x] = m.status[x]
<1>1. CASE m.status[e] = "init"
  <2>1. "wait" \in Status /\ "wait" \in Queues
    BY DEF Status, Queues
  <2>2. SetStatus(m, e, "wait") \in Mem
    BY <2>1, SetStatusMem
  <2>3. AddListen(m, e) = ListAdd(SetStatus(m, e, "wait"), "wait", e)
    BY <1>1 DEF AddListen
  <2>4. /\ AddListen(m, e) \in Mem
        /\ AddListen(m, e).status = SetStatus(m, e, "wait").status
    BY <2>1, <2>2, <2>3, ListAddMem
  <2>5. SetStatus(m, e, "wait").status = [m.status EXCEPT ![e] = "wait"]
    BY <2>1, SetStatusMem
  <2> QED
    BY <2>4, <2>5 DEF Mem
<1>2. CASE m.status[e] # "init"
  BY <1>2 DEF AddListen
<1> QED
  BY <1>1, <1>2

\* eventRmListen leaves its event in ININITQUEUE and keeps the other statuses.
LEMMA RmListenMem ==
  ASSUME NEW m \in Mem, NEW e \in Events
  PROVE  /\ RmListen(m, e) \in Mem
         /\ RmListen(m, e).status = [m.status EXCEPT ![e] = "init"]
<1> DEFINE m1 == CASE m.status[e] = "wait" -> ListRm(m, "wait", e)
                   [] m.status[e] \in {"signal", "error"} -> ListRm(m, "signal", e)
                   [] OTHER -> m
<1>1. "wait" \in Queues /\ "signal" \in Queues /\ "init" \in Status
  BY DEF Queues, Status
<1>2. m1 \in Mem /\ m1.status = m.status
  <2>1. CASE m.status[e] = "wait"
    BY <2>1, <1>1, ListRmMem
  <2>2. CASE m.status[e] \in {"signal", "error"}
    BY <2>2, <1>1, ListRmMem
  <2>3. CASE m.status[e] \notin {"wait", "signal", "error"}
    BY <2>3
  <2> QED
    BY <2>1, <2>2, <2>3
<1>3. RmListen(m, e) = SetStatus(m1, e, "init")
  BY DEF RmListen
<1> HIDE DEF m1
<1> QED
  BY <1>1, <1>2, <1>3, SetStatusMem

\* eventModListen changes no status but that of its event.
LEMMA ModListenMem ==
  ASSUME NEW m \in Mem, NEW e \in Events
  PROVE  /\ ModListen(m, e) \in Mem
         /\ \A x \in Events \ {e} : ModListen(m, e).status[x] = m.status[x]
<1>1. RmListen(m, e) \in Mem /\ RmListen(m, e).status = [m.status EXCEPT ![e] = "init"]
  BY RmListenMem
<1>2. ModListen(m, e) = AddListen(RmListen(m, e), e)
  BY DEF ModListen
<1>3. ASSUME NEW r \in Mem
      PROVE  /\ AddListen(r, e) \in Mem
             /\ \A x \in Events \ {e} : AddListen(r, e).status[x] = r.status[x]
  BY AddListenMem
<1> QED
  BY <1>1, <1>2, <1>3 DEF Mem

\* disBuffer frees its event and keeps the other statuses.
LEMMA DisBufferMem ==
  ASSUME NEW m \in Mem, NEW e \in Events
  PROVE  /\ DisBuffer(m, e) \in Mem
         /\ DisBuffer(m, e).status = [m.status EXCEPT ![e] = "free"]
<1>1. "free" \in Status
  BY DEF Status
<1>2. RmListen(m, e) \in Mem /\ RmListen(m, e).status = [m.status EXCEPT ![e] = "init"]
  BY RmListenMem
<1>3. DisBuffer(m, e).status = [RmListen(m, e).status EXCEPT ![e] = "free"]
  BY <1>1, <1>2, SetStatusMem DEF DisBuffer
<1> QED
  BY <1>1, <1>2, <1>3, SetStatusMem DEF DisBuffer, Mem

\* A step through Checked has a memory of the right type, and a process that
\* is still sound has the memory the step meant to make.
LEMMA CheckedMem ==
  ASSUME NEW m \in Mem, mem \in Mem
  PROVE  Checked(m) \in Mem /\ (Checked(m).ok => Checked(m) = m)
BY DEF Checked, Mem

-----------------------------------------------------------------------------
(* The types *)

\* The program starts with variables of their types.
LEMMA TypeOKInit == Init => TypeOK
<1> SUFFICES ASSUME Init PROVE TypeOK
  OBVIOUS
<1>1. PICK s \in Injection(1..Cardinality(Listeners), Listeners) :
        LET n == Cardinality(Listeners)
            at(i) == IF i \in 1..n THEN s[i] ELSE NULL
            pos(e) == CHOOSE i \in 1..n : s[i] = e
        IN  mem = [head   |-> [q \in Queues |-> IF q = "wait" THEN at(1) ELSE NULL],
                   tail   |-> [q \in Queues |-> IF q = "wait" THEN at(n) ELSE NULL],
                   next   |-> [e \in Events |-> IF e \in Listeners THEN at(pos(e)+1) ELSE NULL],
                   prev   |-> [e \in Events |-> IF e \in Listeners THEN at(pos(e)-1) ELSE NULL],
                   status |-> [e \in Events |-> IF e \in Listeners THEN "wait" ELSE "free"],
                   ok     |-> TRUE]
  BY DEF Init
<1> DEFINE n == Cardinality(Listeners)
           at(i) == IF i \in 1..n THEN s[i] ELSE NULL
           pos(e) == CHOOSE i \in 1..n : s[i] = e
<1>2. \A i : at(i) \in Pointer
  BY DEF Injection, Pointer, Events
<1> HIDE DEF at, pos
<1>3. mem \in Mem
  <2>1. mem = [head   |-> [q \in Queues |-> IF q = "wait" THEN at(1) ELSE NULL],
               tail   |-> [q \in Queues |-> IF q = "wait" THEN at(n) ELSE NULL],
               next   |-> [e \in Events |-> IF e \in Listeners THEN at(pos(e)+1) ELSE NULL],
               prev   |-> [e \in Events |-> IF e \in Listeners THEN at(pos(e)-1) ELSE NULL],
               status |-> [e \in Events |-> IF e \in Listeners THEN "wait" ELSE "free"],
               ok     |-> TRUE]
    BY <1>1 DEF at, pos
  <2> QED
    BY <2>1, <1>2 DEF Mem, Pointer, Status
<1>4. /\ epolled \in SUBSET Listeners /\ ready = {} /\ pc = "epoll" /\ batch = <<>>
      /\ ev = NULL /\ ev_next = NULL /\ apart = FALSE
  BY DEF Init
<1>5. epolled \subseteq Events /\ ready \subseteq epolled /\ batch \in Seq(Events)
  BY <1>4 DEF Events
<1> QED
  BY <1>3, <1>4, <1>5 DEF TypeOK, PC, Pointer

\* A callback that returns keeps the types if what it makes of mem, epolled
\* and ready has them.
LEMMA ReturnsTypes ==
  ASSUME TypeOK, NEW m \in Mem, Returns(m), ev # NULL,
         epolled' \subseteq Events, ready' \subseteq epolled', apart' \in BOOLEAN
  PROVE  TypeOK'
<1>1. mem' \in Mem
  BY CheckedMem DEF TypeOK, Returns
<1>2. ev' \in Pointer
  BY DEF TypeOK, Returns, Mem, Pointer
<1> QED
  BY <1>1, <1>2 DEF TypeOK, Returns, PC

\* What eventAddListen and eventRmListen leave registered are events.
LEMMA EpollTypes ==
  ASSUME TypeOK, NEW e \in Events
  PROVE  /\ RmEpoll(e) \subseteq Events /\ ready \ {e} \subseteq RmEpoll(e)
         /\ \A F \in SUBSET Events : \A E \in AddEpoll(F, e) : E \subseteq Events /\ F \subseteq E
BY DEF TypeOK, RmEpoll, AddEpoll

\* A callback keeps the types.
LEMMA DispatchTypes ==
  ASSUME TypeOK, Dispatch
  PROVE  TypeOK'
<1>1. /\ mem \in Mem /\ epolled \in SUBSET Events /\ ready \in SUBSET epolled
      /\ ev \in Pointer /\ apart \in BOOLEAN
  BY DEF TypeOK
<1>2. {"close", "error", "init"} \subseteq Status /\ Buffers \subseteq Events
  BY DEF Status, Events
<1>3. ASSUME ev # NULL PROVE ev \in Events
  BY <1>1, <1>3 DEF Pointer
<1>4. CASE Use
  BY <1>1, <1>4, ReturnsTypes DEF Use, Calls
<1>5. CASE Mod
  <2>1. ev \in Events /\ ev # NULL
    BY <1>2, <1>5 DEF Mod, Calls
  <2>2. ModListen(mem, ev) \in Mem
    BY <1>1, <2>1, ModListenMem
  <2>3. /\ Returns(ModListen(mem, ev)) /\ Removes(ev)
        /\ epolled' \in AddEpoll(RmEpoll(ev), ev)
        /\ ready' \in {ready \cap epolled', ready \ {ev}}
    BY <1>5 DEF Mod
  <2>4. epolled' \subseteq Events /\ ready' \subseteq epolled'
    BY <2>1, <2>3, EpollTypes
  <2> QED
    BY <2>1, <2>2, <2>3, <2>4, ReturnsTypes DEF Removes
<1>6. CASE Rm
  <2>1. ev \in Events /\ ev # NULL
    BY <1>3, <1>6 DEF Rm, Calls
  <2>2. RmListen(mem, ev) \in Mem
    BY <1>1, <2>1, RmListenMem
  <2> QED
    BY <1>6, <2>1, <2>2, EpollTypes, ReturnsTypes DEF Rm, Removes
<1>7. CASE Close
  <2>1. SetStatus(mem, ev, "close") \in Mem
    BY <1>1, <1>2, <1>7, SetStatusMem DEF Close
  <2> QED
    BY <1>7, <2>1 DEF TypeOK, Close, PC
<1>8. CASE Error
  <2>1. ev # NULL /\ SetStatus(mem, ev, "error") \in Mem
    BY <1>1, <1>2, <1>3, <1>8, SetStatusMem DEF Error, Calls
  <2> QED
    BY <1>1, <1>8, <2>1, ReturnsTypes DEF Error
<1>9. CASE CloseMod
  <2>1. ev \in Events /\ ev # NULL
    BY <1>3, <1>9 DEF CloseMod, Calls
  <2>2. ModListen(mem, ev) \in Mem
    BY <1>1, <2>1, ModListenMem
  <2>3. epolled' \subseteq Events /\ ready' \subseteq epolled'
    BY <1>1, <1>9, <2>1, EpollTypes DEF CloseMod
  <2> QED
    BY <1>9, <2>1, <2>2, <2>3, ReturnsTypes DEF CloseMod, Removes
<1>10. ASSUME NEW f \in Events, Listen(f) PROVE TypeOK'
  <2>1. SetStatus(mem, f, "init") \in Mem
    BY <1>1, <1>2, SetStatusMem
  <2>2. AddListen(SetStatus(mem, f, "init"), f) \in Mem
    BY <2>1, AddListenMem
  <2>3. epolled' \subseteq Events /\ ready' \subseteq epolled'
    BY <1>1, <1>10, EpollTypes DEF Listen
  <2> QED
    BY <1>1, <1>10, <2>2, <2>3, ReturnsTypes DEF Listen, Calls
<1>11. ASSUME NEW f \in Buffers, ModOther(f) PROVE TypeOK'
  <2>1. f \in Events /\ ModListen(mem, f) \in Mem
    BY <1>1, <1>2, ModListenMem
  <2>2. /\ Returns(ModListen(mem, f)) /\ Removes(f) /\ ev # NULL
        /\ epolled' \in AddEpoll(RmEpoll(f), f) /\ ready' = ready \ {f}
    BY <1>11 DEF ModOther, Calls
  <2>3. epolled' \subseteq Events /\ ready' \subseteq epolled'
    BY <2>1, <2>2, EpollTypes
  <2> QED
    BY <2>1, <2>2, <2>3, ReturnsTypes DEF Removes
<1>12. ASSUME NEW f \in Buffers, ErrOther(f) PROVE TypeOK'
  <2>1. SetStatus(mem, f, "error") \in Mem
    BY <1>1, <1>2, SetStatusMem
  <2> QED
    BY <1>1, <1>12, <2>1, ReturnsTypes DEF ErrOther, Calls
<1>13. ASSUME NEW f \in Buffers, Discard(f) PROVE TypeOK'
  <2>1. f \in Events /\ DisBuffer(mem, f) \in Mem
    BY <1>1, <1>2, DisBufferMem
  <2> QED
    BY <1>13, <2>1, EpollTypes, ReturnsTypes DEF Discard, Calls, Removes
<1> QED
  BY <1>4, <1>5, <1>6, <1>7, <1>8, <1>9, <1>10, <1>11, <1>12, <1>13 DEF Dispatch

\* The sweep stands at an event as long as it is not over: ev, which it
\* never moves, is where the dispatch loop has put it.
Sweeping == pc = "sweep" /\ ev_next # NULL => ev # NULL

\* Every step keeps Sweeping.
LEMMA SweepingStep == Sweeping /\ [Next]_vars => Sweeping'
<1> SUFFICES ASSUME Sweeping, [Next]_vars PROVE Sweeping'
  OBVIOUS
<1>1. CASE UNCHANGED vars
  BY <1>1 DEF Sweeping, vars
<1>2. CASE Dispatch
  BY <1>2 DEF Sweeping, Calls, Returns, Dispatch, Use, Mod, Rm, Close, Error,
              CloseMod, Listen, ModOther, ErrOther, Discard
<1>3. CASE Report \/ ReportEnd \/ DispatchEnd \/ SweepMove \/ SweepFailed
           \/ SweepSpin \/ SweepFreed \/ SweepEnd
  BY <1>3 DEF Sweeping, At, Report, ReportEnd, DispatchEnd, SweepMove,
              SweepFailed, SweepSpin, SweepFreed, SweepEnd, Sweeps, vars
<1>4. CASE Poll \/ \E e \in Events : Arrive(e)
  BY <1>4 DEF Sweeping, Poll, EpollWait, Arrive
<1> QED
  BY <1>1, <1>2, <1>3, <1>4 DEF Next, Loop

\* Every step keeps the types.
LEMMA TypeOKStep == TypeOK /\ Sweeping /\ [Next]_vars => TypeOK'
<1> SUFFICES ASSUME TypeOK, Sweeping, [Next]_vars PROVE TypeOK'
  OBVIOUS
<1>1. /\ mem \in Mem /\ epolled \in SUBSET Events /\ ready \in SUBSET epolled
      /\ ev \in Pointer /\ ev_next \in Pointer /\ batch \in Seq(Events)
      /\ apart \in BOOLEAN
  BY DEF TypeOK
<1>2. {"free", "init", "wait", "signal", "close", "error"} \subseteq Status
  BY DEF Status
<1>3. "wait" \in Queues /\ "signal" \in Queues
  BY DEF Queues
<1>4. CASE UNCHANGED vars
  BY <1>4 DEF TypeOK, vars
<1>5. ASSUME NEW e \in Events, Arrive(e) PROVE TypeOK'
  BY <1>5 DEF TypeOK, Arrive
<1>6. CASE Poll
  <2>1. PICK s \in Batches : EpollWait(s)
    BY <1>6 DEF Poll
  <2>2. s \in Seq(Events)
    <3>1. PICK n \in 0..MaxBatch : s \in Injection(1..n, epolled \cap ready)
      BY DEF Batches
    <3>2. n \in Nat /\ s \in [1..n -> Events]
      BY <1>1, <3>1, ConstantsAssumption DEF Injection
    <3> QED
      BY <3>2
  <2> QED
    BY <2>1, <2>2 DEF TypeOK, EpollWait, PC
<1>7. CASE Report
  <2> DEFINE e == Head(batch)
             m == IF mem.status[e] = "wait" THEN ListRm(mem, "wait", e) ELSE mem
  <2>1. e \in Events /\ Tail(batch) \in Seq(Events)
    BY <1>1, <1>7 DEF Report
  <2>2. m \in Mem
    BY <1>1, <1>3, <2>1, ListRmMem
  <2>3. mem' = IF mem.status[e] = "free" THEN [mem EXCEPT !.ok = FALSE]
               ELSE Checked(ListAdd(SetStatus(m, e, "signal"), "signal", e))
    BY <1>7 DEF Report
  <2>a. apart' \in BOOLEAN
    BY <1>1, <1>7 DEF Report
  <2> HIDE DEF m
  <2>4. SetStatus(m, e, "signal") \in Mem
    BY <1>2, <2>1, <2>2, SetStatusMem
  <2> HIDE DEF e
  <2>5. ListAdd(SetStatus(m, e, "signal"), "signal", e) \in Mem
    BY <1>3, <2>1, <2>4, ListAddMem
  <2>6. Checked(ListAdd(SetStatus(m, e, "signal"), "signal", e)) \in Mem
    BY <1>1, <2>5, CheckedMem
  <2>7. mem' \in Mem
    BY <1>1, <2>3, <2>6 DEF Mem
  <2> QED
    BY <1>7, <2>1, <2>7, <2>a DEF TypeOK, Report, e
<1>8. CASE ReportEnd
  BY <1>1, <1>3, <1>8 DEF TypeOK, ReportEnd, PC, Mem
<1>9. CASE Dispatch
  BY <1>9, DispatchTypes
<1>10. CASE DispatchEnd
  BY <1>1, <1>3, <1>10 DEF TypeOK, DispatchEnd, PC, Mem
<1>11. ASSUME NEW S, Sweeps(S) PROVE ev \in Events
  BY <1>1, <1>11 DEF Sweeping, Sweeps, At, Pointer
<1>12. CASE SweepMove
  <2> DEFINE m1 == ListRm(mem, "signal", ev)
             m2 == SetStatus(m1, ev, "wait")
             m3 == ListAdd(m2, "wait", ev)
  <2>1. ev \in Events
    BY <1>11, <1>12 DEF SweepMove
  <2>2. m1 \in Mem
    BY <1>1, <1>3, <2>1, ListRmMem
  <2> HIDE DEF m1
  <2>3. m2 \in Mem
    BY <1>2, <2>1, <2>2, SetStatusMem
  <2> HIDE DEF m2
  <2>4. m3 \in Mem
    BY <1>3, <2>1, <2>3, ListAddMem
  <2>5. mem' = Checked(m3) /\ ev_next' = mem'.next[ev]
    BY <1>12 DEF SweepMove, m1, m2
  <2> HIDE DEF m3
  <2>6. mem' \in Mem
    BY <1>1, <2>4, <2>5, CheckedMem
  <2>7. ev_next' \in Pointer
    BY <2>1, <2>5, <2>6 DEF Mem
  <2> QED
    BY <1>12, <2>6, <2>7 DEF TypeOK, SweepMove
<1>13. CASE SweepFailed
  <2> DEFINE m == ListRm(mem, "signal", ev)
  <2>1. ev \in Events
    BY <1>11, <1>13 DEF SweepFailed
  <2>2. m \in Mem
    BY <1>1, <1>3, <2>1, ListRmMem
  <2>3. /\ ev_next' = m.next[ev]
        /\ \/ mem' = Checked(m) /\ UNCHANGED <<epolled, ready>>
           \/ /\ mem' = Checked(DisBuffer(m, ev))
              /\ epolled' = epolled \ {ev} /\ ready' = ready \ {ev}
    BY <1>13 DEF SweepFailed
  <2>a. apart' \in BOOLEAN
    BY <1>1, <1>13 DEF SweepFailed
  <2> HIDE DEF m
  <2>4. DisBuffer(m, ev) \in Mem
    BY <2>1, <2>2, DisBufferMem
  <2>5. mem' \in Mem
    BY <1>1, <2>2, <2>3, <2>4, CheckedMem
  <2>6. ev_next' \in Pointer
    BY <2>1, <2>2, <2>3 DEF Mem
  <2>7. epolled' \subseteq Events /\ ready' \subseteq epolled'
    BY <1>1, <2>3
  <2> QED
    BY <1>13, <2>5, <2>6, <2>7, <2>a DEF TypeOK, SweepFailed
<1>14. CASE SweepSpin
  BY <1>14 DEF TypeOK, SweepSpin, vars
<1>15. CASE SweepFreed
  <2>1. mem' \in Mem
    BY <1>1, <1>15 DEF SweepFreed, Mem
  <2> QED
    BY <1>15, <2>1 DEF TypeOK, SweepFreed
<1>16. CASE SweepEnd
  BY <1>16 DEF TypeOK, SweepEnd, PC, Pointer
<1> QED
  BY <1>4, <1>5, <1>6, <1>7, <1>8, <1>9, <1>10, <1>12, <1>13, <1>14, <1>15, <1>16
  DEF Next, Loop

\* Every variable has its type, whatever the callbacks do.
THEOREM TypeCorrect == Spec => []TypeOK
<1>1. Init => TypeOK /\ Sweeping
  BY TypeOKInit DEF Init, Sweeping
<1>2. TypeOK /\ Sweeping /\ [Next]_vars => (TypeOK /\ Sweeping)'
  BY TypeOKStep, SweepingStep
<1> QED
  BY <1>1, <1>2, PTL DEF Spec

-----------------------------------------------------------------------------
(* The lists *)

\* Runs, for a sequence whose length is known.
Threads(m, q, n, s) ==
  /\ s \in [1..n -> Events]
  /\ \A i \in 1..n, j \in 1..n : s[i] = s[j] => i = j
  /\ n = 0 => m.head[q] = NULL /\ m.tail[q] = NULL
  /\ n # 0 => m.head[q] = s[1] /\ m.tail[q] = s[n] /\ m.next[s[n]] = NULL
  /\ \A i \in 1..n : i # n => m.next[s[i]] = s[i+1]
  /\ \A i \in 1..n : i # 1 => m.prev[s[i]] = s[i-1]

\* The sequence s threads q and holds the events of S.
Spell(m, q, S, n, s) ==
  Threads(m, q, n, s) /\ \A x : x \in S <=> \E i \in 1..n : s[i] = x

\* q is a list of the events of S.
Listed(m, q, S) ==
  \E n \in Nat : \E s : Spell(m, q, S, n, s)

\* A list from its head to its tail is what Runs says.
LEMMA ThreadsRun ==
  ASSUME NEW m, NEW q, NEW n \in Nat, NEW s, Threads(m, q, n, s)
  PROVE  Runs(m, q, s)
<1> DEFINE at(i) == IF i \in DOMAIN s THEN s[i] ELSE NULL
<1>1. s \in [1..n -> Events] /\ DOMAIN s = 1..n BY DEF Threads
<1>2. s \in Seq(Events) /\ Len(s) = n BY <1>1
<1>3. m.head[q] = at(1) /\ m.tail[q] = at(n)
  <2>1. CASE n = 0 BY <1>1, <2>1 DEF Threads
  <2>2. CASE n # 0 BY <1>1, <2>2 DEF Threads
  <2> QED BY <2>1, <2>2
<1>4. ASSUME NEW i \in 1..n PROVE m.next[s[i]] = at(i+1) /\ (i # 1 => m.prev[s[i]] = s[i-1])
  <2>1. CASE i = n BY <1>1, <2>1 DEF Threads
  <2>2. CASE i # n
    <3>1. i+1 \in 1..n BY <2>2
    <3> QED BY <1>1, <2>2, <3>1 DEF Threads
  <2> QED BY <2>1, <2>2
<1> QED BY <1>1, <1>2, <1>3, <1>4 DEF Runs

\* A list of S in the sense of the proofs is one in the sense of the model.
LEMMA ListedLists ==
  ASSUME NEW q, NEW S, Listed(mem, q, S)
  PROVE  Lists(q, S)
<1>a. PICK n \in Nat : \E s : Spell(mem, q, S, n, s) BY DEF Listed
<1>b. PICK s : Spell(mem, q, S, n, s) BY <1>a
<1>1. Threads(mem, q, n, s) /\ \A x : x \in S <=> \E i \in 1..n : s[i] = x
  BY <1>b DEF Spell
<1>2. s \in Bijection(1..n, S)
  <2>1. s \in [1..n -> S] /\ \A i \in 1..n, j \in 1..n : s[i] = s[j] => i = j
    BY <1>1 DEF Threads
  <2>2. \A x \in S : \E i \in 1..n : s[i] = x BY <1>1
  <2> QED BY <2>1, <2>2 DEF Bijection, Injection, Surjection, IsInjective
<1>3. Cardinality(S) = n
  <2>1. IsFiniteSet(1..n) /\ Cardinality(1..n) = n BY FS_Interval
  <2>2. ExistsBijection(1..n, S) BY <1>2 DEF ExistsBijection
  <2> QED BY <2>1, <2>2, FS_Bijection
<1> QED BY <1>1, <1>2, <1>3, ThreadsRun DEF Lists

\* A list is the same where its ends and its events' pointers are.
LEMMA ListedKept ==
  ASSUME NEW m, NEW r, NEW o, NEW S, Listed(m, o, S),
         r.head[o] = m.head[o], r.tail[o] = m.tail[o],
         \A x \in S : r.next[x] = m.next[x] /\ r.prev[x] = m.prev[x]
  PROVE  Listed(r, o, S)
<1>a. PICK n \in Nat : \E s : Spell(m, o, S, n, s) BY DEF Listed
<1>b. PICK s : Spell(m, o, S, n, s) BY <1>a
<1>1. Threads(m, o, n, s) /\ \A x : x \in S <=> \E i \in 1..n : s[i] = x
  BY <1>b DEF Spell
<1>2. \A i \in 1..n : r.next[s[i]] = m.next[s[i]] /\ r.prev[s[i]] = m.prev[s[i]] BY <1>1
<1>3. n # 0 => n \in 1..n OBVIOUS
<1>4. Threads(r, o, n, s) BY <1>1, <1>2, <1>3 DEF Threads
<1> QED BY <1>1, <1>4 DEF Listed, Spell

\* What eventListAdd writes.
LEMMA ListAddWrites ==
  ASSUME NEW m \in Mem, NEW q \in Queues, NEW o \in Queues, q # o, NEW e \in Events,
         m.head[q] # NULL => Points(m, m.tail[q])
  PROVE  LET r == ListAdd(m, q, e)
         IN  /\ r.head[q] = IF m.head[q] = NULL THEN e ELSE m.head[q]
             /\ r.tail[q] = e /\ r.head[o] = m.head[o] /\ r.tail[o] = m.tail[o]
             /\ \A x \in Events :
                  /\ r.next[x] = IF x = e THEN NULL
                                 ELSE IF m.head[q] # NULL /\ x = m.tail[q] THEN e
                                 ELSE m.next[x]
                  /\ x # e => r.prev[x] = m.prev[x]
             /\ m.head[q] # NULL => r.prev[e] = m.tail[q]
             /\ r.ok = m.ok
<1>1. CASE m.head[q] = NULL BY <1>1 DEF ListAdd, Mem
<1>2. CASE m.head[q] # NULL
  <2> DEFINE nx == [m.next EXCEPT ![m.tail[q]] = e, ![e] = NULL]
             pr == [m.prev EXCEPT ![e] = m.tail[q]]
             tl == [m.tail EXCEPT ![q] = e]
             ok == m.ok /\ Points(m, m.tail[q])
  <2>1. ListAdd(m, q, e) = [m EXCEPT !.next = nx, !.prev = pr, !.tail = tl, !.ok = ok]
    BY <1>2 DEF ListAdd, Mem
  <2>2. ok = m.ok BY <1>2 DEF Mem
  <2>3. m.tail[q] \in Events BY <1>2 DEF Points, Mem, Pointer
  <2>4. \A x \in Events : nx[x] = IF x = e THEN NULL ELSE IF x = m.tail[q] THEN e ELSE m.next[x]
    BY <2>3 DEF Mem
  <2>5. /\ \A x \in Events : x # e => pr[x] = m.prev[x]
        /\ pr[e] = m.tail[q] /\ tl[q] = e /\ tl[o] = m.tail[o]
    BY DEF Mem
  <2> HIDE DEF nx, pr, tl, ok
  <2>6. LET r == ListAdd(m, q, e)
        IN  r.next = nx /\ r.prev = pr /\ r.tail = tl /\ r.ok = ok /\ r.head = m.head
    BY <2>1 DEF Mem
  <2> QED BY <1>2, <2>2, <2>4, <2>5, <2>6
<1> QED BY <1>1, <1>2

\* eventListAdd puts an event that is in neither queue to the end of q.
LEMMA ListAddListed ==
  ASSUME NEW m \in Mem, NEW q \in Queues, NEW o \in Queues, q # o, NEW e \in Events,
         NEW S, Listed(m, q, S), NEW R, Listed(m, o, R), e \notin S, e \notin R,
         S \cap R = {}, \A x \in S : m.status[x] # "free"
  PROVE  LET r == ListAdd(m, q, e)
         IN  Listed(r, q, S \cup {e}) /\ Listed(r, o, R) /\ r.ok = m.ok
<1> DEFINE r == ListAdd(m, q, e)
<1>a. PICK n \in Nat : \E s : Spell(m, q, S, n, s) BY DEF Listed
<1>b. PICK s : Spell(m, q, S, n, s) BY <1>a
<1>1. Threads(m, q, n, s) /\ \A x : x \in S <=> \E i \in 1..n : s[i] = x
  BY <1>b DEF Spell
<1>2. \A i \in 1..n : s[i] \in S /\ s[i] # e /\ s[i] # NULL
  BY <1>1, ConstantsAssumption DEF Threads
<1>3. m.head[q] # NULL => n # 0 /\ m.tail[q] = s[n] /\ n \in 1..n /\ m.tail[q] \in S
  BY <1>1, <1>2 DEF Threads
<1>4. m.head[q] = NULL => n = 0
  <2>1. n # 0 => 1 \in 1..n OBVIOUS
  <2> QED BY <1>1, <1>2, <2>1 DEF Threads
<1>5. m.head[q] # NULL => Points(m, m.tail[q]) BY <1>2, <1>3 DEF Points
<1>6. /\ r.head[q] = IF m.head[q] = NULL THEN e ELSE m.head[q]
      /\ r.tail[q] = e /\ r.head[o] = m.head[o] /\ r.tail[o] = m.tail[o]
      /\ \A x \in Events :
           /\ r.next[x] = IF x = e THEN NULL
                          ELSE IF m.head[q] # NULL /\ x = m.tail[q] THEN e
                          ELSE m.next[x]
           /\ x # e => r.prev[x] = m.prev[x]
      /\ m.head[q] # NULL => r.prev[e] = m.tail[q]
      /\ r.ok = m.ok
  BY <1>5, ListAddWrites
<1> HIDE DEF r
<1>7. Listed(r, o, R)
  <2>1. \A x \in R : x \in Events
    <3>a. PICK k \in Nat : \E u : Spell(m, o, R, k, u) BY DEF Listed
    <3>b. PICK u : Spell(m, o, R, k, u) BY <3>a
    <3>1. Threads(m, o, k, u) /\ \A x : x \in R <=> \E i \in 1..k : u[i] = x
      BY <3>b DEF Spell
    <3> QED BY <3>1 DEF Threads
  <2>2. \A x \in R : x # e /\ (m.head[q] # NULL => x # m.tail[q]) BY <1>3
  <2>3. \A x \in R : r.next[x] = m.next[x] /\ r.prev[x] = m.prev[x] BY <1>6, <2>1, <2>2
  <2> QED BY <1>6, <2>3, ListedKept
<1>8. Listed(r, q, S \cup {e})
  <2> DEFINE u == [i \in 1..n+1 |-> IF i = n+1 THEN e ELSE s[i]]
  <2>1. n+1 \in Nat /\ n+1 # 0 /\ n+1 \in 1..n+1 OBVIOUS
  <2>2. u[n+1] = e /\ u \in [1..n+1 -> Events]
    BY <1>1 DEF Threads
  <2>3. \A i \in 1..n : i \in 1..n+1 /\ u[i] = s[i] OBVIOUS
  <2>4. \A i \in 1..n+1 : i = n+1 \/ i \in 1..n OBVIOUS
  <2> HIDE DEF u
  <2>5. \A i \in 1..n+1, j \in 1..n+1 : u[i] = u[j] => i = j
    BY <1>1, <1>2, <2>2, <2>3, <2>4 DEF Threads
  <2>6. r.head[q] = u[1] /\ r.tail[q] = u[n+1] /\ r.next[u[n+1]] = NULL
    <3>1. CASE n = 0 BY <1>1, <1>6, <2>2, <3>1 DEF Threads
    <3>2. CASE n # 0
      <4>1. 1 \in 1..n /\ m.head[q] = s[1] BY <1>1, <3>2 DEF Threads
      <4> QED BY <1>2, <1>6, <2>2, <2>3, <4>1
    <3> QED BY <3>1, <3>2
  <2>7. ASSUME NEW i \in 1..n+1, i # n+1 PROVE r.next[u[i]] = u[i+1]
    <3>1. i \in 1..n /\ u[i] = s[i] /\ s[i] \in Events /\ s[i] # e /\ m.head[q] # NULL /\ m.tail[q] = s[n]
      BY <1>1, <1>2, <1>3, <1>4, <2>3, <2>4, <2>7 DEF Threads
    <3>2. CASE i = n BY <1>6, <2>2, <3>1, <3>2
    <3>3. CASE i # n
      <4>1. i+1 \in 1..n /\ n \in 1..n BY <3>1, <3>3
      <4>2. s[i] # s[n] /\ m.next[s[i]] = s[i+1] BY <1>1, <3>1, <3>3, <4>1 DEF Threads
      <4> QED BY <1>6, <2>3, <3>1, <4>1, <4>2
    <3> QED BY <3>2, <3>3
  <2>8. ASSUME NEW i \in 1..n+1, i # 1 PROVE r.prev[u[i]] = u[i-1]
    <3>1. i-1 \in 1..n /\ u[i-1] = s[i-1] BY <2>3, <2>8
    <3>2. CASE i = n+1
      <4>1. n # 0 /\ i-1 = n BY <2>8, <3>2
      <4> QED BY <1>3, <1>4, <1>6, <2>2, <3>1, <3>2, <4>1
    <3>3. CASE i # n+1
      <4>1. i \in 1..n BY <3>3
      <4>2. m.prev[s[i]] = s[i-1] /\ s[i] \in Events BY <1>1, <2>8, <4>1 DEF Threads
      <4> QED BY <1>2, <1>6, <2>3, <3>1, <4>1, <4>2
    <3> QED BY <3>2, <3>3
  <2>9. Threads(r, q, n+1, u) BY <2>1, <2>2, <2>5, <2>6, <2>7, <2>8 DEF Threads
  <2>10. \A x : x \in S \cup {e} <=> \E i \in 1..n+1 : u[i] = x
    BY <1>1, <2>1, <2>2, <2>3, <2>4
  <2> QED BY <2>1, <2>9, <2>10 DEF Listed, Spell
<1> QED BY <1>6, <1>7, <1>8 DEF r

\* What eventListRm writes for an event that is in q: between its neighbours,
\* or at the end where one is missing.
LEMMA ListRmWrites ==
  ASSUME NEW m \in Mem, NEW q \in Queues, NEW o \in Queues, q # o, NEW e \in Events,
         LET n == m.next[e]
             p == m.prev[e]
         IN  CASE e = m.head[q] -> TRUE
               [] e # m.head[q] /\ e = m.tail[q] -> Points(m, p)
               [] OTHER -> Points(m, p) /\ Points(m, n)
  PROVE  LET r == ListRm(m, q, e)
             n == m.next[e]
             p == m.prev[e]
             first == e = m.head[q]
             last == IF first THEN n = NULL ELSE e = m.tail[q]
         IN  /\ r.head[q] = IF first THEN n ELSE m.head[q]
             /\ r.tail[q] = IF ~last THEN m.tail[q] ELSE IF first THEN NULL ELSE p
             /\ r.head[o] = m.head[o] /\ r.tail[o] = m.tail[o]
             /\ \A x \in Events :
                  /\ r.next[x] = IF ~first /\ x = p THEN IF last THEN NULL ELSE n
                                 ELSE m.next[x]
                  /\ r.prev[x] = IF ~first /\ ~last /\ x = n THEN p ELSE m.prev[x]
             /\ r.ok = m.ok
<1> DEFINE n == m.next[e]
           p == m.prev[e]
<1>1. n \in Pointer /\ p \in Pointer BY DEF Mem
<1>2. CASE e = m.head[q]
  <2>1. CASE n = NULL BY <1>2, <2>1 DEF ListRm, ListInit, Mem
  <2>2. CASE n # NULL BY <1>2, <2>2 DEF ListRm, Mem
  <2> QED BY <2>1, <2>2
<1>3. CASE e # m.head[q] /\ e = m.tail[q]
  <2>1. Points(m, p) BY <1>3
  <2>2. p # NULL /\ p \in Events BY <1>1, <2>1 DEF Points, Pointer
  <2>3. (m.ok /\ Points(m, p)) = m.ok BY <2>1 DEF Mem
  <2>4. ListRm(m, q, e) = [m EXCEPT !.tail[q] = p, !.next[p] = NULL,
                                    !.ok = m.ok /\ Points(m, p)]
    BY <1>3, <2>2 DEF ListRm
  <2> HIDE DEF p
  <2>5. ListRm(m, q, e) = [m EXCEPT !.tail[q] = p, !.next[p] = NULL, !.ok = m.ok]
    BY <2>3, <2>4
  <2> QED BY <1>3, <2>2, <2>5 DEF Mem, p
<1>4. CASE e # m.head[q] /\ e # m.tail[q]
  <2>1. Points(m, p) /\ Points(m, n) BY <1>4
  <2>2. p \in Events /\ n \in Events BY <1>1, <2>1 DEF Points, Pointer
  <2>3. ListRm(m, q, e) = [m EXCEPT !.next[p] = n, !.prev[n] = p] BY <1>4, <2>1 DEF ListRm
  <2> QED BY <1>4, <2>2, <2>3 DEF Mem
<1> QED BY <1>2, <1>3, <1>4

\* eventListRm takes an event out of the queue it is in.
LEMMA ListRmListed ==
  ASSUME NEW m \in Mem, NEW q \in Queues, NEW o \in Queues, q # o, NEW e \in Events,
         NEW S, Listed(m, q, S), NEW R, Listed(m, o, R), e \in S,
         S \cap R = {}, \A x \in S : m.status[x] # "free"
  PROVE  LET r == ListRm(m, q, e)
         IN  Listed(r, q, S \ {e}) /\ Listed(r, o, R) /\ r.ok = m.ok
<1> DEFINE r == ListRm(m, q, e)
           n == m.next[e]
           p == m.prev[e]
           first == e = m.head[q]
           last == IF first THEN n = NULL ELSE e = m.tail[q]
<1>1. PICK l \in Nat : \E s : Spell(m, q, S, l, s) BY DEF Listed
<1>2. PICK s : Spell(m, q, S, l, s) BY <1>1
<1>3. Threads(m, q, l, s) /\ \A x : x \in S <=> \E i \in 1..l : s[i] = x BY <1>2 DEF Spell
<1>4. PICK k \in 1..l : s[k] = e BY <1>3
<1>5. \A i \in 1..l : s[i] \in S /\ s[i] \in Events /\ s[i] # NULL /\ Points(m, s[i])
  BY <1>3, ConstantsAssumption DEF Threads, Points
<1>6. 1 \in 1..l /\ l \in 1..l /\ l # 0 BY <1>4
<1>7. /\ m.head[q] = s[1] /\ m.tail[q] = s[l]
      /\ n = IF k = l THEN NULL ELSE s[k+1]
      /\ k # 1 => p = s[k-1]
  BY <1>3, <1>4, <1>6 DEF Threads
<1>8. /\ k # 1 => k-1 \in 1..l
      /\ k # l => k+1 \in 1..l
  BY <1>4
<1>9. first <=> k = 1 BY <1>3, <1>4, <1>6, <1>7 DEF Threads
<1>10. last <=> k = l
  <2>1. s[k] = s[l] => k = l BY <1>3, <1>4, <1>6 DEF Threads
  <2> QED BY <1>4, <1>5, <1>7, <1>8, <1>9, <2>1
<1>11. /\ r.head[q] = IF first THEN n ELSE m.head[q]
       /\ r.tail[q] = IF ~last THEN m.tail[q] ELSE IF first THEN NULL ELSE p
       /\ r.head[o] = m.head[o] /\ r.tail[o] = m.tail[o]
       /\ \A x \in Events :
            /\ r.next[x] = IF ~first /\ x = p THEN IF last THEN NULL ELSE n
                           ELSE m.next[x]
            /\ r.prev[x] = IF ~first /\ ~last /\ x = n THEN p ELSE m.prev[x]
       /\ r.ok = m.ok
  <2>1. CASE e = m.head[q] BY <2>1, ListRmWrites
  <2>2. CASE e # m.head[q] /\ e = m.tail[q]
    <3>1. Points(m, m.prev[e]) BY <1>5, <1>7, <1>8, <1>9, <2>2
    <3> QED BY <2>2, <3>1, ListRmWrites
  <2>3. CASE e # m.head[q] /\ e # m.tail[q]
    <3>1. Points(m, m.prev[e]) /\ Points(m, m.next[e])
      BY <1>5, <1>7, <1>8, <1>9, <1>10, <2>3
    <3> QED BY <2>3, <3>1, ListRmWrites
  <2> QED BY <2>1, <2>2, <2>3
<1> HIDE DEF r, n, p, first, last
<1>12. Listed(r, o, R)
  <2>1. \A x \in R : x \in Events
    <3>1. PICK j \in Nat : \E u : Spell(m, o, R, j, u) BY DEF Listed
    <3>2. PICK u : Spell(m, o, R, j, u) BY <3>1
    <3> QED BY <3>2 DEF Spell, Threads
  <2>2. (k # 1 => p \notin R) /\ (k # l => n \notin R) BY <1>5, <1>7, <1>8
  <2>3. \A x \in R : r.next[x] = m.next[x] /\ r.prev[x] = m.prev[x]
    BY <1>9, <1>10, <1>11, <2>1, <2>2
  <2> QED BY <1>11, <2>3, ListedKept
<1>13. \A i \in 1..l :
         /\ r.next[s[i]] = IF k # 1 /\ i = k-1 THEN n
                           ELSE IF i = l THEN NULL ELSE s[i+1]
         /\ i # 1 => r.prev[s[i]] = IF k # 1 /\ k # l /\ i = k+1 THEN p ELSE s[i-1]
  <2> SUFFICES ASSUME NEW i \in 1..l
               PROVE  /\ r.next[s[i]] = IF k # 1 /\ i = k-1 THEN n
                                        ELSE IF i = l THEN NULL ELSE s[i+1]
                      /\ i # 1 => r.prev[s[i]] = IF k # 1 /\ k # l /\ i = k+1 THEN p ELSE s[i-1]
    OBVIOUS
  <2>1. k # 1 => (s[i] = p <=> i = k-1) BY <1>3, <1>7, <1>8 DEF Threads
  <2>2. k # l => (s[i] = n <=> i = k+1) BY <1>3, <1>7, <1>8 DEF Threads
  <2>3. /\ m.next[s[i]] = IF i = l THEN NULL ELSE s[i+1]
        /\ i # 1 => m.prev[s[i]] = s[i-1]
    BY <1>3, <1>6 DEF Threads
  <2>4. s[i] \in Events BY <1>5
  <2> QED BY <1>7, <1>9, <1>10, <1>11, <2>1, <2>2, <2>3, <2>4
<1>14. Listed(r, q, S \ {e})
  <2> DEFINE u == [i \in 1..l-1 |-> IF i < k THEN s[i] ELSE s[i+1]]
  <2>1. l-1 \in Nat BY <1>6
  <2>2. u \in [1..l-1 -> Events] /\ \A i \in 1..l-1 : u[i] = IF i < k THEN s[i] ELSE s[i+1]
    <3>1. \A i \in 1..l-1 : i \in 1..l /\ i+1 \in 1..l OBVIOUS
    <3> QED BY <1>5, <3>1
  <2> HIDE DEF u
  <2>3. \A i \in 1..l-1 : i \in 1..l /\ i+1 \in 1..l OBVIOUS
  <2>4. \A i \in 1..l-1, j \in 1..l-1 : u[i] = u[j] => i = j
    BY <1>3, <1>4, <2>2, <2>3 DEF Threads
  <2>5. l-1 = 0 => r.head[q] = NULL /\ r.tail[q] = NULL
    BY <1>4, <1>7, <1>9, <1>10, <1>11
  <2>6. ASSUME l-1 # 0
        PROVE  r.head[q] = u[1] /\ r.tail[q] = u[l-1] /\ r.next[u[l-1]] = NULL
    <3>1. 1 \in 1..l-1 /\ l-1 \in 1..l-1 /\ l-1 \in 1..l BY <1>6, <2>6
    <3>2. r.head[q] = u[1] BY <1>4, <1>7, <1>9, <1>11, <2>2, <2>6, <3>1
    <3>3. CASE k = l
      <4>1. u[l-1] = s[l-1] /\ k # 1 BY <2>2, <2>6, <3>1, <3>3
      <4>2. r.tail[q] = s[l-1] BY <1>7, <1>9, <1>10, <1>11, <3>3, <4>1
      <4>3. r.next[s[l-1]] = NULL BY <1>7, <1>13, <3>1, <3>3, <4>1
      <4> QED BY <3>2, <4>1, <4>2, <4>3
    <3>4. CASE k # l
      <4>1. u[l-1] = s[l] BY <1>4, <1>6, <2>2, <3>1, <3>4
      <4>2. r.tail[q] = s[l] BY <1>7, <1>10, <1>11, <3>4
      <4>3. l # k-1 BY <1>4
      <4>4. r.next[s[l]] = NULL BY <1>6, <1>13, <4>3
      <4> QED BY <3>2, <4>1, <4>2, <4>4
    <3> QED BY <3>3, <3>4
  <2>7. ASSUME NEW i \in 1..l-1, i # l-1 PROVE r.next[u[i]] = u[i+1]
    <3>1. i \in 1..l /\ i+1 \in 1..l /\ i+1 \in 1..l-1 /\ i # l /\ i+1 # l BY <2>7
    <3>2. CASE i+1 < k BY <1>4, <1>13, <2>2, <3>1, <3>2
    <3>3. CASE i+1 = k
      <4>1. u[i] = s[i] /\ u[i+1] = s[k+1] BY <2>2, <3>1, <3>3
      <4>2. r.next[s[i]] = n BY <1>13, <3>1, <3>3
      <4> QED BY <1>7, <3>1, <3>3, <4>1, <4>2
    <3>4. CASE k < i+1
      <4>1. u[i] = s[i+1] /\ u[i+1] = s[(i+1)+1] BY <1>4, <2>2, <3>1, <3>4
      <4>2. r.next[s[i+1]] = s[(i+1)+1] BY <1>4, <1>13, <3>1, <3>4
      <4> QED BY <4>1, <4>2
    <3> QED BY <1>4, <3>2, <3>3, <3>4
  <2>8. ASSUME NEW i \in 1..l-1, i # 1 PROVE r.prev[u[i]] = u[i-1]
    <3>1. i \in 1..l /\ i+1 \in 1..l /\ i-1 \in 1..l /\ i-1 \in 1..l-1 /\ i # l BY <2>8
    <3>2. CASE i < k
      <4>1. u[i] = s[i] /\ u[i-1] = s[i-1] BY <1>4, <2>2, <3>1, <3>2
      <4>2. i # k+1 BY <1>4, <3>2
      <4>3. r.prev[s[i]] = s[i-1] BY <1>13, <2>8, <3>1, <4>2
      <4> QED BY <4>1, <4>3
    <3>3. CASE i = k
      <4>1. u[i] = s[i+1] /\ u[i-1] = s[k-1] BY <2>2, <3>1, <3>3
      <4>2. r.prev[s[i+1]] = p BY <1>4, <1>13, <2>8, <3>1, <3>3
      <4> QED BY <1>7, <2>8, <3>3, <4>1, <4>2
    <3>4. CASE k < i
      <4>1. u[i] = s[i+1] /\ u[i-1] = s[i] BY <1>4, <2>2, <3>1, <3>4
      <4>2. r.prev[s[i+1]] = s[(i+1)-1] BY <1>4, <1>13, <3>1, <3>4
      <4> QED BY <4>1, <4>2
    <3> QED BY <1>4, <3>2, <3>3, <3>4
  <2>9. Threads(r, q, l-1, u) BY <2>1, <2>2, <2>4, <2>5, <2>6, <2>7, <2>8 DEF Threads
  <2>10. \A x : x \in S \ {e} <=> \E i \in 1..l-1 : u[i] = x
    <3>1. ASSUME NEW x, x \in S, x # e PROVE \E i \in 1..l-1 : u[i] = x
      <4>1. PICK i \in 1..l : s[i] = x BY <1>3, <3>1
      <4>2. i # k BY <1>4, <3>1, <4>1
      <4>3. CASE i < k
        <5>1. i \in 1..l-1 BY <1>4, <4>3
        <5> QED BY <2>2, <4>1, <4>3, <5>1
      <4>4. CASE k < i
        <5>1. i-1 \in 1..l-1 /\ ~(i-1 < k) /\ (i-1)+1 = i BY <1>4, <4>4
        <5> QED BY <2>2, <4>1, <5>1
      <4> QED BY <1>4, <4>2, <4>3, <4>4
    <3>2. ASSUME NEW i \in 1..l-1 PROVE u[i] \in S /\ u[i] # e
      <4>1. i \in 1..l /\ i+1 \in 1..l /\ k \in 1..l /\ i+1 # i BY <1>4, <2>3
      <4>2. CASE i < k BY <1>3, <1>4, <1>5, <2>2, <4>1, <4>2 DEF Threads
      <4>3. CASE ~(i < k)
        <5>1. i+1 # k BY <1>4, <4>3
        <5> QED BY <1>3, <1>4, <1>5, <2>2, <4>1, <4>3, <5>1 DEF Threads
      <4> QED BY <4>2, <4>3
    <3> QED BY <3>1, <3>2
  <2> QED BY <2>1, <2>9, <2>10 DEF Listed, Spell
<1> QED BY <1>11, <1>12, <1>14 DEF r

-----------------------------------------------------------------------------
(* The queues and the statuses *)
\* The ends of a list and the neighbours of what it lists.
LEMMA ListedNear ==
  ASSUME NEW m, NEW q, NEW S, Listed(m, q, S)
  PROVE  /\ S \subseteq Events
         /\ m.head[q] \in S \cup {NULL}
         /\ \A x \in S : /\ m.next[x] \in (S \ {x}) \cup {NULL}
                         /\ x # m.head[q] => m.prev[x] \in S \ {x}
<1>a. PICK n \in Nat : \E s : Spell(m, q, S, n, s) BY DEF Listed
<1>b. PICK s : Spell(m, q, S, n, s) BY <1>a
<1>1. Threads(m, q, n, s) /\ \A x : x \in S <=> \E i \in 1..n : s[i] = x
  BY <1>b DEF Spell
<1>2. S \subseteq Events /\ \A i \in 1..n : s[i] \in S BY <1>1 DEF Threads
<1>3. m.head[q] \in S \cup {NULL}
  <2>1. n # 0 => 1 \in 1..n OBVIOUS
  <2> QED BY <1>1, <1>2, <2>1 DEF Threads
<1>4. ASSUME NEW x \in S
      PROVE  m.next[x] \in (S \ {x}) \cup {NULL} /\ (x # m.head[q] => m.prev[x] \in S \ {x})
  <2>1. PICK i \in 1..n : s[i] = x BY <1>1
  <2>2. n # 0 /\ n \in 1..n /\ 1 \in 1..n BY <2>1
  <2>3. CASE i = n /\ i = 1 BY <1>1, <2>1, <2>2, <2>3 DEF Threads
  <2>4. i # n => /\ m.next[x] = s[i+1] /\ i+1 \in 1..n /\ i+1 # i
    BY <1>1, <2>1, <2>2 DEF Threads
  <2>5. i # 1 => /\ m.prev[x] = s[i-1] /\ i-1 \in 1..n /\ i-1 # i
    BY <1>1, <2>1, <2>2 DEF Threads
  <2>6. i = n => m.next[x] = NULL BY <1>1, <2>1, <2>2 DEF Threads
  <2>7. i = 1 => x = m.head[q] BY <1>1, <2>1, <2>2 DEF Threads
  <2>8. \A j \in 1..n : j # i => s[j] \in S \ {x} BY <1>1, <1>2, <2>1 DEF Threads
  <2> QED BY <2>4, <2>5, <2>6, <2>7, <2>8
<1> QED BY <1>2, <1>3, <1>4

\* An event that is taken out still points to what came after it.
LEMMA ListRmNext ==
  ASSUME NEW m \in Mem, NEW q \in Queues, NEW e \in Events, NEW S, Listed(m, q, S), e \in S
  PROVE  ListRm(m, q, e).next[e] = m.next[e]
<1>1. e # m.head[q] => m.prev[e] # e BY ListedNear
<1>2. CASE e = m.head[q] BY <1>2 DEF ListRm, ListInit, Mem
<1>3. CASE e # m.head[q] /\ e = m.tail[q]
  BY <1>1, <1>3 DEF ListRm, ListInit, Mem
<1>4. CASE e # m.head[q] /\ e # m.tail[q]
  BY <1>1, <1>4 DEF ListRm, Mem
<1> QED BY <1>2, <1>3, <1>4

\* An event that is added is the last one.
LEMMA ListAddNext ==
  ASSUME NEW m \in Mem, NEW q \in Queues, NEW e \in Events
  PROVE  ListAdd(m, q, e).next[e] = NULL
<1>1. CASE m.head[q] = NULL BY <1>1 DEF ListAdd, Mem
<1>2. CASE m.head[q] # NULL
  <2>1. ListAdd(m, q, e).next = [m.next EXCEPT ![m.tail[q]] = e, ![e] = NULL]
    BY <1>2 DEF ListAdd, Mem
  <2> QED BY <2>1 DEF Mem
<1> QED BY <1>1, <1>2

-----------------------------------------------------------------------------
(* The queues and the statuses *)

\* The waitQueue lists W, the signalQueue lists S, and the statuses say so but
\* for the events of X, which are in neither.
Filed(m, W, S, X) ==
  /\ m \in Mem /\ m.ok /\ W \cap S = {} /\ X \cap (W \cup S) = {}
  /\ Listed(m, "wait", W) /\ Listed(m, "signal", S)
  /\ \A x \in W : m.status[x] \in {"wait", "error"}
  /\ \A x \in S : m.status[x] \in {"signal", "close", "error"}
  /\ \A x \in Events \ X : /\ m.status[x] = "wait" => x \in W
                           /\ m.status[x] \in {"signal", "close"} => x \in S
  /\ \A x \in Listeners : m.status[x] # "close"

\* The names of the queues and the statuses, and that NULL is no event.
LEMMA Names ==
  /\ "wait" \in Queues /\ "signal" \in Queues /\ "wait" # "signal"
  /\ {"free", "init", "wait", "signal", "close", "error"} \subseteq Status
  /\ NULL \notin Events
  BY ConstantsAssumption DEF Queues, Status

\* A status is in no list.
LEMMA SetStatusListed ==
  ASSUME NEW m \in Mem, NEW e \in Events, NEW s \in Status, NEW q, NEW S, Listed(m, q, S)
  PROVE  Listed(SetStatus(m, e, s), q, S)
<1> DEFINE r == SetStatus(m, e, s)
<1>1. r.head = m.head /\ r.tail = m.tail /\ r.next = m.next /\ r.prev = m.prev
  BY DEF SetStatus, Mem
<1> HIDE DEF r
<1>2. Listed(r, q, S) BY <1>1, ListedKept
<1> QED BY <1>2 DEF r

\* Setting a status changes that one only.
LEMMA SetStatusKeeps ==
  ASSUME NEW m \in Mem, NEW e \in Events, NEW s \in Status
  PROVE  LET r == SetStatus(m, e, s)
         IN  /\ r \in Mem /\ r.ok = m.ok /\ r.next = m.next
             /\ r.status[e] = s /\ \A x \in Events : x # e => r.status[x] = m.status[x]
<1> DEFINE r == SetStatus(m, e, s)
<1>1. r.ok = m.ok /\ r.next = m.next BY DEF SetStatus, Mem
<1>2. r \in Mem /\ r.status = [m.status EXCEPT ![e] = s] BY SetStatusMem
<1> HIDE DEF r
<1>3. r.status[e] = s /\ \A x \in Events : x # e => r.status[x] = m.status[x] BY <1>2 DEF Mem
<1> QED BY <1>1, <1>2, <1>3 DEF r

\* A status is set: the event's, as the list that it is in asks for.
LEMMA SetStatusFiled ==
  ASSUME NEW m, NEW W, NEW S, NEW X, Filed(m, W, S, X), NEW e \in Events, NEW s \in Status,
         e \in W => s \in {"wait", "error"},
         e \in S => s \in {"signal", "close", "error"},
         s = "wait" => e \in W,
         s \in {"signal", "close"} => e \in S,
         s = "close" => e \in Buffers
  PROVE  Filed(SetStatus(m, e, s), W, S, X \ {e})
<1> DEFINE r == SetStatus(m, e, s)
<1>1. m \in Mem BY DEF Filed
<1>2. /\ r \in Mem /\ r.ok = m.ok
      /\ r.status[e] = s /\ \A x \in Events : x # e => r.status[x] = m.status[x]
  BY <1>1, SetStatusKeeps
<1>3. Listed(r, "wait", W) /\ Listed(r, "signal", S)
  BY <1>1, SetStatusListed DEF Filed
<1>4. W \subseteq Events /\ S \subseteq Events BY ListedNear DEF Filed
<1> HIDE DEF r
<1>5. ASSUME NEW x \in Events
      PROVE  /\ x \in W => r.status[x] \in {"wait", "error"}
             /\ x \in S => r.status[x] \in {"signal", "close", "error"}
             /\ x \notin X \ {e} => /\ r.status[x] = "wait" => x \in W
                                    /\ r.status[x] \in {"signal", "close"} => x \in S
  <2>1. CASE x = e BY <1>2, <2>1
  <2>2. CASE x # e BY <1>2, <2>2 DEF Filed
  <2> QED BY <2>1, <2>2
<1>6. r.ok /\ W \cap S = {} /\ (X \ {e}) \cap (W \cup S) = {} BY <1>2 DEF Filed
<1>7. \A x \in Listeners : r.status[x] # "close"
  <2>1. \A x \in Listeners : x \in Events /\ x \notin Buffers BY ConstantsAssumption DEF Events
  <2> QED BY <1>2, <2>1 DEF Filed
<1>8. Filed(r, W, S, X \ {e}) BY <1>2, <1>3, <1>4, <1>5, <1>6, <1>7 DEF Filed
<1> QED BY <1>8 DEF r

\* An event is taken out of the queue that lists it.
LEMMA ListRmFiled ==
  ASSUME NEW m, NEW W, NEW S, Filed(m, W, S, {}), NEW e \in Events
  PROVE  /\ e \in W => Filed(ListRm(m, "wait", e), W \ {e}, S, {e})
         /\ e \in S => /\ Filed(ListRm(m, "signal", e), W, S \ {e}, {e})
                       /\ ListRm(m, "signal", e).next[e] = m.next[e]
<1>1. /\ m \in Mem /\ W \cap S = {} /\ Listed(m, "wait", W) /\ Listed(m, "signal", S)
      /\ W \subseteq Events /\ S \subseteq Events
      /\ \A x \in W \cup S : m.status[x] # "free"
  BY ListedNear DEF Filed
<1>2. ASSUME e \in W PROVE Filed(ListRm(m, "wait", e), W \ {e}, S, {e})
  <2> DEFINE r == ListRm(m, "wait", e)
  <2>1. Listed(r, "wait", W \ {e}) /\ Listed(r, "signal", S) /\ r.ok = m.ok
    BY <1>1, <1>2, Names, ListRmListed
  <2>2. r \in Mem /\ r.status = m.status BY <1>1, Names, ListRmMem
  <2> HIDE DEF r
  <2>3. Filed(r, W \ {e}, S, {e}) BY <1>1, <1>2, <2>1, <2>2 DEF Filed
  <2> QED BY <2>3 DEF r
<1>3. ASSUME e \in S PROVE Filed(ListRm(m, "signal", e), W, S \ {e}, {e})
  <2> DEFINE r == ListRm(m, "signal", e)
  <2>1. Listed(r, "signal", S \ {e}) /\ Listed(r, "wait", W) /\ r.ok = m.ok
    BY <1>1, <1>3, Names, ListRmListed
  <2>2. r \in Mem /\ r.status = m.status BY <1>1, Names, ListRmMem
  <2> HIDE DEF r
  <2>3. Filed(r, W, S \ {e}, {e}) BY <1>1, <1>3, <2>1, <2>2 DEF Filed
  <2> QED BY <2>3 DEF r
<1>4. e \in S => ListRm(m, "signal", e).next[e] = m.next[e] BY <1>1, Names, ListRmNext
<1> QED BY <1>2, <1>3, <1>4

\* From m to r, e is added to q, which lists A, and not to o, which lists B.
Entered(m, q, o, e, A, B, r) ==
  /\ r \in Mem /\ r.ok = m.ok /\ r.next[e] = NULL
  /\ Listed(r, q, A \cup {e}) /\ Listed(r, o, B)
  /\ r.status[e] = q /\ \A x \in Events : x # e => r.status[x] = m.status[x]

\* What the code does wherever it adds an event to a queue.
LEMMA EnterListed ==
  ASSUME NEW m \in Mem, NEW q \in Queues, NEW o \in Queues, q # o, q \in Status,
         NEW e \in Events, NEW A, Listed(m, q, A), NEW B, Listed(m, o, B),
         e \notin A, e \notin B, A \cap B = {}, \A x \in A : m.status[x] # "free"
  PROVE  Entered(m, q, o, e, A, B, ListAdd(SetStatus(m, e, q), q, e))
<1> DEFINE d == SetStatus(m, e, q)
           r == ListAdd(d, q, e)
<1>1. /\ d \in Mem /\ d.ok = m.ok
      /\ d.status[e] = q /\ \A x \in Events : x # e => d.status[x] = m.status[x]
  BY SetStatusKeeps
<1>2. Listed(d, q, A) /\ Listed(d, o, B) BY SetStatusListed
<1> HIDE DEF d
<1>3. A \subseteq Events BY ListedNear
<1>4. \A x \in A : d.status[x] # "free" BY <1>1, <1>3
<1>5. Listed(r, q, A \cup {e}) /\ Listed(r, o, B) /\ r.ok = d.ok
  BY <1>1, <1>2, <1>4, ListAddListed
<1>6. r \in Mem /\ r.status = d.status /\ r.next[e] = NULL
  BY <1>1, ListAddMem, ListAddNext
<1> HIDE DEF r
<1>7. Entered(m, q, o, e, A, B, r) BY <1>1, <1>5, <1>6 DEF Entered
<1> QED BY <1>7 DEF r, d

\* An event that is in no queue is given the status of one and added to it.
LEMMA ListAddFiled ==
  ASSUME NEW m, NEW W, NEW S, NEW e \in Events, Filed(m, W, S, {e}) \/ Filed(m, W, S, {}),
         e \notin W, e \notin S
  PROVE  /\ LET r == ListAdd(SetStatus(m, e, "wait"), "wait", e)
            IN  Filed(r, W \cup {e}, S, {}) /\ r.next[e] = NULL
         /\ LET r == ListAdd(SetStatus(m, e, "signal"), "signal", e)
            IN  Filed(r, W, S \cup {e}, {}) /\ r.next[e] = NULL
<1>1. m \in Mem /\ m.ok /\ W \cap S = {} /\ Listed(m, "wait", W) /\ Listed(m, "signal", S)
      /\ W \subseteq Events /\ S \subseteq Events
  BY ListedNear DEF Filed
<1>2. /\ \A x \in W : m.status[x] \in {"wait", "error"}
      /\ \A x \in S : m.status[x] \in {"signal", "close", "error"}
      /\ \A x \in Events \ {e} : /\ m.status[x] = "wait" => x \in W
                                 /\ m.status[x] \in {"signal", "close"} => x \in S
      /\ \A x \in Listeners : x \in Events /\ m.status[x] # "close"
  BY DEF Filed, Events
<1>3. (\A x \in W : m.status[x] # "free") /\ (\A x \in S : m.status[x] # "free") BY <1>2
<1>a. /\ "wait" \in Queues /\ "signal" \in Queues /\ "wait" # "signal" /\ "signal" # "wait"
      /\ "wait" \in Status /\ "signal" \in Status
  BY Names
<1>b. S \cap W = {} BY <1>1
<1>4. LET r == ListAdd(SetStatus(m, e, "wait"), "wait", e)
      IN  Filed(r, W \cup {e}, S, {}) /\ r.next[e] = NULL
  <2> DEFINE r == ListAdd(SetStatus(m, e, "wait"), "wait", e)
  <2>1. /\ r \in Mem /\ r.ok = m.ok /\ r.next[e] = NULL
        /\ Listed(r, "wait", W \cup {e}) /\ Listed(r, "signal", S)
        /\ r.status[e] = "wait" /\ \A x \in Events : x # e => r.status[x] = m.status[x]
    <3>1. Entered(m, "wait", "signal", e, W, S, r) BY <1>1, <1>3, <1>a, <1>b, EnterListed
    <3> HIDE DEF r
    <3> QED BY <3>1 DEF Entered
  <2> HIDE DEF r
  <2>2. Filed(r, W \cup {e}, S, {}) BY <1>1, <1>2, <2>1 DEF Filed
  <2> QED BY <2>1, <2>2 DEF r
<1>5. LET r == ListAdd(SetStatus(m, e, "signal"), "signal", e)
      IN  Filed(r, W, S \cup {e}, {}) /\ r.next[e] = NULL
  <2> DEFINE r == ListAdd(SetStatus(m, e, "signal"), "signal", e)
  <2>1. /\ r \in Mem /\ r.ok = m.ok /\ r.next[e] = NULL
        /\ Listed(r, "signal", S \cup {e}) /\ Listed(r, "wait", W)
        /\ r.status[e] = "signal" /\ \A x \in Events : x # e => r.status[x] = m.status[x]
    <3>1. Entered(m, "signal", "wait", e, S, W, r) BY <1>1, <1>3, <1>a, <1>b, EnterListed
    <3> HIDE DEF r
    <3> QED BY <3>1 DEF Entered
  <2> HIDE DEF r
  <2>2. Filed(r, W, S \cup {e}, {}) BY <1>1, <1>2, <2>1 DEF Filed
  <2> QED BY <2>1, <2>2 DEF r
<1> QED BY <1>4, <1>5

-----------------------------------------------------------------------------
(* The calls *)

\* eventRmListen, of an event whose status tells where it is: it is in no
\* queue, and its next is what it was.
LEMMA RmListenFiled ==
  ASSUME NEW m, NEW W, NEW S, Filed(m, W, S, {}), NEW e \in Events,
         m.status[e] \notin {"close", "error"}
  PROVE  /\ Filed(RmListen(m, e), W \ {e}, S \ {e}, {})
         /\ RmListen(m, e).status[e] = "init"
         /\ \A x \in Events : x # e => RmListen(m, e).status[x] = m.status[x]
         /\ e \in S => RmListen(m, e).next[e] = m.next[e]
<1>1. m \in Mem /\ W \cap S = {} BY DEF Filed
<1>2. /\ RmListen(m, e).status[e] = "init"
      /\ \A x \in Events : x # e => RmListen(m, e).status[x] = m.status[x]
  <2>1. RmListen(m, e).status = [m.status EXCEPT ![e] = "init"] BY <1>1, RmListenMem
  <2> QED BY <1>1, <2>1 DEF Mem
<1>3. ASSUME NEW c, NEW A, NEW B, Filed(c, A, B, {e}) \/ Filed(c, A, B, {}), e \notin A, e \notin B
      PROVE  Filed(SetStatus(c, e, "init"), A, B, {}) /\ SetStatus(c, e, "init").next = c.next
  <2>1. SetStatus(c, e, "init").next = c.next BY <1>3, Names, SetStatusKeeps DEF Filed
  <2>2. {e} \ {e} = {} /\ {} \ {e} = {} OBVIOUS
  <2>3. Filed(c, A, B, {e}) => Filed(SetStatus(c, e, "init"), A, B, {e} \ {e})
    BY <1>3, Names, SetStatusFiled
  <2>4. Filed(c, A, B, {}) => Filed(SetStatus(c, e, "init"), A, B, {} \ {e})
    BY <1>3, Names, SetStatusFiled
  <2> QED BY <1>3, <2>1, <2>2, <2>3, <2>4
<1>4. CASE m.status[e] = "wait"
  <2>1. e \in W /\ e \notin S /\ S \ {e} = S BY <1>1, <1>4 DEF Filed
  <2>2. Filed(ListRm(m, "wait", e), W \ {e}, S, {e}) BY <2>1, ListRmFiled
  <2>3. RmListen(m, e) = SetStatus(ListRm(m, "wait", e), e, "init") BY <1>4 DEF RmListen
  <2> QED BY <1>2, <1>3, <2>1, <2>2, <2>3
<1>5. CASE m.status[e] = "signal"
  <2>1. e \in S /\ e \notin W /\ W \ {e} = W BY <1>1, <1>5 DEF Filed
  <2>2. Filed(ListRm(m, "signal", e), W, S \ {e}, {e}) /\ ListRm(m, "signal", e).next[e] = m.next[e]
    BY <2>1, ListRmFiled
  <2>3. RmListen(m, e) = SetStatus(ListRm(m, "signal", e), e, "init") BY <1>5 DEF RmListen
  <2> QED BY <1>2, <1>3, <2>1, <2>2, <2>3
<1>6. CASE m.status[e] \notin {"wait", "signal"}
  <2>1. e \notin W /\ e \notin S /\ W \ {e} = W /\ S \ {e} = S BY <1>6 DEF Filed
  <2>2. RmListen(m, e) = SetStatus(m, e, "init") BY <1>6 DEF RmListen
  <2> QED BY <1>2, <1>3, <2>1, <2>2
<1> QED BY <1>4, <1>5, <1>6

\* eventAddListen: what listens is at the end of the waitQueue.
LEMMA AddListenFiled ==
  ASSUME NEW m, NEW W, NEW S, Filed(m, W, S, {}), NEW e \in Events, m.status[e] = "init"
  PROVE  /\ Filed(AddListen(m, e), W \cup {e}, S, {}) /\ AddListen(m, e).next[e] = NULL
         /\ AddListen(m, e).status[e] = "wait"
         /\ \A x \in Events : x # e => AddListen(m, e).status[x] = m.status[x]
<1>1. e \notin W /\ e \notin S /\ m \in Mem BY DEF Filed
<1>2. AddListen(m, e) = ListAdd(SetStatus(m, e, "wait"), "wait", e) BY DEF AddListen
<1>3. Filed(AddListen(m, e), W \cup {e}, S, {}) /\ AddListen(m, e).next[e] = NULL
  <2> DEFINE r == ListAdd(SetStatus(m, e, "wait"), "wait", e)
  <2>1. Filed(r, W \cup {e}, S, {}) /\ r.next[e] = NULL BY <1>1, ListAddFiled
  <2> HIDE DEF r
  <2> QED BY <1>2, <2>1 DEF r
<1>4. \A x \in Events : x # e => AddListen(m, e).status[x] = m.status[x]
  BY <1>1, AddListenMem
<1>5. AddListen(m, e).status[e] = "wait"
  <2> DEFINE d == SetStatus(m, e, "wait")
  <2>1. d \in Mem /\ d.status[e] = "wait" BY <1>1, Names, SetStatusKeeps
  <2>2. AddListen(m, e) = ListAdd(d, "wait", e) BY <1>2
  <2> HIDE DEF d
  <2>3. ListAdd(d, "wait", e).status = d.status BY <2>1, Names, ListAddMem
  <2> QED BY <2>1, <2>2, <2>3
<1> QED BY <1>3, <1>4, <1>5

\* eventModListen: back into the waitQueue, wherever it was.
LEMMA ModListenFiled ==
  ASSUME NEW m, NEW W, NEW S, Filed(m, W, S, {}), NEW e \in Events,
         m.status[e] \notin {"close", "error"}
  PROVE  /\ Filed(ModListen(m, e), W \cup {e}, S \ {e}, {}) /\ ModListen(m, e).next[e] = NULL
         /\ ModListen(m, e).status[e] = "wait"
         /\ \A x \in Events : x # e => ModListen(m, e).status[x] = m.status[x]
<1> DEFINE c == RmListen(m, e)
<1>1. /\ Filed(c, W \ {e}, S \ {e}, {}) /\ c.status[e] = "init"
      /\ \A x \in Events : x # e => c.status[x] = m.status[x]
  BY RmListenFiled
<1>2. ModListen(m, e) = AddListen(c, e) BY DEF ModListen
<1> HIDE DEF c
<1>3. (W \ {e}) \cup {e} = W \cup {e} OBVIOUS
<1>4. /\ Filed(AddListen(c, e), (W \ {e}) \cup {e}, S \ {e}, {}) /\ AddListen(c, e).next[e] = NULL
      /\ AddListen(c, e).status[e] = "wait"
      /\ \A x \in Events : x # e => AddListen(c, e).status[x] = c.status[x]
  BY <1>1, AddListenFiled
<1> QED BY <1>1, <1>2, <1>3, <1>4

\* disBuffer
LEMMA DisBufferFiled ==
  ASSUME NEW m, NEW W, NEW S, Filed(m, W, S, {}), NEW e \in Events,
         m.status[e] \notin {"close", "error"}
  PROVE  /\ Filed(DisBuffer(m, e), W \ {e}, S \ {e}, {})
         /\ \A x \in Events : x # e => DisBuffer(m, e).status[x] = m.status[x]
<1> DEFINE c == RmListen(m, e)
<1>1. /\ Filed(c, W \ {e}, S \ {e}, {})
      /\ \A x \in Events : x # e => c.status[x] = m.status[x]
  BY RmListenFiled
<1>2. DisBuffer(m, e) = SetStatus(c, e, "free") BY DEF DisBuffer
<1> HIDE DEF c
<1>3. Filed(SetStatus(c, e, "free"), W \ {e}, S \ {e}, {} \ {e}) BY <1>1, Names, SetStatusFiled
<1>4. {} \ {e} = {} OBVIOUS
<1>5. \A x \in Events : x # e => SetStatus(c, e, "free").status[x] = c.status[x]
  BY <1>1, Names, SetStatusKeeps DEF Filed
<1> QED BY <1>1, <1>2, <1>3, <1>4, <1>5

-----------------------------------------------------------------------------
(* The loop *)

\* The events epoll_run has still to handle are registered: no callback runs
\* between epoll_wait and the end of its loop.
Reported == pc = "report" => batch \in Seq(epolled)

\* Every step keeps Reported.
LEMMA ReportedStep == TypeOK /\ Reported /\ [Next]_vars => Reported'
<1> SUFFICES ASSUME TypeOK, Reported, [Next]_vars PROVE Reported'
  OBVIOUS
<1>1. CASE UNCHANGED vars
  BY <1>1 DEF Reported, vars
<1>2. CASE Poll
  <2>1. PICK s \in Batches : EpollWait(s)
    BY <1>2 DEF Poll
  <2>2. PICK n \in 0..MaxBatch : s \in Injection(1..n, epolled \cap ready)
    BY DEF Batches
  <2>3. n \in Nat /\ s \in [1..n -> epolled]
    BY <2>2, ConstantsAssumption DEF Injection
  <2>4. s \in Seq(epolled)
    BY <2>3
  <2> QED
    BY <2>1, <2>4 DEF Reported, EpollWait
<1>3. CASE Report
  BY <1>3 DEF Reported, Report, At
<1>4. CASE Dispatch
  BY <1>4 DEF Reported, Dispatch, Returns, Use, Mod, Rm, Close, Error,
              CloseMod, Listen, ModOther, ErrOther, Discard
<1>5. CASE ReportEnd \/ DispatchEnd \/ SweepMove \/ SweepFailed \/ SweepSpin
           \/ SweepFreed \/ SweepEnd
  BY <1>5 DEF Reported, At, Sweeps, ReportEnd, DispatchEnd, SweepMove, SweepFailed,
              SweepSpin, SweepFreed, SweepEnd, vars
<1>6. CASE \E e \in Events : Arrive(e)
  BY <1>6 DEF Reported, Arrive
<1> QED
  BY <1>1, <1>2, <1>3, <1>4, <1>5, <1>6 DEF Next, Loop

\* Nothing of E has been removed or freed.
Unstray(m, E) == \A e \in E : m.status[e] \notin {"free", "init"}

\* Where the loop stands, as long as the queues have not come apart: the
\* callbacks are called along the signalQueue, and the sweep is at one of its
\* events.
Tidy ==
  ~apart =>
    /\ \E W \in SUBSET Events, S \in SUBSET Events :
         /\ Filed(mem, W, S, {})
         /\ pc \in {"dispatch", "closing"} /\ ev # NULL => ev \in S
         /\ pc = "sweep" /\ ev_next # NULL => ev \in S
    /\ Unstray(mem, epolled)

\* The listeners are in the waitQueue when the loop begins.
LEMMA TidyInit == Init => Tidy
<1> SUFFICES ASSUME Init PROVE Tidy
  OBVIOUS
<1> DEFINE n == Cardinality(Listeners)
<1>1. PICK s \in Injection(1..n, Listeners) :
        LET at(i) == IF i \in 1..n THEN s[i] ELSE NULL
            pos(e) == CHOOSE i \in 1..n : s[i] = e
        IN  mem = [head   |-> [q \in Queues |-> IF q = "wait" THEN at(1) ELSE NULL],
                   tail   |-> [q \in Queues |-> IF q = "wait" THEN at(n) ELSE NULL],
                   next   |-> [e \in Events |-> IF e \in Listeners THEN at(pos(e)+1) ELSE NULL],
                   prev   |-> [e \in Events |-> IF e \in Listeners THEN at(pos(e)-1) ELSE NULL],
                   status |-> [e \in Events |-> IF e \in Listeners THEN "wait" ELSE "free"],
                   ok     |-> TRUE]
  BY DEF Init
<1>2. n \in Nat /\ IsFiniteSet(Listeners)
  <2>1. IsFiniteSet(Listeners) BY ConstantsAssumption, FS_Subset DEF Events
  <2> QED BY <2>1, FS_CardinalityType
<1>3. s \in Surjection(1..n, Listeners)
  <2>1. IsFiniteSet(1..n) /\ Cardinality(1..n) = n BY <1>2, FS_Interval
  <2> QED BY <1>2, <2>1, FS_Injection
<1>4. /\ s \in [1..n -> Listeners]
      /\ \A i \in 1..n, j \in 1..n : s[i] = s[j] => i = j
      /\ \A e \in Listeners : \E i \in 1..n : s[i] = e
  BY <1>3 DEF Injection, Surjection, IsInjective
<1> HIDE DEF n
<1> DEFINE at(i) == IF i \in 1..n THEN s[i] ELSE NULL
           pos(e) == CHOOSE i \in 1..n : s[i] = e
<1>5. \A i \in 1..n : pos(s[i]) = i
  <2> TAKE i \in 1..n
  <2>1. pos(s[i]) \in 1..n /\ s[pos(s[i])] = s[i] OBVIOUS
  <2> HIDE DEF pos
  <2> QED BY <1>4, <2>1
<1>6. /\ mem.head["wait"] = at(1) /\ mem.tail["wait"] = at(n)
      /\ mem.head["signal"] = NULL /\ mem.tail["signal"] = NULL
      /\ \A e \in Listeners : mem.next[e] = at(pos(e)+1) /\ mem.prev[e] = at(pos(e)-1)
      /\ mem.status = [e \in Events |-> IF e \in Listeners THEN "wait" ELSE "free"]
      /\ mem.ok = TRUE
  <2> DEFINE hd == [q \in Queues |-> IF q = "wait" THEN at(1) ELSE NULL]
             tl == [q \in Queues |-> IF q = "wait" THEN at(n) ELSE NULL]
             nx == [e \in Events |-> IF e \in Listeners THEN at(pos(e)+1) ELSE NULL]
             pv == [e \in Events |-> IF e \in Listeners THEN at(pos(e)-1) ELSE NULL]
             st == [e \in Events |-> IF e \in Listeners THEN "wait" ELSE "free"]
  <2>1. mem = [head |-> hd, tail |-> tl, next |-> nx, prev |-> pv, status |-> st, ok |-> TRUE]
    BY <1>1
  <2> HIDE DEF at, pos
  <2>2. /\ hd["wait"] = at(1) /\ tl["wait"] = at(n) /\ hd["signal"] = NULL /\ tl["signal"] = NULL
        /\ \A e \in Listeners : nx[e] = at(pos(e)+1) /\ pv[e] = at(pos(e)-1)
    BY DEF Queues, Events
  <2> HIDE DEF hd, tl, nx, pv, st
  <2>3. mem.head = hd /\ mem.tail = tl /\ mem.next = nx /\ mem.prev = pv
        /\ mem.status = st /\ mem.ok = TRUE
    BY <2>1
  <2> QED BY <2>2, <2>3 DEF st
<1> HIDE DEF pos
<1>7. \A i \in 1..n : mem.next[s[i]] = at(i+1) /\ mem.prev[s[i]] = at(i-1)
  BY <1>4, <1>5, <1>6
<1>8. Threads(mem, "wait", n, s)
  <2>1. s \in [1..n -> Events] BY <1>4 DEF Events
  <2>2. n = 0 => mem.head["wait"] = NULL /\ mem.tail["wait"] = NULL BY <1>6
  <2>3. n # 0 => mem.head["wait"] = s[1] /\ mem.tail["wait"] = s[n] /\ mem.next[s[n]] = NULL
    <3>1. n # 0 => 1 \in 1..n /\ n \in 1..n /\ n+1 \notin 1..n BY <1>2
    <3> QED BY <1>6, <1>7, <3>1
  <2>4. \A i \in 1..n : i # n => mem.next[s[i]] = s[i+1]
    <3>1. \A i \in 1..n : i # n => i+1 \in 1..n BY <1>2
    <3> QED BY <1>7, <3>1
  <2>5. \A i \in 1..n : i # 1 => mem.prev[s[i]] = s[i-1]
    <3>1. \A i \in 1..n : i # 1 => i-1 \in 1..n BY <1>2
    <3> QED BY <1>7, <3>1
  <2> QED BY <1>4, <2>1, <2>2, <2>3, <2>4, <2>5 DEF Threads
<1>9. Listed(mem, "wait", Listeners)
  <2>1. \A x : x \in Listeners <=> \E i \in 1..n : s[i] = x BY <1>4
  <2> QED BY <1>2, <1>8, <2>1 DEF Listed, Spell
<1>10. Listed(mem, "signal", {})
  <2>1. Threads(mem, "signal", 0, <<>>)
    BY <1>6 DEF Threads
  <2> QED BY <2>1 DEF Listed, Spell
<1>11. Filed(mem, Listeners, {}, {})
  <2>1. mem \in Mem BY TypeOKInit DEF TypeOK
  <2>2. \A e \in Events : mem.status[e] = IF e \in Listeners THEN "wait" ELSE "free" BY <1>6
  <2>3. Listeners \subseteq Events BY DEF Events
  <2> QED BY <1>6, <1>9, <1>10, <2>1, <2>2, <2>3 DEF Filed
<1>12. Listeners \in SUBSET Events /\ {} \in SUBSET Events BY DEF Events
<1>13. epolled \in SUBSET Listeners /\ pc = "epoll" BY DEF Init
<1>14. Unstray(mem, epolled)
  <2>1. \A e \in Listeners : mem.status[e] = "wait" BY <1>6, <1>12
  <2> QED BY <1>13, <2>1 DEF Unstray
<1> QED BY <1>11, <1>12, <1>13, <1>14 DEF Tidy

\* A callback returns, and what it has made of the queues is in order.
LEMMA ReturnsTidy ==
  ASSUME NEW m, NEW W \in SUBSET Events, NEW S \in SUBSET Events, Filed(m, W, S, {}),
         Returns(m), m.next[ev] \in S \cup {NULL}, Unstray(m, epolled')
  PROVE  Tidy'
<1>1. mem' = m /\ ev' = m.next[ev] /\ pc' = "dispatch" BY DEF Returns, Checked, Filed
<1>2. Filed(mem', W, S, {}) /\ Unstray(mem', epolled') BY <1>1
<1>3. ev' # NULL => ev' \in S BY <1>1
<1> QED BY <1>1, <1>2, <1>3 DEF Tidy

\* Whatever a callback does, the queues are in order till they come apart.
LEMMA DispatchTidy ==
  ASSUME TypeOK, Tidy, Dispatch, ~apart'
  PROVE  Tidy'
<1>1. ~apart
  BY DEF Dispatch, Use, Mod, Rm, Close, Error, CloseMod, Listen, ModOther, ErrOther,
         Discard, Removes
<1>2. PICK W \in SUBSET Events, S \in SUBSET Events :
        /\ Filed(mem, W, S, {})
        /\ pc \in {"dispatch", "closing"} /\ ev # NULL => ev \in S
  BY <1>1 DEF Tidy
<1>3. /\ Unstray(mem, epolled) /\ epolled \in SUBSET Events /\ mem \in Mem
      /\ W \cap S = {} /\ Buffers \subseteq Events
  BY <1>1, <1>2 DEF Tidy, TypeOK, Filed, Events
<1>4. ASSUME NEW act, Calls(act)
      PROVE  /\ ev \in S /\ ev \in Events /\ ev # NULL
             /\ mem.status[ev] \in {"signal", "close", "error"}
  BY <1>2, <1>4 DEF Calls, Filed
<1>5. ASSUME NEW m, NEW B \in SUBSET Events, Filed(m, B, S, {}), ev \in S
      PROVE  m.next[ev] \in S \cup {NULL}
  BY <1>5, ListedNear DEF Filed
<1>6. ASSUME NEW f, Removes(f)
      PROVE  mem.status[f] \notin {"close", "error"}
  BY <1>6 DEF Removes
<1>7. CASE Use
  <2>1. Returns(mem) /\ ev \in S /\ epolled' = epolled BY <1>4, <1>7 DEF Use
  <2> QED BY <1>2, <1>3, <1>5, <2>1, ReturnsTidy
<1>8. ASSUME ev \in S, ev \in Events, Removes(ev), Returns(ModListen(mem, ev)),
             epolled' \subseteq epolled \cup {ev}
      PROVE  Tidy'
  <2> DEFINE m == ModListen(mem, ev)
  <2>1. /\ Filed(m, W \cup {ev}, S \ {ev}, {}) /\ m.next[ev] = NULL /\ m.status[ev] = "wait"
        /\ \A x \in Events : x # ev => m.status[x] = mem.status[x]
    BY <1>2, <1>6, <1>8, ModListenFiled
  <2>2. Returns(m) BY <1>8
  <2> HIDE DEF m
  <2>3. W \cup {ev} \in SUBSET Events /\ S \ {ev} \in SUBSET Events BY <1>8
  <2>4. Unstray(m, epolled')
    <3>1. \A x \in epolled' : x # ev => x \in epolled BY <1>8
    <3>2. m.status[ev] = "wait" /\ \A x \in Events : x # ev => m.status[x] = mem.status[x] BY <2>1
    <3> QED BY <1>3, <3>1, <3>2 DEF Unstray
  <2> QED BY <2>1, <2>2, <2>3, <2>4, ReturnsTidy
<1>9. CASE Mod
  <2>1. ev \in S /\ ev \in Events BY <1>4, <1>9 DEF Mod
  <2>2. Removes(ev) /\ Returns(ModListen(mem, ev)) BY <1>9 DEF Mod
  <2>3. epolled' \subseteq epolled \cup {ev} BY <1>9 DEF Mod, AddEpoll, RmEpoll
  <2> QED BY <1>8, <2>1, <2>2, <2>3
<1>10. CASE CloseMod
  <2>1. ev \in S /\ ev \in Events BY <1>4, <1>10 DEF CloseMod
  <2>2. Removes(ev) /\ Returns(ModListen(mem, ev)) BY <1>10 DEF CloseMod
  <2>3. epolled' \subseteq epolled \cup {ev} BY <1>10 DEF CloseMod, AddEpoll
  <2> QED BY <1>8, <2>1, <2>2, <2>3
<1>11. CASE Rm
  <2> DEFINE m == RmListen(mem, ev)
  <2>1. /\ ev \in S /\ ev \in Events /\ mem.status[ev] = "signal"
        /\ Returns(m) /\ epolled' = RmEpoll(ev)
    BY <1>4, <1>6, <1>11 DEF Rm
  <2>2. /\ Filed(m, W \ {ev}, S \ {ev}, {}) /\ m.next[ev] = mem.next[ev]
        /\ \A x \in Events : x # ev => m.status[x] = mem.status[x]
    BY <1>2, <2>1, RmListenFiled
  <2>3. mem.next[ev] \in (S \ {ev}) \cup {NULL} BY <1>2, <2>1, ListedNear DEF Filed
  <2>4. ev \notin epolled' /\ \A x \in epolled' : x \in epolled BY <2>1 DEF RmEpoll
  <2> HIDE DEF m
  <2>5. Unstray(m, epolled')
    <3>1. \A x \in Events : x # ev => m.status[x] = mem.status[x] BY <2>2
    <3> QED BY <1>3, <2>4, <3>1 DEF Unstray
  <2>6. W \ {ev} \in SUBSET Events /\ S \ {ev} \in SUBSET Events OBVIOUS
  <2> QED BY <2>1, <2>2, <2>3, <2>5, <2>6, ReturnsTidy
<1>12. CASE Close
  <2> DEFINE m == SetStatus(mem, ev, "close")
  <2>1. /\ ev \in S /\ ev \in Events /\ ev \in Buffers /\ mem' = m /\ pc' = "closing"
        /\ UNCHANGED <<epolled, ev, ev_next, apart>>
    BY <1>4, <1>12 DEF Close
  <2>2. Filed(m, W, S, {} \ {ev})
    BY <1>2, <1>3, <2>1, Names, SetStatusFiled
  <2>3. m.status[ev] = "close" /\ \A x \in Events : x # ev => m.status[x] = mem.status[x]
    <3>1. ev \in Events BY <2>1
    <3> QED BY <1>3, <3>1, Names, SetStatusKeeps
  <2> HIDE DEF m
  <2>4. Filed(mem', W, S, {})
    <3>1. {} \ {ev} = {} OBVIOUS
    <3> QED BY <2>1, <2>2, <3>1
  <2>5. Unstray(m, epolled) BY <1>3, <2>3 DEF Unstray
  <2>6. Unstray(mem', epolled') BY <2>1, <2>5
  <2> QED BY <2>1, <2>4, <2>6 DEF Tidy
<1>13. ASSUME NEW f \in Events, mem.status[f] \notin {"free", "init"}, ev \in S,
              Returns(SetStatus(mem, f, "error")), epolled' = epolled
       PROVE  Tidy'
  <2> DEFINE m == SetStatus(mem, f, "error")
  <2>1. Filed(m, W, S, {} \ {f}) BY <1>2, Names, SetStatusFiled
  <2>2. m.status[f] = "error" /\ \A x \in Events : x # f => m.status[x] = mem.status[x]
    BY <1>3, Names, SetStatusKeeps
  <2>3. Returns(m) BY <1>13
  <2> HIDE DEF m
  <2>4. Filed(m, W, S, {})
    <3>1. {} \ {f} = {} OBVIOUS
    <3> QED BY <2>1, <3>1
  <2>5. Unstray(m, epolled) BY <1>3, <2>2 DEF Unstray
  <2>6. Unstray(m, epolled') BY <1>13, <2>5
  <2>7. m.next[ev] \in S \cup {NULL} BY <1>5, <1>13, <2>4
  <2> QED BY <2>3, <2>4, <2>6, <2>7, ReturnsTidy
<1>14. CASE Error
  <2>1. ev \in S /\ ev \in Events /\ mem.status[ev] \notin {"free", "init"}
    BY <1>4, <1>14 DEF Error
  <2>2. Returns(SetStatus(mem, ev, "error")) /\ epolled' = epolled BY <1>14 DEF Error
  <2> QED BY <1>13, <2>1, <2>2
<1>15. ASSUME NEW f \in Buffers, ErrOther(f) PROVE Tidy'
  <2>1. ev \in S /\ f \in Events BY <1>3, <1>4, <1>15 DEF ErrOther
  <2>2. /\ mem.status[f] \notin {"free", "init"}
        /\ Returns(SetStatus(mem, f, "error")) /\ epolled' = epolled
    BY <1>15 DEF ErrOther
  <2> QED BY <1>13, <2>1, <2>2
<1>16. ASSUME NEW f \in Events, Listen(f) PROVE Tidy'
  <2> DEFINE c == SetStatus(mem, f, "init")
             m == AddListen(c, f)
  <2>1. /\ ev \in S /\ mem.status[f] \in {"free", "init"} /\ Returns(m)
        /\ epolled' \in AddEpoll(epolled, f)
    BY <1>4, <1>16 DEF Listen
  <2>2. f \notin W /\ f \notin S BY <1>2, <2>1 DEF Filed
  <2>3. Filed(c, W, S, {} \ {f}) BY <1>2, <2>2, Names, SetStatusFiled
  <2>4. c.status[f] = "init" /\ \A x \in Events : x # f => c.status[x] = mem.status[x]
    BY <1>3, Names, SetStatusKeeps
  <2> HIDE DEF c
  <2>5. Filed(c, W, S, {})
    <3>1. {} \ {f} = {} OBVIOUS
    <3> QED BY <2>3, <3>1
  <2>6. /\ Filed(m, W \cup {f}, S, {}) /\ m.status[f] = "wait"
        /\ \A x \in Events : x # f => m.status[x] = c.status[x]
    BY <2>4, <2>5, AddListenFiled
  <2> HIDE DEF m
  <2>7. \A x \in Events : x # f => m.status[x] = mem.status[x] BY <2>4, <2>6
  <2>8. Unstray(m, epolled')
    <3>1. \A x \in epolled' : x # f => x \in epolled BY <2>1 DEF AddEpoll
    <3>2. m.status[f] = "wait" BY <2>6
    <3> QED BY <1>3, <2>7, <3>1, <3>2 DEF Unstray
  <2>9. W \cup {f} \in SUBSET Events OBVIOUS
  <2>10. m.next[ev] \in S \cup {NULL} BY <1>5, <2>1, <2>6, <2>9
  <2> QED BY <2>1, <2>6, <2>8, <2>9, <2>10, ReturnsTidy
<1>17. ASSUME NEW f \in Buffers, ModOther(f) PROVE Tidy'
  <2> DEFINE m == ModListen(mem, f)
  <2>1. /\ ev \in S /\ f \in Events /\ f # ev /\ Returns(m) /\ Removes(f)
        /\ epolled' \in AddEpoll(RmEpoll(f), f)
    BY <1>3, <1>4, <1>17 DEF ModOther
  <2>2. /\ Filed(m, W \cup {f}, S \ {f}, {}) /\ m.status[f] = "wait"
        /\ \A x \in Events : x # f => m.status[x] = mem.status[x]
    BY <1>2, <1>6, <2>1, ModListenFiled
  <2> HIDE DEF m
  <2>3. \A x \in epolled' : x # f => x \in epolled BY <2>1 DEF AddEpoll, RmEpoll
  <2>4. Unstray(m, epolled')
    <3>1. m.status[f] = "wait" /\ \A x \in Events : x # f => m.status[x] = mem.status[x] BY <2>2
    <3> QED BY <1>3, <2>3, <3>1 DEF Unstray
  <2>5. W \cup {f} \in SUBSET Events /\ S \ {f} \in SUBSET Events BY <2>1
  <2>6. m.next[ev] \in (S \ {f}) \cup {NULL} BY <2>1, <2>2, ListedNear DEF Filed
  <2> QED BY <2>1, <2>2, <2>4, <2>5, <2>6, ReturnsTidy
<1>18. ASSUME NEW f \in Buffers, Discard(f) PROVE Tidy'
  <2> DEFINE m == DisBuffer(mem, f)
  <2>1. /\ ev \in S /\ f \in Events /\ f # ev /\ Returns(m) /\ Removes(f)
        /\ mem.status[f] # "free" /\ epolled' = RmEpoll(f)
    BY <1>3, <1>4, <1>18 DEF Discard
  <2>2. /\ Filed(m, W \ {f}, S \ {f}, {})
        /\ \A x \in Events : x # f => m.status[x] = mem.status[x]
    BY <1>2, <1>6, <2>1, DisBufferFiled
  <2> HIDE DEF m
  <2>3. f \notin epolled' /\ \A x \in epolled' : x \in epolled
    <3>1. mem.status[f] \in {"init", "wait", "signal"} BY <1>3, <1>6, <2>1 DEF Mem, Status
    <3>2. mem.status[f] = "init" => f \notin epolled BY <1>3 DEF Unstray
    <3> QED BY <2>1, <3>1, <3>2 DEF RmEpoll
  <2>4. Unstray(m, epolled') BY <1>3, <2>2, <2>3 DEF Unstray
  <2>5. W \ {f} \in SUBSET Events /\ S \ {f} \in SUBSET Events OBVIOUS
  <2>6. m.next[ev] \in (S \ {f}) \cup {NULL} BY <2>1, <2>2, ListedNear DEF Filed
  <2> QED BY <2>1, <2>2, <2>4, <2>5, <2>6, ReturnsTidy
<1> QED BY <1>7, <1>9, <1>10, <1>11, <1>12, <1>14, <1>15, <1>16, <1>17, <1>18 DEF Dispatch

\* A reported event goes from the waitQueue to the end of the signalQueue.
LEMMA ReportTidy ==
  ASSUME TypeOK, Reported, Tidy, Report, ~apart'
  PROVE  Tidy'
<1> DEFINE e == Head(batch)
           c == ListRm(mem, "wait", e)
           d == SetStatus(c, e, "signal")
           r == ListAdd(d, "signal", e)
<1>1. /\ pc = "report" /\ batch # <<>> /\ UNCHANGED <<epolled, pc>>
      /\ ~apart /\ mem.status[e] \notin {"signal", "close", "error"}
  BY DEF Report, At
<1>2. PICK W \in SUBSET Events, S \in SUBSET Events : Filed(mem, W, S, {})
  BY <1>1 DEF Tidy
<1>3. /\ Unstray(mem, epolled) /\ epolled \in SUBSET Events /\ mem \in Mem
      /\ batch \in Seq(epolled)
  BY <1>1 DEF Tidy, TypeOK, Reported
<1>4. e \in epolled /\ e \in Events BY <1>1, <1>3, HeadTailProperties
<1>5. mem.status[e] = "wait"
  <2>1. mem.status[e] \in Status BY <1>3, <1>4 DEF Mem
  <2>2. mem.status[e] \notin {"free", "init"} BY <1>3, <1>4 DEF Unstray
  <2> QED BY <1>1, <2>1, <2>2 DEF Status
<1>6. mem' = Checked(r) BY <1>5 DEF Report
<1> HIDE DEF e
<1>7. e \in W /\ e \notin S BY <1>2, <1>4, <1>5 DEF Filed
<1>8. Filed(c, W \ {e}, S, {e}) BY <1>2, <1>4, <1>7, ListRmFiled
<1>9. c \in Mem /\ c.status = mem.status BY <1>3, <1>4, Names, ListRmMem
<1> HIDE DEF c
<1>10. Filed(r, W \ {e}, S \cup {e}, {})
  <2>1. e \notin W \ {e} OBVIOUS
  <2> QED BY <1>4, <1>7, <1>8, <2>1, ListAddFiled
<1>11. d \in Mem /\ d.status[e] = "signal" /\ \A x \in Events : x # e => d.status[x] = c.status[x]
  <2>1. d \in Mem /\ d.status = [c.status EXCEPT ![e] = "signal"]
    BY <1>4, <1>9, Names, SetStatusMem
  <2> HIDE DEF d
  <2> QED BY <1>4, <1>9, <2>1 DEF Mem
<1> HIDE DEF d
<1>12. r.status = d.status BY <1>4, <1>11, Names, ListAddMem
<1> HIDE DEF r
<1>13. Unstray(r, epolled) BY <1>3, <1>9, <1>11, <1>12 DEF Unstray
<1>14. mem' = r BY <1>6, <1>10 DEF Checked, Filed
<1>15. Filed(mem', W \ {e}, S \cup {e}, {}) /\ Unstray(mem', epolled')
  BY <1>1, <1>10, <1>13, <1>14
<1>16. W \ {e} \in SUBSET Events /\ S \cup {e} \in SUBSET Events BY <1>4
<1> QED BY <1>1, <1>15, <1>16 DEF Tidy

\* The sweep takes an event back to the waitQueue, and ends there.
LEMMA SweepMoveTidy ==
  ASSUME TypeOK, Tidy, SweepMove, ~apart'
  PROVE  Tidy'
<1> DEFINE c == ListRm(mem, "signal", ev)
           d == SetStatus(c, ev, "wait")
           r == ListAdd(d, "wait", ev)
<1>1. /\ pc = "sweep" /\ ev_next # NULL /\ UNCHANGED <<epolled, pc>> /\ ~apart
      /\ mem.status[ev] = "signal" /\ mem' = Checked(r) /\ ev_next' = mem'.next[ev]
  BY DEF SweepMove, Sweeps, At
<1>2. PICK W \in SUBSET Events, S \in SUBSET Events : Filed(mem, W, S, {}) /\ ev \in S
  BY <1>1 DEF Tidy
<1>3. Unstray(mem, epolled) /\ epolled \in SUBSET Events /\ mem \in Mem /\ ev \in Events
  BY <1>1, <1>2 DEF Tidy, TypeOK
<1>4. ev \notin W BY <1>2 DEF Filed
<1>5. Filed(c, W, S \ {ev}, {ev}) BY <1>2, <1>3, ListRmFiled
<1>6. c \in Mem /\ c.status = mem.status BY <1>3, Names, ListRmMem
<1> HIDE DEF c
<1>7. Filed(r, W \cup {ev}, S \ {ev}, {}) /\ r.next[ev] = NULL
  <2>1. ev \notin S \ {ev} OBVIOUS
  <2> QED BY <1>3, <1>4, <1>5, <2>1, ListAddFiled
<1>8. d \in Mem /\ d.status[ev] = "wait" /\ \A x \in Events : x # ev => d.status[x] = c.status[x]
  <2>1. d \in Mem /\ d.status = [c.status EXCEPT ![ev] = "wait"]
    BY <1>3, <1>6, Names, SetStatusMem
  <2> HIDE DEF d
  <2> QED BY <1>3, <1>6, <2>1 DEF Mem
<1> HIDE DEF d
<1>9. r.status = d.status BY <1>3, <1>8, Names, ListAddMem
<1> HIDE DEF r
<1>10. Unstray(r, epolled) BY <1>3, <1>6, <1>8, <1>9 DEF Unstray
<1>11. mem' = r /\ ev_next' = NULL BY <1>1, <1>7 DEF Checked, Filed
<1>12. Filed(mem', W \cup {ev}, S \ {ev}, {}) /\ Unstray(mem', epolled')
  BY <1>1, <1>7, <1>10, <1>11
<1>13. W \cup {ev} \in SUBSET Events /\ S \ {ev} \in SUBSET Events BY <1>3
<1> QED BY <1>1, <1>11, <1>12, <1>13 DEF Tidy

\* The sweep takes out an event that has closed or failed: a buffer that has
\* closed is freed, a listener that has failed is left in neither queue.
LEMMA SweepFailedTidy ==
  ASSUME TypeOK, Tidy, SweepFailed, ~apart'
  PROVE  Tidy'
<1> DEFINE c == ListRm(mem, "signal", ev)
           d == SetStatus(c, ev, "init")
           r == SetStatus(d, ev, "free")
<1>1. /\ pc = "sweep" /\ ev_next # NULL /\ UNCHANGED pc /\ ~apart
      /\ mem.status[ev] \in {"close", "error"} /\ ev_next' = NULL
      /\ ev \in Buffers => mem.status[ev] # "error"
      /\ \/ mem' = Checked(c) /\ epolled' = epolled /\ ev \in Listeners
         \/ mem' = Checked(DisBuffer(c, ev)) /\ epolled' = epolled \ {ev} /\ ev \in Buffers
  BY DEF SweepFailed, Sweeps, At
<1>2. PICK W \in SUBSET Events, S \in SUBSET Events : Filed(mem, W, S, {}) /\ ev \in S
  BY <1>1 DEF Tidy
<1>3. Unstray(mem, epolled) /\ epolled \in SUBSET Events /\ mem \in Mem /\ ev \in Events
  BY <1>1, <1>2 DEF Tidy, TypeOK
<1>4. Filed(c, W, S \ {ev}, {ev}) BY <1>2, <1>3, ListRmFiled
<1>5. c \in Mem /\ c.status = mem.status BY <1>3, Names, ListRmMem
<1>6. S \ {ev} \in SUBSET Events OBVIOUS
<1> HIDE DEF c
<1>7. ASSUME ev \in Buffers, mem' = Checked(DisBuffer(c, ev)), epolled' = epolled \ {ev}
      PROVE  Tidy'
  <2>1. mem.status[ev] = "close" BY <1>1, <1>7
  <2>2. RmListen(c, ev) = d BY <1>5, <2>1 DEF RmListen
  <2>3. DisBuffer(c, ev) = r BY <2>2 DEF DisBuffer
  <2>4. ev \notin W /\ ev \notin S \ {ev} BY <1>4 DEF Filed
  <2>5. Filed(d, W, S \ {ev}, {ev} \ {ev}) BY <1>3, <1>4, <2>4, Names, SetStatusFiled
  <2>6. d \in Mem /\ \A x \in Events : x # ev => d.status[x] = c.status[x]
    <3>1. d \in Mem /\ d.status = [c.status EXCEPT ![ev] = "init"]
      BY <1>3, <1>5, Names, SetStatusMem
    <3> HIDE DEF d
    <3> QED BY <1>3, <1>5, <3>1 DEF Mem
  <2> HIDE DEF d
  <2>7. Filed(r, W, S \ {ev}, ({ev} \ {ev}) \ {ev}) BY <1>3, <2>4, <2>5, Names, SetStatusFiled
  <2>8. \A x \in Events : x # ev => r.status[x] = d.status[x]
    BY <1>3, <2>6, Names, SetStatusKeeps
  <2> HIDE DEF r
  <2>9. Filed(r, W, S \ {ev}, {})
    <3>1. ({ev} \ {ev}) \ {ev} = {} OBVIOUS
    <3> QED BY <2>7, <3>1
  <2>10. mem' = r BY <1>7, <2>3, <2>9 DEF Checked, Filed
  <2>11. Unstray(r, epolled') BY <1>3, <1>5, <1>7, <2>6, <2>8 DEF Unstray
  <2>12. Filed(mem', W, S \ {ev}, {}) /\ Unstray(mem', epolled') BY <2>9, <2>10, <2>11
  <2> QED BY <1>1, <1>6, <2>12 DEF Tidy
<1>8. ASSUME ev \in Listeners, mem' = Checked(c), epolled' = epolled
      PROVE  Tidy'
  <2>1. mem' = c BY <1>4, <1>8 DEF Checked, Filed
  <2>2. c.status[ev] \in {"close", "error"} BY <1>1, <1>5
  <2>3. Filed(c, W, S \ {ev}, {})
    <3>1. mem.status[ev] = "error" BY <1>1, <1>2, <1>8 DEF Filed
    <3> QED BY <1>4, <1>5, <3>1 DEF Filed
  <2>4. Unstray(c, epolled) BY <1>3, <1>5 DEF Unstray
  <2>5. Filed(mem', W, S \ {ev}, {}) /\ Unstray(mem', epolled') BY <1>8, <2>1, <2>3, <2>4
  <2> QED BY <1>1, <1>6, <2>5 DEF Tidy
<1> QED BY <1>1, <1>7, <1>8

\* Every step keeps the loop tidy.
LEMMA TidyStep ==
  TypeOK /\ Sweeping /\ Reported /\ Tidy /\ [Next]_vars => Tidy'
<1> SUFFICES ASSUME TypeOK, Reported, Tidy, [Next]_vars, ~apart' PROVE Tidy'
  BY DEF Tidy
<1>1. CASE UNCHANGED vars BY <1>1 DEF Tidy, vars
<1>2. CASE \E e \in Events : Arrive(e) BY <1>2 DEF Tidy, Arrive
<1>3. CASE Poll BY <1>3 DEF Tidy, Poll, EpollWait
<1>4. CASE Report BY <1>4, ReportTidy
<1>5. CASE ReportEnd
  <2>1. /\ ~apart /\ pc' = "dispatch" /\ ev' = mem.head["signal"] /\ UNCHANGED <<mem, epolled>>
    BY <1>5 DEF ReportEnd
  <2>2. PICK W \in SUBSET Events, S \in SUBSET Events : Filed(mem, W, S, {}) BY <2>1 DEF Tidy
  <2>3. Unstray(mem, epolled) BY <2>1 DEF Tidy
  <2>4. mem.head["signal"] \in S \cup {NULL} BY <2>2, ListedNear DEF Filed
  <2> QED BY <2>1, <2>2, <2>3, <2>4 DEF Tidy
<1>6. CASE Dispatch BY <1>6, DispatchTidy
<1>7. CASE DispatchEnd
  <2>1. /\ ~apart /\ pc' = "sweep" /\ ev' = mem.head["signal"] /\ ev_next' = ev'
        /\ UNCHANGED <<mem, epolled>>
    BY <1>7 DEF DispatchEnd
  <2>2. PICK W \in SUBSET Events, S \in SUBSET Events : Filed(mem, W, S, {}) BY <2>1 DEF Tidy
  <2>3. Unstray(mem, epolled) BY <2>1 DEF Tidy
  <2>4. mem.head["signal"] \in S \cup {NULL} BY <2>2, ListedNear DEF Filed
  <2> QED BY <2>1, <2>2, <2>3, <2>4 DEF Tidy
<1>8. CASE SweepMove BY <1>8, SweepMoveTidy
<1>9. CASE SweepFailed BY <1>9, SweepFailedTidy
<1>10. CASE SweepSpin BY <1>1, <1>10 DEF SweepSpin
<1>11. CASE SweepFreed
  <2>1. ~apart /\ pc = "sweep" /\ ev_next # NULL /\ mem.status[ev] = "free"
    BY <1>11 DEF SweepFreed, Sweeps, At
  <2>2. PICK W \in SUBSET Events, S \in SUBSET Events : Filed(mem, W, S, {}) /\ ev \in S
    BY <2>1 DEF Tidy
  <2> QED BY <2>1, <2>2 DEF Filed
<1>12. CASE SweepEnd
  <2>1. ~apart /\ pc' = "epoll" /\ UNCHANGED <<mem, epolled>> BY <1>12 DEF SweepEnd
  <2> QED BY <2>1 DEF Tidy
<1> QED BY <1>1, <1>2, <1>3, <1>4, <1>5, <1>6, <1>7, <1>8, <1>9, <1>10, <1>11, <1>12
        DEF Next, Loop

\* The inductive invariant of the three theorems below.
Orderly == TypeOK /\ Sweeping /\ Reported /\ Tidy

LEMMA OrderlyAlways == Spec => []Orderly
<1>1. Init => Orderly
  BY TypeOKInit, TidyInit DEF Init, Sweeping, Reported, Orderly
<1>2. Orderly /\ [Next]_vars => Orderly'
  BY TypeOKStep, SweepingStep, ReportedStep, TidyStep DEF Orderly
<1> QED BY <1>1, <1>2, PTL DEF Spec

\* However many events are reported together and whatever the callbacks do:
\* until the queues come apart in one of the three ways, NULL and freed memory
\* are not used as events, and the waitQueue and the signalQueue list, in both
\* directions, the events whose statuses say so, and events that have failed.
THEOREM QueuesAgreeHolds == Spec => []QueuesAgree
<1>1. Orderly => QueuesAgree
  <2> SUFFICES ASSUME Orderly, ~apart
               PROVE  /\ mem.ok
                      /\ \E Fw \in SUBSET InStatus("error") :
                           \E Fs \in SUBSET (InStatus("error") \ Fw) :
                             /\ Lists("wait", InStatus("wait") \cup Fw)
                             /\ Lists("signal", InStatus("signal") \cup InStatus("close") \cup Fs)
    BY DEF QueuesAgree
  <2>1. PICK W \in SUBSET Events, S \in SUBSET Events : Filed(mem, W, S, {})
    BY DEF Orderly, Tidy
  <2> DEFINE Fw == W \cap InStatus("error")
             Fs == S \cap InStatus("error")
  <2>2. Fw \in SUBSET InStatus("error") /\ Fs \in SUBSET (InStatus("error") \ Fw)
    BY <2>1 DEF Filed
  <2>3. W = InStatus("wait") \cup Fw BY <2>1 DEF Filed, InStatus
  <2>4. S = InStatus("signal") \cup InStatus("close") \cup Fs BY <2>1 DEF Filed, InStatus
  <2>5. Lists("wait", W) /\ Lists("signal", S) BY <2>1, ListedLists DEF Filed
  <2>6. Lists("wait", InStatus("wait") \cup Fw) BY <2>3, <2>5
  <2>7. Lists("signal", InStatus("signal") \cup InStatus("close") \cup Fs) BY <2>4, <2>5
  <2>8. mem.ok BY <2>1 DEF Filed
  <2> HIDE DEF Fw, Fs
  <2> QED BY <2>2, <2>6, <2>7, <2>8
<1> QED BY <1>1, OrderlyAlways, PTL

\* Till then the loop over the callbacks calls no event that waits, was
\* removed or was freed, although callbacks change the queue under it.
THEOREM CallsReportedHolds == Spec => []CallsReported
<1>1. Orderly => CallsReported
  BY DEF Orderly, Tidy, CallsReported, Filed
<1> QED BY <1>1, OrderlyAlways, PTL

\* Till then epoll watches no event that has been removed or freed.
THEOREM NoneStrayHolds == Spec => []NoneStray
<1>1. Orderly => NoneStray
  BY DEF Orderly, Tidy, NoneStray, Unstray, InStatus
<1> QED BY <1>1, OrderlyAlways, PTL
=============================================================================
