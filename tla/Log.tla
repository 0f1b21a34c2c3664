-------------------------------- MODULE Log --------------------------------
(***************************************************************************)
(* The log of src/src/log.c as several threads use it: one global handler, *)
(* GLOGHANDLER, which INIT_LOG sets and which the first write_fmt_log or   *)
(* write_log creates when it is still NULL, without a lock.                *)
(*                                                                         *)
(* The macros LOG_DEBUG ... LOG_FATAL pass GLOGHANDLER as the argument log,*)
(* so that it is read twice: at the call and in the test.  One step is one *)
(* access of GLOGHANDLER, the allocation and opening of a handler, or one  *)
(* stdio call, each of which locks its stream.                             *)
(*                                                                         *)
(* A stream is the sequence of parts printed to it.  The seek, sync, size  *)
(* and buffer calls and uinit_log, which has no caller, are left out.      *)
(***************************************************************************)
EXTENDS Naturals, Sequences, FiniteSets

CONSTANTS
  Threads,
  Handlers,       \* the log_handler structures malloc returns
  Levels,         \* the levels of messages and of INIT_LOG, with log_debug and log_info
  MaxCalls,       \* how many calls each thread makes
  MallocMayFail,
  NULL

log_debug == 0
log_info == 1

ASSUME ConstantsAssumption ==
  /\ {log_debug, log_info} \subseteq Levels /\ Levels \subseteq 0..3
  /\ NULL \notin Handlers \cup Threads
  /\ MaxCalls \in Nat /\ MallocMayFail \in BOOLEAN

VARIABLES
  GLOGHANDLER,
  made,   \* the handlers: [maker, fpath, level]
  out,    \* the parts printed to each handler's stream
  pc,     \* control point of each thread
  call,   \* the call each thread is in: [kind, level, log]
  calls,  \* how many calls each thread has begun
  lost,   \* the messages, as <<thread, number>>, lost for want of a handler
  alive,  \* FALSE after a failed assert
  nulled, \* how many times GLOGHANDLER has been set to NULL
  redirected, \* INIT_LOG has set a handler, and GLOGHANDLER was not set to NULL since
  racing  \* who was creating the handler for /dev/stderr at the last such INIT_LOG

vars == <<GLOGHANDLER, made, out, pc, call, calls, lost, alive, nulled, redirected, racing>>

\* INIT_LOG with a path, and with NULL for it.
InitKinds == {"init", "clear"}
Kinds == {"fmt", "raw"} \cup InitKinds
Paths == {"stderr", "given"}
None == [maker |-> NULL, fpath |-> "stderr", level |-> log_debug]

Init ==
  /\ GLOGHANDLER = NULL
  /\ made = [h \in Handlers |-> None]
  /\ out = [h \in Handlers |-> <<>>]
  /\ pc = [t \in Threads |-> "idle"]
  /\ call = [t \in Threads |-> [kind |-> "fmt", level |-> log_debug, log |-> NULL]]
  /\ calls = [t \in Threads |-> 0]
  /\ lost = {} /\ alive = TRUE /\ nulled = 0
  /\ redirected = FALSE /\ racing = {}

At(t, p) == alive /\ pc[t] = p
Goto(t, p) == pc' = [pc EXCEPT ![t] = p]

\* The threads that are creating the handler for /dev/stderr.
Creating == {t \in Threads : pc[t] \in {"create", "assign"} /\ call[t].kind \notin InitKinds}

-----------------------------------------------------------------------------
(* write_fmt_log (kind "fmt") and write_log ("raw") *)

\* The call: the macro reads GLOGHANDLER.  write_log has no level.
Call(t, kind, level) ==
  /\ At(t, "idle") /\ calls[t] < MaxCalls
  /\ kind = "raw" => level = log_info
  /\ kind = "clear" => level = log_debug
  /\ call' = [call EXCEPT ![t] = [kind |-> kind, level |-> level, log |-> GLOGHANDLER]]
  /\ calls' = [calls EXCEPT ![t] = @ + 1]
  /\ Goto(t, IF kind \in InitKinds THEN "create" ELSE "test")
  /\ UNCHANGED <<GLOGHANDLER, made, out, lost, alive, nulled, redirected, racing>>

\* Where a call goes on with log = h: the messages below the level of the
\* handler are left out, by write_fmt_log only.
Proceed(t, h) ==
  IF h = NULL THEN "idle"
  ELSE IF call[t].kind = "raw" THEN "data"
  ELSE IF made[h].level > call[t].level THEN "idle" ELSE "header"

Message(t) == <<t, calls[t]>>

\* Faulty: the test looks at the argument only.
TestArgument(t) ==
  /\ At(t, "test")
  /\ UNCHANGED lost
  /\ Goto(t, IF call[t].log = NULL THEN "create" ELSE Proceed(t, call[t].log))
  /\ UNCHANGED <<GLOGHANDLER, made, out, call, calls, alive, nulled, redirected, racing>>

\* `log == NULL && GLOGHANDLER == NULL`: when the handler has come up since
\* the call, the message is lost.
Test(t) ==
  /\ At(t, "test")
  /\ IF call[t].log = NULL /\ GLOGHANDLER = NULL
     THEN Goto(t, "create") /\ UNCHANGED lost
     ELSE /\ Goto(t, Proceed(t, call[t].log))
          /\ lost' = IF call[t].log = NULL THEN lost \cup {Message(t)} ELSE lost
  /\ UNCHANGED <<GLOGHANDLER, made, out, call, calls, alive, nulled, redirected, racing>>

\* _init_log: allocate a handler and open its file.
Create(t, h) ==
  /\ At(t, "create") /\ call[t].kind # "clear" /\ made[h].maker = NULL
  /\ LET kind == call[t].kind
     IN  made' = [made EXCEPT ![h] =
           [maker |-> t,
            fpath |-> IF kind = "init" THEN "given" ELSE "stderr",
            level |-> IF kind = "init" THEN call[t].level
                      ELSE IF kind = "raw" THEN log_info ELSE log_debug]]
  /\ call' = [call EXCEPT ![t].log = h]
  /\ Goto(t, "assign")
  /\ UNCHANGED <<GLOGHANDLER, out, calls, lost, alive, nulled, redirected, racing>>

\* NULL is returned: there is no path, or malloc fails.
CreateNothing(t) ==
  /\ At(t, "create")
  /\ call[t].kind = "clear" \/ MallocMayFail
  /\ call' = [call EXCEPT ![t].log = NULL]
  /\ Goto(t, "assign")
  /\ UNCHANGED <<GLOGHANDLER, made, out, calls, lost, alive, nulled, redirected, racing>>

\* The file cannot be opened, or the type is BINARY, whose branch is never
\* reached: assert(0).
CreateAborts(t) ==
  /\ At(t, "create") /\ call[t].kind # "clear"
  /\ alive' = FALSE
  /\ UNCHANGED <<GLOGHANDLER, made, out, pc, call, calls, lost, nulled, redirected, racing>>

\* GLOGHANDLER has been set to h by t.
Count(t, h) ==
  /\ nulled' = IF h = NULL THEN nulled + 1 ELSE nulled
  /\ redirected' = (h # NULL /\ (redirected \/ call[t].kind \in InitKinds))
  /\ racing' = IF h # NULL /\ call[t].kind \in InitKinds THEN Creating ELSE racing

\* Faulty: only the argument is set.
AssignArgument(t) ==
  /\ At(t, "assign")
  /\ LET h == call[t].log
         init == call[t].kind \in InitKinds
     IN  /\ GLOGHANDLER' = IF init THEN h ELSE GLOGHANDLER
         /\ Goto(t, IF init THEN "idle" ELSE Proceed(t, h))
         /\ lost' = IF h = NULL /\ ~init THEN lost \cup {Message(t)} ELSE lost
         /\ Count(t, h)
  /\ UNCHANGED <<made, out, call, calls, alive>>

\* GLOGHANDLER is set to what _init_log has returned, and INIT_LOG returns;
\* the others go on with the handler they have made.  (log = GLOGHANDLER
\* reads it back: the optimised build uses the value just stored.)
Assign(t) ==
  /\ At(t, "assign")
  /\ LET h == call[t].log
         init == call[t].kind \in InitKinds
     IN  /\ GLOGHANDLER' = h
         /\ Goto(t, IF init THEN "idle" ELSE Proceed(t, h))
         /\ lost' = IF h = NULL /\ ~init THEN lost \cup {Message(t)} ELSE lost
         /\ Count(t, h)
  /\ UNCHANGED <<made, out, call, calls, alive>>

After == [header |-> "text", text |-> "newline", newline |-> "idle", data |-> "idle"]

\* Faulty: each stdio call looks up the handler anew.
WritePartLatest(t) ==
  /\ alive /\ pc[t] \in DOMAIN After /\ GLOGHANDLER # NULL
  /\ out' = [out EXCEPT ![GLOGHANDLER] = Append(@, <<t, calls[t], pc[t]>>)]
  /\ Goto(t, After[pc[t]])
  /\ UNCHANGED <<GLOGHANDLER, made, call, calls, lost, alive, nulled, redirected, racing>>

\* One stdio call: a line is printed by three, the data of write_log by one.
WritePart(t) ==
  /\ alive /\ pc[t] \in DOMAIN After
  /\ out' = [out EXCEPT ![call[t].log] = Append(@, <<t, calls[t], pc[t]>>)]
  /\ Goto(t, After[pc[t]])
  /\ UNCHANGED <<GLOGHANDLER, made, call, calls, lost, alive, nulled, redirected, racing>>

-----------------------------------------------------------------------------

Next ==
  \E t \in Threads :
    \/ \E kind \in Kinds, level \in Levels : Call(t, kind, level)
    \/ Test(t)
    \/ \E h \in Handlers : Create(t, h)
    \/ CreateNothing(t) \/ CreateAborts(t)
    \/ Assign(t)
    \/ WritePart(t)

Spec == Init /\ [][Next]_vars

-----------------------------------------------------------------------------
(* Properties *)

\* Part k of the n-th message of t is printed to the stream of h.
Printed(t, n, k, h) == \E i \in DOMAIN out[h] : out[h][i] = <<t, n, k>>

\* Which parts of one message may come one after the other.
PartOrder == {<<"header", "text">>, <<"header", "newline">>, <<"text", "newline">>}

\* A message is printed to one stream, each part once, its parts in order
\* and, once its thread goes on, all of them; the messages of a thread come
\* in the order of its calls: even when INIT_LOG puts another handler in place
\* between the three stdio calls of a line.  Parts of other threads' messages
\* may come between them, on the same line.
PartsInOrder ==
  \A h \in Handlers : \A i \in DOMAIN out[h] :
    LET p == out[h][i]
        t == p[1]
        n == p[2]
    IN  /\ \A g \in Handlers, k \in DOMAIN After : Printed(t, n, k, g) => g = h
        /\ \A j \in 1..i-1 :
             LET q == out[h][j]
             IN  q[1] = t => q[2] < n \/ (q[2] = n /\ <<q[3], p[3]>> \in PartOrder)
        /\ \A k \in {"header", "text"} :
             /\ p[3] = After[k] => Printed(t, n, k, h)
             /\ p[3] = k => \/ Printed(t, n, After[k], h)
                            \/ n = calls[t] /\ pc[t] = After[k]

\* The handlers for /dev/stderr a thread has made, and the messages it has
\* lost for want of a handler.
Defaults(t) == {h \in Handlers : made[h].maker = t /\ made[h].fpath = "stderr"}
Losses(t) == {m \in lost : m[1] = t}

\* The unlocked first use does bounded harm.  GLOGHANDLER is NULL at the start
\* and after an _init_log that has returned NULL, for want of a path or of
\* memory.  Each time costs each thread one handler for /dev/stderr or one
\* message, whatever the others do; and as long as there was no such
\* _init_log, a message is lost only when another thread has made a handler.
FirstUse ==
  \A t \in Threads :
    /\ Cardinality(Defaults(t)) + Cardinality(Losses(t)) <= nulled + 1
    /\ nulled = 0 /\ Losses(t) # {} => \E h \in Handlers : made[h].maker \notin {NULL, t}

\* Once INIT_LOG has set a handler the log goes where it has said, until an
\* _init_log returns NULL.  Only a thread that was already creating the handler
\* for /dev/stderr at that INIT_LOG can undo it: no first use that comes later
\* does, however late the thread has read GLOGHANDLER, and who undid an earlier
\* INIT_LOG does not undo the next one.
RedirectionKept ==
  redirected => /\ GLOGHANDLER # NULL
                /\ \/ made[GLOGHANDLER].fpath = "given"
                   \/ made[GLOGHANDLER].maker \in racing
=============================================================================
