------------------------------- MODULE Buffer -------------------------------
(***************************************************************************)
(* The buffered connection of src/src/buffer.c: sockBuffer, which          *)
(* _readFromSocket fills and the read callback uses up, and sendLeaveBuf,  *)
(* which keeps what bufferWrite could not send and _writeToSocket flushes. *)
(*                                                                         *)
(* One thread runs all of it.  A step is a call of _readFromSocket up to   *)
(* the read callback (or to its end), one call the callback makes, the     *)
(* return of the callback, or a call of _writeToSocket.  The callbacks of  *)
(* other connections may write to this one or discard it between any two   *)
(* rounds.  The event's place in the reactor's queues is in Reactor.tla;   *)
(* here it is only what the event listens for and whether it has failed.   *)
(*                                                                         *)
(* Bytes are members of Byte; Zero stands for a byte set by memset.        *)
(* memMove copies overlapping memory with memcpy: the copy is taken to go  *)
(* forward, as that of the GNU C library does.                             *)
(***************************************************************************)
EXTENDS Integers, Sequences, Functions

CONSTANTS
  MaxBuffer,  \* MAXBUFFER, the cells of either array
  Byte,       \* the bytes that are sent and received
  Zero,
  Data,       \* what one recv or one bufferWrite carries at most
  Split       \* the split of bufferReadSplit

ASSUME ConstantsAssumption ==
  /\ MaxBuffer \in Nat \ {0}
  /\ Zero \notin Byte
  /\ Data \subseteq Seq(Byte) \ {<<>>}
  /\ Split \in Seq(Byte) \ {<<>>} /\ Len(Split) <= MaxBuffer

VARIABLES
  sock,        \* sockBuffer
  nExist,      \* the bytes in it
  leave,       \* sendLeaveBuf
  nWBufExist,  \* the bytes in it
  aioFlag,     \* "num" or "char"
  readSplitN,
  mode,        \* what the event listens for
  status,      \* of the event: "listen", "close" or "error"
  pc,          \* "idle", "callback" (in the read callback) or "freed"
  passed,      \* the n the read callback was called with
  ok,          \* FALSE when memory outside the arrays was written
  slips,       \* what has happened that the code does not provide for
  io           \* the bytes that went in and out in the last step

read == <<sock, nExist>>
unsent == <<leave, nWBufExist>>
split == <<aioFlag, readSplitN>>
event == <<mode, status>>
vars == <<read, unsent, split, event, pc, passed, ok, slips, io>>

Cells == 1..MaxBuffer
Blank == [i \in Cells |-> Zero]
Held == SubSeq(sock, 1, nExist)
Pending == SubSeq(leave, 1, nWBufExist)

Slips == {"rearm", "spill", "partial", "overtake", "again", "cut", "wiped",
          "reused"}
Slip(s, cond) == IF cond THEN {s} ELSE {}

NoIO == [got |-> <<>>, used |-> <<>>, put |-> <<>>, wire |-> <<>>]

-----------------------------------------------------------------------------
(* The helpers on the arrays *)

\* d is copied to the cells behind the n-th.
Put(b, n, d) ==
  [i \in Cells |-> IF i - n \in 1..Len(d) THEN d[i - n] ELSE b[i]]

\* Faulty: what is left stays where it was.
MemMoveStays(b, nBreak, nExit) ==
  [i \in Cells |-> IF i <= nExit - nBreak THEN b[i] ELSE Zero]

\* memMove: the first nBreak bytes go, and all but nExit - nBreak are zeroed.
MemMove(b, nBreak, nExit) ==
  [i \in Cells |-> IF i <= nExit - nBreak THEN b[i + nBreak] ELSE Zero]

\* memMove on sendLeaveBuf with nBreak > nExit: its memset begins in front of
\* that array, in the last cells of sockBuffer.
Spilt(nBreak, nExit) ==
  [i \in Cells |-> IF i > MaxBuffer - (nBreak - nExit) THEN Zero ELSE sock[i]]

\* Faulty: a mismatch does not forget what has matched.
SplitFindSticky(source, find) ==
  LET match[j \in 0..Len(source)] ==
        IF j = 0 THEN 0
        ELSE LET i == match[j - 1]
             IN  IF i = Len(find) THEN i
                 ELSE IF source[j] = find[i + 1] THEN i + 1 ELSE i
  IN  Len(find) <= Len(source) /\ match[Len(source)] = Len(find)

\* splitFind: match[j] is the i of its loop after j bytes.  A byte that does
\* not go on with the match is not tried as its first byte.
SplitFind(source, find) ==
  LET match[j \in 0..Len(source)] ==
        IF j = 0 THEN 0
        ELSE LET i == match[j - 1]
             IN  IF i = Len(find) THEN i
                 ELSE IF source[j] = find[i + 1] THEN i + 1 ELSE 0
  IN  Len(find) <= Len(source) /\ match[Len(source)] = Len(find)

-----------------------------------------------------------------------------
(* _readFromSocket *)

At(p) == ok /\ pc = p

\* The event is reported; a waiting event that failed is called all the same.
Readable == At("idle") /\ mode = "read" /\ status # "close"

\* The switch on aioFlag, with n bytes in b: is the read callback called?
Due(b, n) ==
  IF aioFlag = "num" THEN n >= readSplitN
  ELSE SplitFind(SubSeq(b, 1, n), SubSeq(Split, 1, readSplitN))

Dispatch(b, n) ==
  /\ pc' = IF Due(b, n) THEN "callback" ELSE "idle"
  /\ passed' = IF Due(b, n) THEN n ELSE 0

\* Faulty: a full buffer waits for its split instead of failing.
RecvFullWaits ==
  /\ Readable /\ nExist >= MaxBuffer
  /\ io' = NoIO
  /\ UNCHANGED <<read, unsent, split, event, pc, passed, ok, slips>>

\* There is no room: the connection fails.
RecvFull ==
  /\ Readable /\ nExist >= MaxBuffer
  /\ status' = "error"
  /\ io' = NoIO
  /\ UNCHANGED <<read, unsent, split, mode, pc, passed, ok, slips>>

\* Faulty: the bytes are not put behind those that are there.
RecvOver(d) ==
  /\ Readable /\ nExist \in 0..MaxBuffer - Len(d)
  /\ sock' = Put(sock, 0, d)
  /\ nExist' = nExist + Len(d)
  /\ Dispatch(sock', nExist')
  /\ io' = [NoIO EXCEPT !.got = d]
  /\ UNCHANGED <<unsent, split, event, ok, slips>>

\* Faulty: recv is told that all of sockBuffer is free.
RecvWhole(d) ==
  /\ Readable /\ nExist \in 0..MaxBuffer - 1
  /\ sock' = Put(sock, nExist, d)
  /\ nExist' = nExist + Len(d)
  /\ Dispatch(sock', nExist')
  /\ io' = [NoIO EXCEPT !.got = d]
  /\ UNCHANGED <<unsent, split, event, ok, slips>>

\* recv returns d.
Recv(d) ==
  /\ Readable /\ nExist \in 0..MaxBuffer - Len(d)
  /\ sock' = Put(sock, nExist, d)
  /\ nExist' = nExist + Len(d)
  /\ Dispatch(sock', nExist')
  /\ io' = [NoIO EXCEPT !.got = d]
  /\ UNCHANGED <<unsent, split, event, ok, slips>>

\* recv writes in front of sockBuffer.
RecvOutside ==
  /\ Readable /\ nExist < 0
  /\ ok' = FALSE
  /\ UNCHANGED <<read, unsent, split, event, pc, passed, slips, io>>

\* recv returns 0 (s = "close": the peer has closed) or EAGAIN or EINTR; the
\* switch is made in either case.
RecvNothing(s) ==
  /\ Readable /\ nExist < MaxBuffer /\ s \in {status, "close"}
  /\ status' = s
  /\ Dispatch(sock, nExist)
  /\ io' = NoIO
  /\ UNCHANGED <<read, unsent, split, mode, ok, slips>>

\* EV_ERR is signalled, or recv fails.
RecvFails ==
  /\ Readable
  /\ status' = "error"
  /\ io' = NoIO
  /\ UNCHANGED <<read, unsent, split, mode, pc, passed, ok, slips>>

\* The read callback returns the bytes it has used, no more than it was
\* given (the assert of aioNRead): the end of aioNRead and the switch.
CallbackReturn(nUsed) ==
  /\ At("callback") /\ nUsed \in 0..passed
  /\ sock' = MemMove(sock, nUsed, passed)
  /\ nExist' = nExist - nUsed
  /\ slips' = slips \cup Slip("rearm", nExist < nUsed)
  /\ io' = [NoIO EXCEPT !.used = SubSeq(sock, 1, nUsed)]
  /\ pc' = "idle" /\ passed' = 0
  /\ UNCHANGED <<unsent, split, event, ok>>

-----------------------------------------------------------------------------
(* The calls of the read callback and of other connections' callbacks *)

\* bufferReadContinue, whose comment means it for a read of a number.
Continue(n) ==
  /\ At("callback") /\ aioFlag = "num" /\ n \in 1..MaxBuffer - 1
  /\ readSplitN' = n
  /\ io' = NoIO
  /\ UNCHANGED <<read, unsent, aioFlag, event, pc, passed, ok, slips>>

\* What bufferReadUntil (flag "num") and bufferReadSplit ("char") have in
\* common: both arrays are cleared, and of the counts only nExist.
Register(flag, n) ==
  /\ aioFlag' = flag /\ readSplitN' = n
  /\ nExist' = 0 /\ sock' = Blank /\ leave' = Blank

Registrations == ({"num"} \X Cells) \cup {<<"char", Len(Split)>>}

\* The application reads something else from now on.
Rearm(flag, n) ==
  /\ ok /\ pc # "freed"
  /\ Register(flag, n)
  /\ slips' = slips \cup Slip("wiped", nWBufExist > 0)
  /\ io' = NoIO
  /\ UNCHANGED <<nWBufExist, event, pc, passed, ok>>

\* bufferWrite is called in either place; nWBufLeave, which it compares with
\* the length, is never counted down from MAXBUFFER.
Writable(d) == ok /\ pc # "freed" /\ Len(d) <= MaxBuffer

\* send takes the first k bytes of d, and bufferWrite returns 0.
WriteSent(d, k) ==
  /\ Writable(d) /\ k \in 1..Len(d)
  /\ slips' = slips \cup Slip("partial", k < Len(d))
                    \cup Slip("overtake", nWBufExist > 0)
  /\ io' = [NoIO EXCEPT !.put = d, !.wire = SubSeq(d, 1, k)]
  /\ UNCHANGED <<read, unsent, split, event, pc, passed, ok>>

\* Faulty: what waits is written over.
WriteWaitsOver(d) ==
  /\ Writable(d) /\ nWBufExist + Len(d) <= MaxBuffer
  /\ leave' = Put(leave, 0, d)
  /\ nWBufExist' = nWBufExist + Len(d)
  /\ mode' = "write" /\ status' = "listen"
  /\ slips' = slips \cup Slip("again", mode = "write")
  /\ io' = [NoIO EXCEPT !.put = d]
  /\ UNCHANGED <<read, split, pc, passed, ok>>

\* Faulty: the event goes on listening to what it listened to.
WriteWaitsReading(d) ==
  /\ Writable(d) /\ nWBufExist + Len(d) <= MaxBuffer
  /\ leave' = Put(leave, nWBufExist, d)
  /\ nWBufExist' = nWBufExist + Len(d)
  /\ mode' = mode /\ status' = "listen"
  /\ slips' = slips \cup Slip("again", mode = "write")
  /\ io' = [NoIO EXCEPT !.put = d]
  /\ UNCHANGED <<read, split, pc, passed, ok>>

\* send returns EAGAIN or EINTR: d waits, and eventModListen makes the event
\* listen for room to write, whatever its status was.
WriteWaits(d) ==
  /\ Writable(d) /\ nWBufExist + Len(d) <= MaxBuffer
  /\ leave' = Put(leave, nWBufExist, d)
  /\ nWBufExist' = nWBufExist + Len(d)
  /\ mode' = "write" /\ status' = "listen"
  /\ slips' = slips \cup Slip("again", mode = "write")
  /\ io' = [NoIO EXCEPT !.put = d]
  /\ UNCHANGED <<read, split, pc, passed, ok>>

\* The same, with no room left in sendLeaveBuf: memcpy writes behind it.
WriteOutside(d) ==
  /\ Writable(d) /\ nWBufExist + Len(d) > MaxBuffer
  /\ ok' = FALSE
  /\ slips' = slips \cup Slip("again", mode = "write")
  /\ UNCHANGED <<read, unsent, split, event, pc, passed, io>>

\* d is longer than nWBufLeave, or send fails.
WriteFails ==
  /\ ok /\ pc # "freed"
  /\ status' = "error"
  /\ io' = NoIO
  /\ UNCHANGED <<read, unsent, split, mode, pc, passed, ok, slips>>

-----------------------------------------------------------------------------
(* _writeToSocket *)

\* Faulty: the event goes on listening for room to write.
FlushStays(nSend) ==
  /\ At("idle") /\ mode = "write" /\ status # "close" /\ nSend \in 1..nWBufExist
  /\ nWBufExist' = nWBufExist - nSend
  /\ UNCHANGED <<mode, status>>
  /\ leave' = MemMove(leave, nSend, nWBufExist')
  /\ sock' = Spilt(nSend, nWBufExist')
  /\ slips' = slips \cup Slip("cut", nSend < nWBufExist)
              \cup Slip("spill", nExist > MaxBuffer - (nSend - nWBufExist'))
  /\ io' = [NoIO EXCEPT !.wire = SubSeq(leave, 1, nSend)]
  /\ UNCHANGED <<nExist, split, pc, passed, ok>>

\* send takes nSend bytes.  When these are all, the event listens for input
\* again.  memMove is given nWBufExist after it has been counted down: it
\* zeroes the last nSend of the bytes that still wait, or more bytes than
\* sendLeaveBuf has.
Flush(nSend) ==
  /\ At("idle") /\ mode = "write" /\ status # "close" /\ nSend \in 1..nWBufExist
  /\ nWBufExist' = nWBufExist - nSend
  /\ \/ nSend < nWBufExist /\ UNCHANGED <<mode, status>>
     \/ nSend = nWBufExist /\ mode' = "read" /\ status' = "listen"
  /\ leave' = MemMove(leave, nSend, nWBufExist')
  /\ sock' = Spilt(nSend, nWBufExist')
  /\ slips' = slips \cup Slip("cut", nSend < nWBufExist)
              \cup Slip("spill", nExist > MaxBuffer - (nSend - nWBufExist'))
  /\ io' = [NoIO EXCEPT !.wire = SubSeq(leave, 1, nSend)]
  /\ UNCHANGED <<nExist, split, pc, passed, ok>>

\* send fails (EAGAIN and EINTR are tried again at once).
FlushFails ==
  /\ At("idle") /\ mode = "write" /\ status # "close"
  /\ status' = "error"
  /\ io' = NoIO
  /\ UNCHANGED <<read, unsent, split, mode, pc, passed, ok, slips>>

-----------------------------------------------------------------------------
(* The life of a connection *)

\* epoll_run takes an event that failed outside its own callback for one that
\* waits, and sets its status to INSIGNALQUEUE.
Report ==
  /\ At("idle") /\ status = "error"
  /\ status' = "listen"
  /\ io' = NoIO
  /\ UNCHANGED <<read, unsent, split, mode, pc, passed, ok, slips>>

Free ==
  /\ At("idle")
  /\ pc' = "freed"
  /\ io' = NoIO
  /\ UNCHANGED <<read, unsent, split, event, passed, ok, slips>>

\* The reactor calls _errCallback for an event that failed.
ErrCallback == status # "listen" /\ Free

\* Another callback calls disBuffer.
DisBuffer == status = "listen" /\ Free

\* createBuffer and the bufferRead... that must follow it.  nWBufExist is not
\* initialised: it is 0 in fresh memory, and may be what the buffer that was
\* there before has left.
CreateBuffer(flag, n, left) ==
  /\ At("freed")
  /\ Register(flag, n)
  /\ nWBufExist' = left
  /\ mode' = "read" /\ status' = "listen"
  /\ pc' = "idle"
  /\ slips' = Slip("reused", left > 0)
  /\ io' = NoIO
  /\ UNCHANGED <<passed, ok>>

Init ==
  /\ sock = Blank /\ nExist = 0 /\ leave = Blank /\ nWBufExist = 0
  /\ \E r \in Registrations : aioFlag = r[1] /\ readSplitN = r[2]
  /\ mode = "read" /\ status = "listen"
  /\ pc = "idle" /\ passed = 0 /\ ok = TRUE /\ slips = {} /\ io = NoIO

Input == RecvFull \/ \E d \in Data : Recv(d)

Write ==
  \/ \E d \in Data : WriteWaits(d) \/ WriteOutside(d)
                     \/ \E k \in 1..Len(d) : WriteSent(d, k)
  \/ WriteFails

Rearms == \E r \in Registrations : Rearm(r[1], r[2])
Returns == \E u \in 0..MaxBuffer : CallbackReturn(u)
Flushes == \E k \in Cells : Flush(k)

Next ==
  \/ Input \/ RecvOutside \/ RecvFails \/ Write \/ Returns \/ Flushes
  \/ \E s \in {"listen", "close", "error"} : RecvNothing(s)
  \/ \E n \in Cells : Continue(n)
  \/ Rearms
  \/ FlushFails \/ Report \/ ErrCallback \/ DisBuffer
  \/ \E r \in Registrations, left \in {0, nWBufExist} : CreateBuffer(r[1], r[2], left)

Spec == Init /\ [][Next]_vars

\* The reactor calls what epoll reports, which is level triggered, a callback
\* returns, and a connection that has closed is reaped.  Of the peer it is
\* assumed that it goes on sending and taking what is sent to it.
Fairness ==
  /\ WF_vars(Returns) /\ WF_vars(Input) /\ WF_vars(Flushes)
  /\ WF_vars(status = "close" /\ ErrCallback)

FairSpec == Spec /\ Fairness

-----------------------------------------------------------------------------
(* Properties.  A slip is something the code makes no provision for.  Each *)
(* property names the slips that break it: it is claimed of a connection   *)
(* until the first of them.                                                *)

\* Every variable has its type.  nExist may be negative.
TypeOK ==
  /\ sock \in [Cells -> Byte \cup {Zero}] /\ leave \in [Cells -> Byte \cup {Zero}]
  /\ nExist \in -MaxBuffer..MaxBuffer /\ nWBufExist \in 0..MaxBuffer
  /\ aioFlag \in {"num", "char"} /\ readSplitN \in Cells
  /\ mode \in {"read", "write"} /\ status \in {"listen", "close", "error"}
  /\ pc \in {"idle", "callback", "freed"} /\ passed \in 0..MaxBuffer
  /\ ok \in BOOLEAN /\ slips \subseteq Slips

\* No memory outside the arrays is written: recv stays in sockBuffer, and
\* sendLeaveBuf, whose room nobody counts, has room for a write that waits,
\* unless a second write waits, the count was never initialised, or a read
\* callback registered anew and then returned what it had used.
StaysInside == ok \/ slips \cap {"rearm", "again", "reused"} # {}

\* Bytes wait in sendLeaveBuf exactly while the event listens for room to
\* write: nothing is left behind unsent, and _writeToSocket is never called
\* with nothing to send.
WriteArmed == ok /\ "reused" \notin slips => (nWBufExist > 0 <=> mode = "write")

Incoming == INSTANCE ByteStream WITH line <- Held, in <- io.got, out <- io.used
Outgoing == INSTANCE ByteStream WITH line <- Pending, in <- io.put, out <- io.wire

\* What the read callback uses is what recv brought, in order and without a
\* gap, through partial use, memMove and the flushes in between: until a
\* flush spills its zeroes into what is held, or a callback registers anew.
ReadInOrder ==
  [][\/ Held' = <<>> /\ (pc = "freed" \/ Rearms)
     \/ ~ok' \/ slips' \cap {"rearm", "spill"} # {}
     \/ [Incoming!Move]_<<Held, io.got, io.used>>]_vars

\* What the kernel takes is what the application wrote, in order and without
\* a gap: until a send or a flush takes only a part, a write is sent past
\* what waits, or what waits is wiped by a registration or never was there.
SendInOrder ==
  [][\/ Pending' = <<>> /\ pc = "freed"
     \/ ~ok' \/ slips' \cap {"partial", "overtake", "cut", "wiped", "reused"} # {}
     \/ [Outgoing!Move]_<<Pending, io.put, io.wire>>]_vars

\* The comment on bufferWrite: "datas would be send to socket directly", and
\* when the device is not ready "we should copy data to write buffer of our
\* self".  A write that bufferWrite accepts is sent or waits.
SendAlwaysInOrder ==
  [][pc = "freed" \/ ~ok' \/ [Outgoing!Move]_<<Pending, io.put, io.wire>>]_vars

Occurs(find, p, s) ==
  p + Len(find) - 1 <= Len(s) /\ SubSeq(s, p, p + Len(find) - 1) = find

\* The byte in front of position p is not one of the split: there splitFind
\* cannot be in the middle of a match.
Clean(p, s) == p = 1 \/ s[p - 1] \notin Range(Split)

\* Input calls the read callback when it is due: for a number when there are
\* so many bytes, for a split only when it is there, and always when it is
\* there and no byte of the split stands in front of it.
CalledWhenDue ==
  [][io'.got # <<>> =>
       IF aioFlag = "num" THEN pc' = "callback" <=> Len(Held') >= readSplitN
       ELSE LET at == {p \in 1..Len(Held') : Occurs(Split, p, Held')}
            IN  /\ pc' = "callback" => at # {}
                /\ (\E p \in at : Clean(p, Held')) => pc' = "callback"]_vars

Ended == ~ok \/ pc = "freed" \/ status # "listen"

\* A peer that goes on sending is answered: reading comes to the callback, or
\* to a write, or to an end, unless it is registered anew again and again.  A
\* message that does not fit ends in an error.
Answered ==
  \/ []<>(pc = "callback" \/ mode = "write" \/ Ended \/ nExist < 0)
  \/ []<><<Rearms>>_vars

\* A connection with something to send comes back to reading, unless it is
\* written to again and again.
Drained == []<>(mode = "read" \/ Ended) \/ []<><<Write>>_vars
=============================================================================
