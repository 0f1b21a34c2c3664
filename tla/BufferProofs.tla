---------------------------- MODULE BufferProofs ----------------------------
(***************************************************************************)
(* What holds of a buffered connection for arrays of any size, any bytes   *)
(* and any split: the counts stay within the arrays, and bytes come out of *)
(* either direction in the order they went in, up to the slips the         *)
(* properties name.  The read callback is called when it is due: what      *)
(* splitFind computes is proved by induction over the bytes it reads.      *)
(***************************************************************************)
EXTENDS Buffer, SequenceTheorems, WellFoundedInduction, TLAPS

Any == Byte \cup {Zero}
Array == [Cells -> Any]

-----------------------------------------------------------------------------
(* The helpers on the arrays *)

LEMMA SplitLen == Len(Split) \in Cells
  BY ConstantsAssumption DEF Cells

LEMMA DataLen == \A d \in Data : d \in Seq(Any) /\ Len(d) \in Nat \ {0}
                                /\ \A i \in 1..Len(d) : d[i] \in Any
<1> SUFFICES ASSUME NEW d \in Data
             PROVE  d \in Seq(Any) /\ Len(d) \in Nat \ {0} /\ \A i \in 1..Len(d) : d[i] \in Any
  OBVIOUS
<1>1. d \in Seq(Byte) /\ d # <<>> BY ConstantsAssumption
<1>2. d \in Seq(Any) BY <1>1, SeqMonotonic, Byte \subseteq Any DEF Any
<1>3. Len(d) \in Nat \ {0} BY <1>1, EmptySeq
<1> QED BY <1>2, <1>3, ElementOfSeq

\* The first n bytes of an array.
LEMMA Front ==
  ASSUME NEW b \in Array, NEW n \in 0..MaxBuffer
  PROVE  /\ SubSeq(b, 1, n) \in Seq(Any) /\ Len(SubSeq(b, 1, n)) = n
         /\ \A i \in 1..n : SubSeq(b, 1, n)[i] = b[i]
<1>1. n \in Int /\ \A i \in 1..n : b[i] \in Any
  BY ConstantsAssumption DEF Array, Cells
<1> QED BY <1>1, SubSeqProperties, SubSeqEmpty

\* Bytes that are put behind the first n follow them.
LEMMA PutFollows ==
  ASSUME NEW b \in Array, NEW d \in Data, NEW n \in 0..MaxBuffer - Len(d)
  PROVE  /\ Put(b, n, d) \in Array
         /\ SubSeq(Put(b, n, d), 1, n + Len(d)) = SubSeq(b, 1, n) \o d
<1> USE ConstantsAssumption
<1>1. d \in Seq(Any) /\ Len(d) \in Nat \ {0} /\ \A i \in 1..Len(d) : d[i] \in Any
  BY DataLen
<1>2. n \in 0..MaxBuffer /\ n + Len(d) \in 0..MaxBuffer BY <1>1
<1>3. Put(b, n, d) \in Array BY <1>1, <1>2 DEF Put, Array, Cells
<1> DEFINE s == SubSeq(Put(b, n, d), 1, n + Len(d))
           t == SubSeq(b, 1, n) \o d
<1>4. s \in Seq(Any) /\ Len(s) = n + Len(d)
      /\ \A i \in 1..n + Len(d) : s[i] = Put(b, n, d)[i]
  BY <1>2, <1>3, Front
<1>5. SubSeq(b, 1, n) \in Seq(Any) /\ Len(SubSeq(b, 1, n)) = n
      /\ \A i \in 1..n : SubSeq(b, 1, n)[i] = b[i]
  BY <1>2, Front
<1>6. t \in Seq(Any) /\ Len(t) = n + Len(d)
      /\ \A i \in 1..n + Len(d) : t[i] = IF i <= n THEN SubSeq(b, 1, n)[i] ELSE d[i - n]
  BY <1>1, <1>5, ConcatProperties
<1>7. \A i \in 1..n + Len(d) : Put(b, n, d)[i] = IF i <= n THEN b[i] ELSE d[i - n]
  BY <1>1, <1>2 DEF Put, Cells
<1>8. \A i \in 1..Len(s) : s[i] = t[i]
  BY <1>1, <1>2, <1>4, <1>5, <1>6, <1>7
<1>9. s = t
  <2> HIDE DEF s, t
  <2> QED BY <1>4, <1>6, <1>8, SeqEqual
<1> QED BY <1>3, <1>9

\* What memMove leaves of the first n bytes is what is behind the first k.
LEMMA MemMoveLeaves ==
  ASSUME NEW b \in Array, NEW n \in 0..MaxBuffer, NEW k \in 0..n
  PROVE  SubSeq(MemMove(b, k, n), 1, n - k) = SubSeq(SubSeq(b, 1, n), k + 1, n)
<1> USE ConstantsAssumption
<1> DEFINE q == SubSeq(b, 1, n)
           s == SubSeq(MemMove(b, k, n), 1, n - k)
           t == SubSeq(q, k + 1, n)
<1>1. q \in Seq(Any) /\ Len(q) = n /\ \A i \in 1..n : q[i] = b[i]
  BY Front
<1>2. MemMove(b, k, n) \in Array BY DEF MemMove, Array, Any, Cells
<1>3. s \in Seq(Any) /\ Len(s) = n - k /\ \A i \in 1..n - k : s[i] = MemMove(b, k, n)[i]
  BY <1>2, Front, n - k \in 0..MaxBuffer
<1>4. \A i \in k + 1..n : q[i] \in Any
  BY <1>1, ElementOfSeq
<1>5. t \in Seq(Any) /\ Len(t) = n - k /\ \A i \in 1..n - k : t[i] = q[k + i]
  <2> HIDE DEF q
  <2>1. k + 1 \in Int /\ n \in Int OBVIOUS
  <2>2. t \in Seq(Any) /\ Len(t) = (IF k + 1 <= n THEN n - (k + 1) + 1 ELSE 0)
        /\ \A i \in 1..n - (k + 1) + 1 : t[i] = q[(k + 1) + i - 1]
    BY <1>4, <2>1, SubSeqProperties
  <2> QED BY <2>2
<1>6. \A i \in 1..n - k : MemMove(b, k, n)[i] = b[k + i]
  BY DEF MemMove, Cells
<1> HIDE DEF q, s, t
<1>7. ASSUME NEW i \in 1..Len(s) PROVE s[i] = t[i]
  <2>1. i \in 1..n - k /\ k + i \in 1..n BY <1>3
  <2> QED BY <1>1, <1>3, <1>5, <1>6, <2>1
<1>8. s = t BY <1>3, <1>5, <1>7, SeqEqual
<1> QED BY <1>8 DEF q, s, t

\* memMove returns an array, whatever it is told of the length.
LEMMA MemMoveArray ==
  ASSUME NEW b \in Array, NEW k \in Nat, NEW n \in 0..MaxBuffer
  PROVE  MemMove(b, k, n) \in Array
  BY ConstantsAssumption DEF MemMove, Array, Any, Cells

-----------------------------------------------------------------------------
(* The invariant *)

\* What the counts are where they are read: a split is searched as it was
\* registered, nExist turns negative by the slip "rearm" only, and while the
\* read callback runs nExist is what it was called with, or 0 after it has
\* registered anew.
Counts ==
  /\ aioFlag = "char" => readSplitN = Len(Split)
  /\ nExist < 0 => "rearm" \in slips
  /\ pc = "callback" => nExist \in {0, passed}

IInv == TypeOK /\ Counts /\ WriteArmed /\ StaysInside

\* The read callback is called with at least one byte.
LEMMA DuePositive ==
  ASSUME TypeOK, Counts, NEW b \in Array, NEW n \in Int, n <= MaxBuffer, Due(b, n)
  PROVE  n \in 1..MaxBuffer
<1> USE ConstantsAssumption
<1>1. readSplitN \in 1..MaxBuffer BY DEF TypeOK, Cells
<1>2. CASE aioFlag = "num"
  BY <1>1, <1>2 DEF Due
<1>3. CASE aioFlag # "num"
  <2>1. aioFlag = "char" /\ readSplitN = Len(Split) BY <1>3 DEF TypeOK, Counts
  <2>2. Len(SubSeq(Split, 1, readSplitN)) = readSplitN
    BY <1>1, <2>1, SubSeqProperties, ElementOfSeq, \A i \in 1..readSplitN : Split[i] \in Byte
  <2>3. readSplitN <= Len(SubSeq(b, 1, n))
    BY <1>3, <2>2 DEF Due, SplitFind
  <2>4. n < 1 => SubSeq(b, 1, n) = <<>> BY SubSeqEmpty
  <2> QED BY <1>1, <2>3, <2>4
<1> QED BY <1>2, <1>3

LEMMA InvInit == Init => IInv
<1> SUFFICES ASSUME Init PROVE IInv
  OBVIOUS
<1>1. aioFlag \in {"num", "char"} /\ readSplitN \in Cells
      /\ (aioFlag = "char" => readSplitN = Len(Split))
  BY SplitLen DEF Init, Registrations
<1> QED
  BY <1>1, ConstantsAssumption DEF Init, IInv, TypeOK, Counts, WriteArmed, StaysInside, Blank, Slips

\* What the switch on aioFlag leaves behind.
LEMMA DispatchKeeps ==
  ASSUME TypeOK, Counts, NEW b \in Array, NEW n \in Int, n <= MaxBuffer, Dispatch(b, n)
  PROVE  /\ pc' \in {"idle", "callback"} /\ passed' \in 0..MaxBuffer
         /\ pc' = "callback" => passed' = n
<1>1. CASE Due(b, n)
  <2>1. n \in 1..MaxBuffer BY <1>1, DuePositive
  <2> QED BY <1>1, <2>1, ConstantsAssumption DEF Dispatch
<1>2. CASE ~Due(b, n)
  BY <1>2, ConstantsAssumption DEF Dispatch
<1> QED BY <1>1, <1>2

LEMMA RecvKeeps == ASSUME IInv, NEW d \in Data, Recv(d) PROVE IInv'
<1> USE ConstantsAssumption DEF IInv
<1>1. Len(d) \in Nat \ {0} BY DataLen
<1>2. nExist \in 0..MaxBuffer - Len(d) /\ sock \in Array /\ nExist + Len(d) \in 1..MaxBuffer
  BY <1>1 DEF Recv, TypeOK, Array, Any
<1>3. sock' \in Array BY <1>2, PutFollows DEF Recv
<1>4. nExist' \in 1..MaxBuffer BY <1>2 DEF Recv
<1>5. /\ pc' \in {"idle", "callback"} /\ passed' \in 0..MaxBuffer
      /\ pc' = "callback" => passed' = nExist'
  BY <1>3, <1>4, DispatchKeeps DEF Recv
<1>6. TypeOK'
  BY <1>3, <1>4, <1>5 DEF Recv, TypeOK, Array, Any, unsent, split, event
<1>7. Counts' BY <1>4, <1>5 DEF Recv, Counts, split
<1> QED BY <1>6, <1>7 DEF Recv, WriteArmed, StaysInside, unsent, event

LEMMA RecvNothingKeeps == ASSUME IInv, NEW s, RecvNothing(s) PROVE IInv'
<1> USE ConstantsAssumption DEF IInv
<1>1. sock \in Array /\ nExist \in Int /\ nExist <= MaxBuffer
  BY DEF TypeOK, Array, Any
<1>2. /\ pc' \in {"idle", "callback"} /\ passed' \in 0..MaxBuffer
      /\ pc' = "callback" => passed' = nExist
  BY <1>1, DispatchKeeps DEF RecvNothing
<1>3. TypeOK' BY <1>2 DEF RecvNothing, TypeOK, read, unsent, split
<1>4. Counts' BY <1>2 DEF RecvNothing, Counts, read, split
<1> QED BY <1>3, <1>4 DEF RecvNothing, WriteArmed, StaysInside, unsent

LEMMA CallbackReturnKeeps == ASSUME IInv, NEW u \in 0..MaxBuffer, CallbackReturn(u) PROVE IInv'
<1> USE ConstantsAssumption DEF IInv
<1>1. passed \in 0..MaxBuffer /\ u \in 0..passed /\ nExist \in {0, passed}
  BY DEF TypeOK, Counts, CallbackReturn, At
<1>2. sock' \in Array
  BY <1>1, MemMoveArray DEF TypeOK, CallbackReturn, Array, Any
<1>3. nExist' \in -MaxBuffer..MaxBuffer /\ (nExist' < 0 => "rearm" \in slips')
  BY <1>1 DEF CallbackReturn, Slip
<1>4. slips' \subseteq Slips /\ slips \subseteq slips'
  BY DEF CallbackReturn, Slip, Slips, TypeOK
<1>5. TypeOK'
  BY <1>2, <1>3, <1>4 DEF CallbackReturn, TypeOK, Array, Any, unsent, split, event
<1>6. Counts' BY <1>3 DEF CallbackReturn, Counts, split
<1> QED BY <1>4, <1>5, <1>6 DEF CallbackReturn, WriteArmed, StaysInside, unsent, event

\* A write that does not fit although it is no longer than sendLeaveBuf finds
\* bytes waiting, and so the event listening for room.
LEMMA WriteKeeps == IInv /\ Write => IInv'
<1> USE ConstantsAssumption DEF IInv
<1> SUFFICES ASSUME IInv, Write PROVE IInv'
  OBVIOUS
<1>1. ASSUME NEW d \in Data, WriteWaits(d) PROVE IInv'
  <2>1. Len(d) \in Nat \ {0} BY DataLen
  <2>2. nWBufExist \in 0..MaxBuffer - Len(d) /\ nWBufExist' \in 1..MaxBuffer
    BY <1>1, <2>1 DEF WriteWaits, TypeOK
  <2>3. leave' \in Array
    BY <1>1, <2>2, PutFollows DEF WriteWaits, TypeOK, Array, Any
  <2>4. slips' \subseteq Slips /\ slips \subseteq slips'
    BY <1>1 DEF WriteWaits, Slip, Slips, TypeOK
  <2>5. TypeOK'
    BY <1>1, <2>2, <2>3, <2>4 DEF WriteWaits, TypeOK, Array, Any, read, split
  <2>6. Counts' BY <1>1, <2>4 DEF WriteWaits, Counts, read, split
  <2> QED BY <1>1, <2>2, <2>4, <2>5, <2>6 DEF WriteWaits, WriteArmed, StaysInside
<1>2. ASSUME NEW d \in Data, WriteOutside(d) PROVE IInv'
  <2>1. Len(d) \in Nat \ {0} BY DataLen
  <2>2. nWBufExist > 0
    BY <1>2, <2>1 DEF WriteOutside, Writable, TypeOK
  <2>3. slips' \subseteq Slips /\ slips \subseteq slips'
        /\ (mode = "write" => "again" \in slips')
    BY <1>2 DEF WriteOutside, Slip, Slips, TypeOK
  <2>4. StaysInside'
    BY <1>2, <2>2, <2>3 DEF WriteOutside, Writable, WriteArmed, StaysInside
  <2>5. TypeOK'
    BY <1>2, <2>3 DEF WriteOutside, TypeOK, read, unsent, split, event
  <2>6. Counts' BY <1>2, <2>3 DEF WriteOutside, Counts, read, split
  <2> QED BY <1>2, <2>4, <2>5, <2>6 DEF WriteOutside, WriteArmed
<1>3. ASSUME NEW d \in Data, NEW k \in 1..Len(d), WriteSent(d, k) PROVE IInv'
  <2>1. slips' \subseteq Slips /\ slips \subseteq slips'
    BY <1>3 DEF WriteSent, Slip, Slips, TypeOK
  <2>2. TypeOK'
    BY <1>3, <2>1 DEF WriteSent, TypeOK, read, unsent, split, event
  <2>3. Counts' BY <1>3, <2>1 DEF WriteSent, Counts, read, split
  <2> QED BY <1>3, <2>1, <2>2, <2>3
             DEF WriteSent, WriteArmed, StaysInside, unsent, event
<1>4. ASSUME WriteFails PROVE IInv'
  BY <1>4 DEF WriteFails, TypeOK, Counts, WriteArmed, StaysInside, read, unsent, split
<1> QED BY <1>1, <1>2, <1>3, <1>4 DEF Write

LEMMA FlushKeeps == ASSUME IInv, NEW k \in Cells, Flush(k) PROVE IInv'
<1> USE ConstantsAssumption DEF IInv
<1>1. k \in 1..nWBufExist /\ nWBufExist \in 1..MaxBuffer
      /\ nWBufExist' = nWBufExist - k /\ nWBufExist' \in 0..MaxBuffer
  BY DEF Flush, TypeOK
<1>2. leave' \in Array
  BY <1>1, MemMoveArray DEF Flush, TypeOK, Array, Any
<1>3. sock' \in Array
  BY DEF Flush, Spilt, TypeOK, Array, Any
<1>4. slips' \subseteq Slips /\ slips \subseteq slips'
  BY DEF Flush, Slip, Slips, TypeOK
<1>5. TypeOK'
  BY <1>1, <1>2, <1>3, <1>4 DEF Flush, TypeOK, Array, Any, split
<1>6. Counts' BY <1>4 DEF Flush, Counts, split
<1>7. WriteArmed' BY <1>1, <1>4 DEF Flush, WriteArmed, At
<1> QED BY <1>4, <1>5, <1>6, <1>7 DEF Flush, StaysInside

LEMMA RearmKeeps == ASSUME IInv, Rearms PROVE IInv'
<1> USE ConstantsAssumption DEF IInv
<1>1. PICK r \in Registrations : Rearm(r[1], r[2])
  BY DEF Rearms
<1>2. r[1] \in {"num", "char"} /\ r[2] \in Cells /\ (r[1] = "char" => r[2] = Len(Split))
  BY SplitLen DEF Registrations
<1>3. slips' \subseteq Slips /\ slips \subseteq slips'
  BY <1>1 DEF Rearm, Slip, Slips, TypeOK
<1>4. TypeOK'
  BY <1>1, <1>2, <1>3 DEF Rearm, Register, Blank, TypeOK, event
<1>5. Counts' BY <1>1, <1>2 DEF Rearm, Register, Counts
<1> QED BY <1>1, <1>3, <1>4, <1>5 DEF Rearm, WriteArmed, StaysInside, event

LEMMA CreateBufferKeeps ==
  ASSUME IInv, NEW r \in Registrations, NEW left \in {0, nWBufExist},
         CreateBuffer(r[1], r[2], left)
  PROVE  IInv'
<1> USE ConstantsAssumption DEF IInv
<1>1. r[1] \in {"num", "char"} /\ r[2] \in Cells /\ (r[1] = "char" => r[2] = Len(Split))
  BY SplitLen DEF Registrations
<1>2. left \in 0..MaxBuffer BY DEF TypeOK
<1>3. slips' \subseteq Slips /\ (left > 0 => "reused" \in slips')
  BY DEF CreateBuffer, Slip, Slips
<1>4. TypeOK'
  BY <1>1, <1>2, <1>3 DEF CreateBuffer, Register, Blank, TypeOK
<1>5. Counts' BY <1>1 DEF CreateBuffer, Register, Counts
<1>6. ok' BY DEF CreateBuffer, At
<1> QED BY <1>2, <1>3, <1>4, <1>5, <1>6 DEF CreateBuffer, WriteArmed, StaysInside

LEMMA InvStep == IInv /\ [Next]_vars => IInv'
<1> SUFFICES ASSUME IInv, [Next]_vars PROVE IInv'
  OBVIOUS
<1> USE ConstantsAssumption
<1>1. CASE Input \/ RecvOutside \/ RecvFails
  <2>1. CASE RecvFull
    BY <2>1 DEF RecvFull, IInv, TypeOK, Counts, WriteArmed, StaysInside, read, unsent, split
  <2>2. CASE \E d \in Data : Recv(d)
    BY <2>2, RecvKeeps
  <2>3. CASE RecvOutside
    BY <2>3 DEF RecvOutside, Readable, IInv, TypeOK, Counts, WriteArmed, StaysInside,
                read, unsent, split, event
  <2>4. CASE RecvFails
    BY <2>4 DEF RecvFails, IInv, TypeOK, Counts, WriteArmed, StaysInside, read, unsent, split
  <2> QED BY <1>1, <2>1, <2>2, <2>3, <2>4 DEF Input
<1>2. CASE Write BY <1>2, WriteKeeps
<1>3. CASE Returns BY <1>3, CallbackReturnKeeps DEF Returns
<1>4. CASE Flushes BY <1>4, FlushKeeps DEF Flushes
<1>5. CASE \E s \in {"listen", "close", "error"} : RecvNothing(s)
  BY <1>5, RecvNothingKeeps
<1>6. CASE \E n \in Cells : Continue(n)
  BY <1>6 DEF Continue, IInv, TypeOK, Counts, WriteArmed, StaysInside, read, unsent, event, Cells
<1>7. CASE Rearms BY <1>7, RearmKeeps
<1>8. CASE FlushFails \/ Report \/ ErrCallback \/ DisBuffer
  BY <1>8 DEF FlushFails, Report, ErrCallback, DisBuffer, Free, IInv, TypeOK, Counts,
              WriteArmed, StaysInside, read, unsent, split, event
<1>9. CASE \E r \in Registrations, left \in {0, nWBufExist} : CreateBuffer(r[1], r[2], left)
  BY <1>9, CreateBufferKeeps
<1>10. CASE UNCHANGED vars
  BY <1>10 DEF vars, IInv, TypeOK, Counts, WriteArmed, StaysInside, read, unsent, split, event
<1> QED
  BY <1>1, <1>2, <1>3, <1>4, <1>5, <1>6, <1>7, <1>8, <1>9, <1>10 DEF Next

-----------------------------------------------------------------------------
(* The two directions as streams of bytes *)

\* The step of ByteStream: of what was inside, q, and what comes in, the
\* front goes out and the rest is inside then.
Moved(q, in, out, q2) ==
  LET all == q \o in
  IN  \E k \in 0..Len(all) : out = SubSeq(all, 1, k) /\ q2 = SubSeq(all, k + 1, Len(all))

\* The front of a sequence that is all of it, or nothing.
LEMMA Whole ==
  ASSUME NEW S, NEW q \in Seq(S)
  PROVE  /\ SubSeq(q, 1, Len(q)) = q /\ SubSeq(q, 1, 0) = <<>>
         /\ SubSeq(q, Len(q) + 1, Len(q)) = <<>>
<1>1. Len(q) \in Nat /\ \A i \in 1..Len(q) : q[i] \in S
  BY LenProperties, ElementOfSeq
<1> DEFINE t == SubSeq(q, 1, Len(q))
<1>2. t \in Seq(S) /\ Len(t) = Len(q) /\ \A i \in 1..Len(q) : t[i] = q[i]
  BY <1>1, SubSeqProperties
<1>3. t = q
  <2> HIDE DEF t
  <2> QED BY <1>2, SeqEqual
<1> QED BY <1>1, <1>3, SubSeqEmpty

\* What comes in stays inside.
LEMMA MovedIn ==
  ASSUME NEW S, NEW q \in Seq(S), NEW d \in Seq(S)
  PROVE  Moved(q, d, <<>>, q \o d)
<1>1. q \o d \in Seq(S) BY ConcatProperties
<1>2. <<>> = SubSeq(q \o d, 1, 0) /\ q \o d = SubSeq(q \o d, 0 + 1, Len(q \o d))
  BY <1>1, Whole
<1> QED BY <1>1, <1>2, LenProperties DEF Moved

\* Nothing comes in, and the first k bytes go out.
LEMMA MovedOut ==
  ASSUME NEW S, NEW q \in Seq(S), NEW k \in 0..Len(q)
  PROVE  Moved(q, <<>>, SubSeq(q, 1, k), SubSeq(q, k + 1, Len(q)))
  BY ConcatEmptySeq DEF Moved

\* Nothing moves.
LEMMA MovedNot ==
  ASSUME NEW S, NEW q \in Seq(S)
  PROVE  Moved(q, <<>>, <<>>, q)
<1>1. Moved(q, <<>>, <<>>, q \o <<>>) BY MovedIn, EmptySeq
<1> QED BY <1>1, ConcatEmptySeq

\* What comes in goes through.
LEMMA MovedThrough ==
  ASSUME NEW S, NEW d \in Seq(S)
  PROVE  Moved(<<>>, d, d, <<>>)
<1>1. <<>> \o d = d BY ConcatEmptySeq
<1>2. Len(d) \in Nat /\ d = SubSeq(d, 1, Len(d)) /\ <<>> = SubSeq(d, Len(d) + 1, Len(d))
  BY Whole, LenProperties
<1>3. Len(d) \in 0..Len(d) BY <1>2
<1> QED BY <1>1, <1>2, <1>3, Zenon DEF Moved

LEMMA HeldSeq == ASSUME TypeOK, nExist >= 0 PROVE Held \in Seq(Any) /\ Len(Held) = nExist
<1>1. sock \in Array /\ nExist \in 0..MaxBuffer
  BY ConstantsAssumption DEF TypeOK, Array, Any
<1> QED BY <1>1, Front DEF Held

LEMMA HeldEmpty == ASSUME TypeOK, nExist <= 0 PROVE Held = <<>>
  BY SubSeqEmpty, ConstantsAssumption DEF TypeOK, Held

LEMMA HeldAny == TypeOK => Held \in Seq(Any)
<1> SUFFICES ASSUME TypeOK PROVE Held \in Seq(Any)
  OBVIOUS
<1>1. CASE nExist >= 0 BY <1>1, HeldSeq
<1>2. CASE nExist <= 0
  <2>1. Held = <<>> BY <1>2, HeldEmpty
  <2> QED BY <2>1, EmptySeq
<1>3. nExist \in Int BY ConstantsAssumption DEF TypeOK
<1> QED BY <1>1, <1>2, <1>3

LEMMA PendingSeq == TypeOK => Pending \in Seq(Any) /\ Len(Pending) = nWBufExist
<1> SUFFICES ASSUME TypeOK PROVE Pending \in Seq(Any) /\ Len(Pending) = nWBufExist
  OBVIOUS
<1>1. leave \in Array /\ nWBufExist \in 0..MaxBuffer
  BY DEF TypeOK, Array, Any
<1> QED BY <1>1, Front DEF Pending

\* The steps of the read direction.
ReadMoved == Moved(Held, io'.got, io'.used, Held')
ReadExcused == ~ok' \/ slips' \cap {"rearm", "spill"} # {}

\* A step that leaves sockBuffer alone and neither receives nor uses bytes.
LEMMA ReadIdle ==
  ASSUME TypeOK, UNCHANGED read, io'.got = <<>>, io'.used = <<>>
  PROVE  ReadMoved
  BY HeldAny, MovedNot DEF ReadMoved, Held, read

LEMMA RecvMoves == ASSUME IInv, NEW d \in Data, Recv(d) PROVE ReadMoved
<1>1. sock \in Array /\ nExist \in 0..MaxBuffer - Len(d) /\ d \in Seq(Any)
  BY DataLen DEF IInv, TypeOK, Array, Any, Recv
<1>2. Held' = Held \o d
  BY <1>1, PutFollows DEF Recv, Held
<1>3. Held \in Seq(Any) BY HeldAny DEF IInv
<1>4. io'.got = d /\ io'.used = <<>> BY DEF Recv, NoIO
<1> QED BY <1>1, <1>2, <1>3, <1>4, MovedIn DEF ReadMoved

LEMMA CallbackReturnMoves ==
  ASSUME IInv, NEW u \in 0..MaxBuffer, CallbackReturn(u), ~ReadExcused
  PROVE  ReadMoved
<1> USE ConstantsAssumption
<1>1. TypeOK /\ Counts BY DEF IInv
<1>2. u \in 0..passed /\ passed \in 0..MaxBuffer /\ nExist \in {0, passed}
      /\ ~(nExist < u) /\ nExist' = nExist - u
  BY <1>1 DEF CallbackReturn, Counts, TypeOK, At, ReadExcused, Slip
<1>3. io'.got = <<>> /\ io'.used = SubSeq(sock, 1, u) BY DEF CallbackReturn, NoIO
<1>4. CASE nExist = 0
  <2>1. Held = <<>> BY <1>1, <1>4, HeldEmpty
  <2>2. Held' = <<>> /\ io'.used = <<>> BY <1>2, <1>3, <1>4, SubSeqEmpty DEF Held
  <2> QED BY <1>3, <2>1, <2>2, MovedNot, EmptySeq DEF ReadMoved
<1>5. CASE nExist = passed /\ nExist # 0
  <2>1. sock \in Array /\ nExist \in 0..MaxBuffer /\ u \in 0..nExist
    BY <1>1, <1>2, <1>5 DEF TypeOK, Array, Any
  <2>2. Held \in Seq(Any) /\ Len(Held) = nExist BY <1>1, <2>1, HeldSeq
  <2>3. Held' = SubSeq(Held, u + 1, Len(Held))
    <3>1. sock' = MemMove(sock, u, nExist) /\ nExist' = nExist - u
      BY <1>2, <1>5 DEF CallbackReturn
    <3>2. Held' = SubSeq(MemMove(sock, u, nExist), 1, nExist - u) BY <3>1 DEF Held
    <3> QED BY <2>1, <2>2, <3>2, MemMoveLeaves DEF Held
  <2>4. SubSeq(sock, 1, u) = SubSeq(Held, 1, u)
    <3>1. /\ SubSeq(sock, 1, u) \in Seq(Any) /\ Len(SubSeq(sock, 1, u)) = u
          /\ \A i \in 1..u : SubSeq(sock, 1, u)[i] = sock[i]
      BY <2>1, Front
    <3>2. \A i \in 1..nExist : Held[i] = sock[i]
      BY <2>1, Front DEF Held
    <3>3. \A i \in 1..u : Held[i] \in Any BY <2>1, <2>2, ElementOfSeq
    <3>4. /\ SubSeq(Held, 1, u) \in Seq(Any) /\ Len(SubSeq(Held, 1, u)) = u
          /\ \A i \in 1..u : SubSeq(Held, 1, u)[i] = Held[i]
      BY <2>1, <3>3, SubSeqProperties
    <3> QED BY <2>1, <3>1, <3>2, <3>4, SeqEqual
  <2> QED BY <1>3, <2>1, <2>2, <2>3, <2>4, MovedOut DEF ReadMoved
<1> QED BY <1>2, <1>4, <1>5

\* Without a spill the zeroes of the flush are behind what is held.
LEMMA FlushHolds ==
  ASSUME IInv, NEW k \in Cells, Flush(k), ~ReadExcused
  PROVE  ReadMoved
<1> USE ConstantsAssumption
<1>1. TypeOK /\ nExist' = nExist /\ sock' = Spilt(k, nWBufExist')
  BY DEF IInv, Flush
<1>2. io'.got = <<>> /\ io'.used = <<>> BY DEF Flush, NoIO
<1>3. Held' = Held
  <2>1. CASE nExist <= 0
    BY <1>1, <2>1, SubSeqEmpty DEF Held, TypeOK
  <2>2. CASE nExist > 0
    <3>1. sock \in Array /\ sock' \in Array /\ nExist \in 0..MaxBuffer
      BY <1>1, <2>2 DEF TypeOK, Array, Any, Spilt
    <3>2. ~(nExist > MaxBuffer - (k - nWBufExist')) /\ nWBufExist' \in Int /\ k \in Int
      <4>1. "spill" \notin slips' BY DEF ReadExcused
      <4>2. Slip("spill", nExist > MaxBuffer - (k - nWBufExist')) \subseteq slips'
        BY DEF Flush
      <4>3. nWBufExist' \in Int /\ k \in Int BY <1>1 DEF Flush, TypeOK, Cells
      <4> QED BY <4>1, <4>2, <4>3 DEF Slip
    <3>3. \A i \in 1..nExist : sock'[i] = sock[i]
      <4>1. \A i \in 1..nExist : i \in Cells /\ ~(i > MaxBuffer - (k - nWBufExist'))
        <5> DEFINE room == MaxBuffer - (k - nWBufExist')
        <5>1. room \in Int BY <3>2
        <5>2. nExist \in 0..MaxBuffer /\ ~(nExist > room) BY <3>1, <3>2
        <5> HIDE DEF room
        <5>3. \A i \in 1..nExist : i \in 1..MaxBuffer /\ ~(i > room) BY <5>1, <5>2
        <5> QED BY <5>3 DEF room, Cells
      <4> QED BY <1>1, <4>1 DEF Spilt
    <3> QED BY <1>1, <3>1, <3>3, Front, SeqEqual DEF Held
  <2> QED BY <1>1, <2>1, <2>2 DEF TypeOK
<1> QED BY <1>1, <1>2, <1>3, HeldAny, MovedNot DEF ReadMoved

LEMMA ReadStep ==
  ASSUME IInv, Next
  PROVE  ReadMoved \/ ReadExcused \/ (Held' = <<>> /\ (pc = "freed" \/ Rearms))
<1> USE ConstantsAssumption
<1>0. TypeOK BY DEF IInv
<1>1. CASE \E d \in Data : Recv(d) BY <1>1, RecvMoves
<1>2. CASE RecvOutside \/ \E d \in Data : WriteOutside(d)
  BY <1>2 DEF RecvOutside, WriteOutside, ReadExcused
<1>3. CASE Returns BY <1>3, CallbackReturnMoves DEF Returns
<1>4. CASE Flushes BY <1>4, FlushHolds DEF Flushes
<1>5. CASE Rearms
  <2>1. nExist' = 0 BY <1>5 DEF Rearms, Rearm, Register
  <2> QED BY <1>5, <2>1, SubSeqEmpty DEF Held
<1>6. CASE \E r \in Registrations, left \in {0, nWBufExist} : CreateBuffer(r[1], r[2], left)
  <2>1. nExist' = 0 /\ pc = "freed" BY <1>6 DEF CreateBuffer, Register, At
  <2> QED BY <2>1, SubSeqEmpty DEF Held
<1>7. ASSUME NEW d \in Data, WriteWaits(d) PROVE ReadMoved
  BY <1>0, <1>7, ReadIdle DEF WriteWaits, NoIO
<1>8. ASSUME NEW d \in Data, NEW k \in 1..Len(d), WriteSent(d, k) PROVE ReadMoved
  BY <1>0, <1>8, ReadIdle DEF WriteSent, NoIO
<1>9. CASE \/ RecvFull \/ RecvFails \/ WriteFails \/ FlushFails \/ Report
           \/ ErrCallback \/ DisBuffer
           \/ (\E s \in {"listen", "close", "error"} : RecvNothing(s))
           \/ (\E n \in Cells : Continue(n))
  <2>1. UNCHANGED read /\ io' = NoIO
    BY <1>9 DEF RecvFull, RecvFails, WriteFails, FlushFails, Report, ErrCallback, DisBuffer,
                Free, RecvNothing, Continue, read
  <2> QED BY <1>0, <2>1, ReadIdle DEF NoIO
<1> QED
  BY <1>1, <1>2, <1>3, <1>4, <1>5, <1>6, <1>7, <1>8, <1>9 DEF Next, Input, Write

-----------------------------------------------------------------------------
(* The steps of the other direction *)

SendMoved == Moved(Pending, io'.put, io'.wire, Pending')
SendExcused ==
  ~ok' \/ slips' \cap {"partial", "overtake", "cut", "wiped", "reused"} # {}

LEMMA PendingEmpty == ASSUME TypeOK, ~(nWBufExist > 0) PROVE Pending = <<>>
  BY SubSeqEmpty, ConstantsAssumption DEF TypeOK, Pending

LEMMA SendIdle ==
  ASSUME TypeOK, UNCHANGED unsent, io'.put = <<>>, io'.wire = <<>>
  PROVE  SendMoved
  BY PendingSeq, MovedNot DEF SendMoved, Pending, unsent

\* All of d is sent, and nothing waits.
LEMMA WriteSentMoves ==
  ASSUME TypeOK, NEW d \in Data, NEW k \in 1..Len(d), WriteSent(d, k), ~SendExcused
  PROVE  SendMoved
<1>1. d \in Seq(Any) /\ Len(d) \in Nat BY DataLen
<1>2. Slip("partial", k < Len(d)) \subseteq slips' /\ Slip("overtake", nWBufExist > 0) \subseteq slips'
  BY DEF WriteSent
<1>3. "partial" \notin slips' /\ "overtake" \notin slips' BY DEF SendExcused
<1>4. ~(k < Len(d)) /\ ~(nWBufExist > 0) BY <1>2, <1>3 DEF Slip
<1>5. k = Len(d) BY <1>1, <1>4
<1>6. Pending = <<>> BY <1>4, PendingEmpty
<1>7. Pending' = Pending BY DEF WriteSent, unsent, Pending
<1>8. io'.put = d /\ io'.wire = SubSeq(d, 1, k) BY DEF WriteSent, NoIO
<1>9. io'.wire = d BY <1>1, <1>5, <1>8, Whole
<1> QED BY <1>1, <1>6, <1>7, <1>8, <1>9, MovedThrough DEF SendMoved

LEMMA WriteWaitsMoves ==
  ASSUME TypeOK, NEW d \in Data, WriteWaits(d) PROVE SendMoved
<1>1. d \in Seq(Any) /\ Len(d) \in Nat BY DataLen
<1>2. leave \in Array /\ nWBufExist \in 0..MaxBuffer - Len(d)
  BY <1>1, ConstantsAssumption DEF TypeOK, Array, Any, WriteWaits
<1>3. Pending' = Pending \o d BY <1>2, PutFollows DEF WriteWaits, Pending
<1>4. io'.put = d /\ io'.wire = <<>> BY DEF WriteWaits, NoIO
<1> QED BY <1>1, <1>3, <1>4, PendingSeq, MovedIn DEF SendMoved

\* Without a cut the flush sends all that waits.
LEMMA FlushMoves ==
  ASSUME TypeOK, NEW k \in Cells, Flush(k), ~SendExcused PROVE SendMoved
<1>1. Slip("cut", k < nWBufExist) \subseteq slips' BY DEF Flush
<1>2. ~(k < nWBufExist) BY <1>1 DEF SendExcused, Slip
<1>3. k = nWBufExist /\ nWBufExist' = 0 /\ nWBufExist \in Nat
  BY <1>2, ConstantsAssumption DEF Flush, TypeOK
<1>4. Pending' = <<>> BY <1>3, SubSeqEmpty DEF Pending
<1>5. io'.put = <<>> /\ io'.wire = Pending BY <1>3 DEF Flush, NoIO, Pending
<1>6. Pending \in Seq(Any) /\ Len(Pending) = nWBufExist BY PendingSeq
<1>7. SubSeq(Pending, 1, nWBufExist) = Pending
      /\ SubSeq(Pending, nWBufExist + 1, nWBufExist) = <<>>
  BY <1>6, Whole
<1>8. Moved(Pending, <<>>, SubSeq(Pending, 1, nWBufExist),
            SubSeq(Pending, nWBufExist + 1, Len(Pending)))
  BY <1>3, <1>6, MovedOut, nWBufExist \in 0..nWBufExist
<1> QED BY <1>4, <1>5, <1>6, <1>7, <1>8 DEF SendMoved

LEMMA RearmMoves ==
  ASSUME TypeOK, Rearms, ~SendExcused PROVE SendMoved
<1>1. Slip("wiped", nWBufExist > 0) \subseteq slips' /\ nWBufExist' = nWBufExist /\ io' = NoIO
  BY DEF Rearms, Rearm
<1>2. ~(nWBufExist > 0) BY <1>1 DEF SendExcused, Slip
<1>3. Pending = <<>> BY <1>2, PendingEmpty
<1>4. Pending' = <<>>
  BY <1>1, <1>2, SubSeqEmpty, ConstantsAssumption DEF TypeOK, Pending
<1> QED BY <1>1, <1>3, <1>4, MovedNot, EmptySeq DEF SendMoved, NoIO

LEMMA SendStep ==
  ASSUME IInv, Next
  PROVE  SendMoved \/ SendExcused \/ (Pending' = <<>> /\ pc = "freed")
<1> USE ConstantsAssumption
<1>0. TypeOK BY DEF IInv
<1>1. ASSUME NEW d \in Data, WriteWaits(d) PROVE SendMoved
  BY <1>0, <1>1, WriteWaitsMoves
<1>2. CASE RecvOutside \/ \E d \in Data : WriteOutside(d)
  BY <1>2 DEF RecvOutside, WriteOutside, SendExcused
<1>3. ASSUME NEW d \in Data, NEW k \in 1..Len(d), WriteSent(d, k), ~SendExcused PROVE SendMoved
  BY <1>0, <1>3, WriteSentMoves
<1>4. CASE Flushes BY <1>0, <1>4, FlushMoves DEF Flushes
<1>5. CASE Rearms BY <1>0, <1>5, RearmMoves
<1>6. ASSUME NEW r \in Registrations, NEW left \in {0, nWBufExist},
             CreateBuffer(r[1], r[2], left), ~SendExcused
      PROVE  Pending' = <<>> /\ pc = "freed"
  <2>1. slips' = Slip("reused", left > 0) /\ nWBufExist' = left /\ pc = "freed"
    BY <1>6 DEF CreateBuffer, At
  <2>2. ~(left > 0) BY <1>6, <2>1 DEF SendExcused, Slip
  <2>3. left \in 0..MaxBuffer BY <1>0 DEF TypeOK
  <2> QED BY <2>1, <2>2, <2>3, SubSeqEmpty DEF Pending
<1>7. CASE Returns
  <2>1. UNCHANGED unsent /\ io'.put = <<>> /\ io'.wire = <<>>
    BY <1>7 DEF Returns, CallbackReturn, NoIO, unsent
  <2> QED BY <1>0, <2>1, SendIdle
<1>8. ASSUME NEW d \in Data, Recv(d) PROVE SendMoved
  BY <1>0, <1>8, SendIdle DEF Recv, NoIO
<1>9. CASE \/ RecvFull \/ RecvFails \/ WriteFails \/ FlushFails \/ Report
           \/ ErrCallback \/ DisBuffer
           \/ (\E s \in {"listen", "close", "error"} : RecvNothing(s))
           \/ (\E n \in Cells : Continue(n))
  <2>1. UNCHANGED unsent /\ io' = NoIO
    BY <1>9 DEF RecvFull, RecvFails, WriteFails, FlushFails, Report, ErrCallback, DisBuffer,
                Free, RecvNothing, Continue, unsent
  <2> QED BY <1>0, <2>1, SendIdle DEF NoIO
<1> QED
  BY <1>1, <1>2, <1>3, <1>4, <1>5, <1>6, <1>7, <1>8, <1>9 DEF Next, Input, Write

-----------------------------------------------------------------------------
(* The theorems *)

LEMMA Invariant == Spec => []IInv
  BY InvInit, InvStep, PTL DEF Spec

\* Every variable has its type: the counts never exceed the arrays, whatever
\* recv, send and the callbacks do.
THEOREM TypeCorrect == Spec => []TypeOK
<1>1. IInv => TypeOK BY DEF IInv
<1> QED BY <1>1, Invariant, PTL

\* Memory outside the arrays is written only after one of the three slips.
THEOREM Inside == Spec => []StaysInside
<1>1. IInv => StaysInside BY DEF IInv
<1> QED BY <1>1, Invariant, PTL

\* The event listens for room to write exactly while bytes wait.
THEOREM Armed == Spec => []WriteArmed
<1>1. IInv => WriteArmed BY DEF IInv
<1> QED BY <1>1, Invariant, PTL

\* The read direction implements ByteStream until a slip it names.
THEOREM ReadsInOrder == Spec => ReadInOrder
<1>1. ReadMoved <=> Incoming!Move
  BY DEF ReadMoved, Moved, Incoming!Move
<1>2. IInv /\ [Next]_vars =>
        [\/ Held' = <<>> /\ (pc = "freed" \/ Rearms)
         \/ ~ok' \/ slips' \cap {"rearm", "spill"} # {}
         \/ [Incoming!Move]_<<Held, io.got, io.used>>]_vars
  BY <1>1, ReadStep DEF ReadExcused
<1> QED BY <1>2, Invariant, PTL DEF Spec, ReadInOrder

\* The write direction implements ByteStream until a slip it names.
THEOREM SendsInOrder == Spec => SendInOrder
<1>1. SendMoved <=> Outgoing!Move
  BY DEF SendMoved, Moved, Outgoing!Move
<1>2. IInv /\ [Next]_vars =>
        [\/ Pending' = <<>> /\ pc = "freed"
         \/ ~ok' \/ slips' \cap {"partial", "overtake", "cut", "wiped", "reused"} # {}
         \/ [Outgoing!Move]_<<Pending, io.put, io.wire>>]_vars
  BY <1>1, SendStep DEF SendExcused
<1> QED BY <1>2, Invariant, PTL DEF Spec, SendInOrder

-----------------------------------------------------------------------------
(* splitFind *)

LEMMA NatSet ==
  ASSUME NEW S, 0 \in S, \A n \in Nat : n \in S => n+1 \in S
  PROVE  Nat \subseteq S
<1> DEFINE Less == {x \in Nat \X Nat : x[1] < x[2]}
<1> SUFFICES ASSUME Nat \ S # {} PROVE FALSE
  OBVIOUS
<1>1. IsWellFoundedOn(Less, Nat) BY NatLessThanWellFounded DEF OpToRel
<1>2. PICK x \in Nat \ S : \A y \in Nat \ S : ~(<<y, x>> \in Less) BY <1>1, WFMin
<1>3. \A y \in Nat \ S : ~(y < x) BY <1>2
<1>4. x # 0 OBVIOUS
<1>5. x-1 \in S BY <1>3, <1>4
<1>6. (x-1)+1 \in S BY <1>4, <1>5
<1> QED BY <1>6

\* What the loop of splitFind makes of i at the byte b.
Matched(i, b) ==
  IF i = Len(Split) THEN i ELSE IF b = Split[i + 1] THEN i + 1 ELSE 0

\* The values of i after each byte of s.
Matches(f, s) ==
  f = [j \in 0..Len(s) |-> IF j = 0 THEN 0 ELSE Matched(f[j - 1], s[j])]

LEMMA MatchesExist ==
  ASSUME NEW s, Len(s) \in Nat
  PROVE  \E f : Matches(f, s)
<1> DEFINE Fits(f, n) == f[0] = 0 /\ \A j \in 1..n : f[j] = Matched(f[j - 1], s[j])
           S == {n \in Nat : \E f \in [0..n -> Nat] : Fits(f, n)}
<1>1. Len(Split) \in Nat BY ConstantsAssumption, LenProperties
<1>2. \A i \in Nat : \A b : Matched(i, b) \in Nat BY <1>1 DEF Matched
<1>3. 0 \in S
  <2> DEFINE f == [x \in 0..0 |-> 0]
  <2>1. f \in [0..0 -> Nat] /\ Fits(f, 0) OBVIOUS
  <2> QED BY <2>1
<1>4. ASSUME NEW n \in Nat, n \in S PROVE n+1 \in S
  <2>1. PICK f \in [0..n -> Nat] : Fits(f, n) BY <1>4
  <2> DEFINE g == [x \in 0..n+1 |-> IF x = n+1 THEN Matched(f[n], s[n+1]) ELSE f[x]]
  <2>2. g \in [0..n+1 -> Nat]
    <3>1. f[n] \in Nat BY <2>1
    <3> QED BY <1>2, <3>1
  <2>3. Fits(g, n+1) BY <2>1
  <2> HIDE DEF g, Fits
  <2> QED BY <2>2, <2>3
<1> HIDE DEF S
<1>5. Len(s) \in S BY <1>3, <1>4, NatSet
<1>6. PICK f \in [0..Len(s) -> Nat] : Fits(f, Len(s)) BY <1>5 DEF S
<1>7. \A j \in 0..Len(s) : f[j] = IF j = 0 THEN 0 ELSE Matched(f[j - 1], s[j]) BY <1>6
<1>8. f = [j \in 0..Len(s) |-> f[j]] BY <1>6
<1> QED BY <1>7, <1>8 DEF Matches

LEMMA MatchesSteps ==
  ASSUME NEW s, Len(s) \in Nat, NEW f, Matches(f, s)
  PROVE  /\ f[0] = 0
         /\ \A j \in Nat : j+1 \in 1..Len(s) => f[j+1] = Matched(f[j], s[j+1])
<1>1. \A j \in 0..Len(s) : f[j] = IF j = 0 THEN 0 ELSE Matched(f[j - 1], s[j])
  BY DEF Matches
<1> QED BY <1>1

\* The split stands at position p of s.
Stands(p, s) ==
  /\ p \in 1..Len(s) /\ p + Len(Split) - 1 <= Len(s)
  /\ \A k \in 1..Len(Split) : s[p + k - 1] = Split[k]

LEMMA OccursStands ==
  ASSUME NEW S, NEW s \in Seq(S), NEW p \in 1..Len(s)
  PROVE  Occurs(Split, p, s) <=> Stands(p, s)
<1> DEFINE m == Len(Split)
           u == SubSeq(s, p, p + m - 1)
<1>1. m \in Nat \ {0} /\ Split \in Seq(Byte) BY ConstantsAssumption, EmptySeq
<1>2. Len(s) \in Nat /\ \A i \in 1..Len(s) : s[i] \in S BY LenProperties, ElementOfSeq
<1> SUFFICES ASSUME p + m - 1 <= Len(s)
             PROVE  u = Split <=> \A k \in 1..m : s[p + k - 1] = Split[k]
  BY DEF Occurs, Stands
<1>3. u \in Seq(S) /\ Len(u) = m /\ \A k \in 1..m : u[k] = s[p + k - 1]
  <2>1. \A i \in p..p + m - 1 : s[i] \in S BY <1>1, <1>2
  <2>2. p \in Int /\ p + m - 1 \in Int /\ p <= (p + m - 1) + 1 BY <1>1, <1>2
  <2>3. (p + m - 1) - p + 1 = m BY <1>1, <1>2
  <2> QED BY <2>1, <2>2, <2>3, <1>1, SubSeqProperties
<1> HIDE DEF u
<1>4. (\A k \in 1..m : u[k] = Split[k]) => u = Split
  <2>1. u \in Seq(S \cup Byte) /\ Split \in Seq(S \cup Byte)
    BY <1>1, <1>3, SeqMonotonic, S \subseteq S \cup Byte, Byte \subseteq S \cup Byte
  <2> QED BY <2>1, <1>3, SeqEqual
<1> QED BY <1>3, <1>4

\* What has matched is the front of the split, and the last bytes that were
\* read, until all of it has been found.
LEMMA MatchesSound ==
  ASSUME NEW s, Len(s) \in Nat, NEW f, Matches(f, s)
  PROVE  /\ \A j \in 0..Len(s) : f[j] \in 0..Len(Split)
         /\ f[Len(s)] = Len(Split) => \E p \in 1..Len(s) : Stands(p, s)
<1> DEFINE m == Len(Split)
           Front2(j) == f[j] < m => /\ f[j] <= j
                                    /\ \A k \in 1..f[j] : s[j - f[j] + k] = Split[k]
           Good(j) == /\ f[j] \in 0..m
                      /\ Front2(j)
                      /\ f[j] = m => \E p \in 1..Len(s) : Stands(p, s)
           S == {n \in Nat : n <= Len(s) => Good(n)}
<1>1. m \in Nat \ {0} BY ConstantsAssumption, EmptySeq
<1>2. f[0] = 0 /\ \A j \in Nat : j+1 \in 1..Len(s) => f[j+1] = Matched(f[j], s[j+1])
  BY MatchesSteps
<1>3. 0 \in S BY <1>1, <1>2
<1>4. ASSUME NEW n \in Nat, n \in S PROVE n+1 \in S
  <2> SUFFICES ASSUME n+1 <= Len(s) PROVE Good(n+1)
    OBVIOUS
  <2>1. Good(n) BY <1>4
  <2>2. f[n+1] = Matched(f[n], s[n+1]) BY <1>2
  <2>3. CASE f[n] = m BY <1>1, <2>1, <2>2, <2>3 DEF Matched
  <2>4. CASE f[n] # m /\ s[n+1] # Split[f[n] + 1]
    <3>1. f[n+1] = 0 BY <2>2, <2>4 DEF Matched
    <3> QED BY <1>1, <3>1
  <2>5. CASE f[n] # m /\ s[n+1] = Split[f[n] + 1]
    <3>1. f[n+1] = f[n] + 1 BY <2>2, <2>5 DEF Matched
    <3>2. f[n] \in 0..m - 1 /\ f[n] <= n BY <2>1, <2>5, <1>1
    <3>3. \A k \in 1..f[n] : s[n - f[n] + k] = Split[k] BY <2>1, <2>5, <1>1
    <3>4. ASSUME NEW k \in 1..f[n+1] PROVE s[(n+1) - f[n+1] + k] = Split[k]
      <4>1. (n+1) - f[n+1] + k = n - f[n] + k BY <3>1, <3>2
      <4>2. CASE k = f[n] + 1
        <5>1. n - f[n] + k = n+1 BY <4>2, <3>2
        <5> QED BY <4>1, <4>2, <5>1, <2>5
      <4>3. CASE k # f[n] + 1
        <5>1. k \in 1..f[n] BY <3>1, <3>2, <4>3
        <5> QED BY <4>1, <5>1, <3>3
      <4> QED BY <4>2, <4>3
    <3>5. f[n+1] = m => \E p \in 1..Len(s) : Stands(p, s)
      <4> SUFFICES ASSUME f[n+1] = m PROVE \E p \in 1..Len(s) : Stands(p, s)
        OBVIOUS
      <4> DEFINE p == n + 2 - m
      <4>1. p \in 1..Len(s) /\ p + m - 1 <= Len(s) BY <3>1, <3>2, <1>1
      <4>2. ASSUME NEW k \in 1..m PROVE s[p + k - 1] = Split[k]
        <5>1. p + k - 1 = (n+1) - f[n+1] + k BY <1>1
        <5> QED BY <5>1, <3>4
      <4> QED BY <4>1, <4>2 DEF Stands
    <3> QED BY <3>1, <3>2, <3>4, <3>5, <1>1
  <2>6. f[n] = m \/ f[n] # m OBVIOUS
  <2> HIDE DEF Good
  <2> QED BY <2>3, <2>4, <2>5
<1> HIDE DEF S
<1>5. \A j \in Nat : j \in S BY <1>3, <1>4, NatSet
<1>6. \A j \in 0..Len(s) : Good(j) BY <1>5 DEF S
<1> QED BY <1>6

\* From a clean place on, what has matched of the split is what stands there.
LEMMA MatchesComplete ==
  ASSUME NEW s, Len(s) \in Nat, NEW f, Matches(f, s),
         NEW p, Stands(p, s), Clean(p, s)
  PROVE  f[Len(s)] = Len(Split)
<1> DEFINE m == Len(Split)
           S == {n \in Nat : p - 1 + n <= Len(s) =>
                               f[p - 1 + n] = m \/ (n < m /\ f[p - 1 + n] = n)}
<1>1. m \in Nat \ {0} /\ \A k \in 1..m : Split[k] \in Range(Split)
  BY ConstantsAssumption, EmptySeq, ElementOfSeq DEF Range
<1>2. f[0] = 0 /\ \A j \in Nat : j+1 \in 1..Len(s) => f[j+1] = Matched(f[j], s[j+1])
  BY MatchesSteps
<1>3. p \in 1..Len(s) /\ p + m - 1 <= Len(s) BY DEF Stands
<1>4. 0 \in S
  <2>1. CASE p = 1
    <3>1. p - 1 + 0 = 0 BY <2>1
    <3> QED BY <1>1, <1>2, <3>1
  <2>2. CASE p # 1
    <3>1. s[p - 1] \notin Range(Split) BY <2>2 DEF Clean
    <3>2. PICK j \in Nat : j + 1 = p - 1 BY <1>3, <2>2
    <3>3. f[j+1] = Matched(f[j], s[j+1]) BY <1>2, <1>3, <3>2
    <3>4. f[j] \in 0..m BY <1>3, <3>2, MatchesSound
    <3>5. f[j] # m => s[j+1] # Split[f[j] + 1]
      <4>1. f[j] # m => f[j] + 1 \in 1..m BY <3>4, <1>1
      <4> QED BY <4>1, <3>1, <3>2, <1>1
    <3>6. f[p - 1] \in {0, m} BY <3>2, <3>3, <3>5 DEF Matched
    <3>7. p - 1 + 0 = p - 1 BY <1>3
    <3> QED BY <1>1, <3>6, <3>7
  <2> QED BY <2>1, <2>2
<1>5. ASSUME NEW n \in Nat, n \in S PROVE n+1 \in S
  <2> SUFFICES ASSUME p - 1 + (n+1) <= Len(s)
               PROVE  f[p - 1 + (n+1)] = m \/ (n+1 < m /\ f[p - 1 + (n+1)] = n+1)
    OBVIOUS
  <2>1. f[p - 1 + n] = m \/ (n < m /\ f[p - 1 + n] = n) BY <1>3, <1>5
  <2>2. PICK j \in Nat : j = p - 1 + n BY <1>3
  <2>3. j + 1 = p - 1 + (n+1) /\ j + 1 \in 1..Len(s) BY <1>3, <2>2
  <2>4. f[j+1] = Matched(f[j], s[j+1]) BY <1>2, <2>3
  <2>5. CASE f[j] = m BY <2>3, <2>4, <2>5 DEF Matched
  <2>6. CASE f[j] # m
    <3>1. n < m /\ f[j] = n BY <2>1, <2>2, <2>6
    <3>2. s[j+1] = Split[n+1]
      <4>1. n+1 \in 1..m BY <3>1, <1>1
      <4>2. p + (n+1) - 1 = j+1 BY <1>3, <2>2
      <4> QED BY <4>1, <4>2 DEF Stands
    <3>3. f[j+1] = n+1 BY <2>4, <2>6, <3>1, <3>2 DEF Matched
    <3> QED BY <2>3, <3>1, <3>3, <1>1
  <2> QED BY <2>5, <2>6
<1> HIDE DEF S
<1>6. \A n \in Nat : n \in S BY <1>4, <1>5, NatSet
<1>7. PICK n \in Nat : p - 1 + n = Len(s) /\ n >= m
  <2>1. Len(s) - (p - 1) \in Nat /\ Len(s) - (p - 1) >= m
        /\ p - 1 + (Len(s) - (p - 1)) = Len(s) BY <1>1, <1>3
  <2> QED BY <2>1
<1> QED BY <1>1, <1>6, <1>7 DEF S

\* splitFind finds the split only where it is, and always where it stands
\* in a clean place.
LEMMA SplitFound ==
  ASSUME NEW S, NEW s \in Seq(S)
  PROVE  LET at == {p \in 1..Len(s) : Occurs(Split, p, s)}
         IN  /\ SplitFind(s, Split) => at # {}
             /\ (\E p \in at : Clean(p, s)) => SplitFind(s, Split)
<1> DEFINE f == CHOOSE f : Matches(f, s)
<1>1. Len(s) \in Nat BY LenProperties
<1>2. SplitFind(s, Split) <=> Len(Split) <= Len(s) /\ f[Len(s)] = Len(Split)
  BY DEF SplitFind, Matches, Matched
<1>3. Matches(f, s) BY <1>1, MatchesExist
<1> HIDE DEF f
<1>4. SplitFind(s, Split) => \E p \in 1..Len(s) : Stands(p, s)
  BY <1>1, <1>2, <1>3, MatchesSound
<1>5. ASSUME NEW p \in 1..Len(s), Stands(p, s), Clean(p, s) PROVE SplitFind(s, Split)
  <2>1. f[Len(s)] = Len(Split) BY <1>1, <1>3, <1>5, MatchesComplete
  <2>2. Len(Split) <= Len(s)
    BY <1>1, <1>5, ConstantsAssumption, LenProperties DEF Stands
  <2> QED BY <1>2, <2>1, <2>2
<1> QED BY <1>4, <1>5, OccursStands

-----------------------------------------------------------------------------
(* When the read callback is called *)

\* What CalledWhenDue says, of the state after the step.
Timely ==
  io.got # <<>> =>
    IF aioFlag = "num" THEN pc = "callback" <=> Len(Held) >= readSplitN
    ELSE LET at == {p \in 1..Len(Held) : Occurs(Split, p, Held)}
         IN  /\ pc = "callback" => at # {}
             /\ (\E p \in at : Clean(p, Held)) => pc = "callback"

Same == split' = split

LEMMA RecvTimely == ASSUME IInv, NEW d \in Data, Recv(d) PROVE Timely' /\ Same
<1> USE ConstantsAssumption
<1>1. IInv' /\ Same BY RecvKeeps DEF Recv, Same
<1>2. nExist \in 0..MaxBuffer - Len(d) /\ nExist' = nExist + Len(d) /\ Len(d) \in Nat \ {0}
  BY DataLen DEF Recv
<1>3. Held' \in Seq(Any) /\ Len(Held') = nExist' 
  <2>1. sock' \in Array /\ nExist' \in 0..MaxBuffer
    BY <1>1, <1>2 DEF IInv, TypeOK, Array, Any
  <2> QED BY <2>1, Front DEF Held
<1>4. pc' = "callback" <=> Due(sock', nExist') BY DEF Recv, Dispatch
<1>5. CASE aioFlag = "num"
  BY <1>1, <1>3, <1>4, <1>5 DEF Timely, Due, Same, split
<1>6. CASE aioFlag # "num"
  <2>1. readSplitN = Len(Split) /\ aioFlag' # "num"
    BY <1>1, <1>6 DEF IInv, TypeOK, Counts, Same, split
  <2>2. SubSeq(Split, 1, readSplitN) = Split BY <2>1, Whole
  <2>3. pc' = "callback" <=> SplitFind(Held', Split)
    BY <1>4, <1>6, <2>2 DEF Due, Held
  <2> DEFINE h == Held'
  <2>4. LET at == {p \in 1..Len(h) : Occurs(Split, p, h)}
        IN  /\ SplitFind(h, Split) => at # {}
            /\ (\E p \in at : Clean(p, h)) => SplitFind(h, Split)
    <3> HIDE DEF h
    <3>1. h \in Seq(Any) BY <1>3 DEF h
    <3> QED BY <3>1, SplitFound
  <2> QED BY <2>1, <2>3, <2>4, <1>1 DEF Timely
<1> QED BY <1>5, <1>6, <1>1

LEMMA TimelyStep == IInv /\ Timely /\ [Next]_vars => Timely' /\ (io'.got # <<>> => Same)
<1> SUFFICES ASSUME IInv, Timely, [Next]_vars PROVE Timely' /\ (io'.got # <<>> => Same)
  OBVIOUS
<1>1. ASSUME io'.got = <<>> PROVE Timely' /\ (io'.got # <<>> => Same)
  BY <1>1 DEF Timely
<1>2. ASSUME UNCHANGED <<read, split, pc, io>> PROVE Timely' /\ (io'.got # <<>> => Same)
  BY <1>2 DEF Timely, Held, Same, read, split
<1>3. CASE RecvFull \/ RecvFails \/ FlushFails \/ Report \/ ErrCallback \/ DisBuffer
  BY <1>3, <1>1 DEF RecvFull, RecvFails, FlushFails, Report, ErrCallback, DisBuffer, Free, NoIO
<1>4. CASE \E d \in Data : Recv(d) BY <1>4, RecvTimely
<1>5. CASE RecvOutside BY <1>5, <1>2 DEF RecvOutside
<1>6. CASE Write
  <2>1. ASSUME NEW d \in Data, WriteWaits(d) PROVE io'.got = <<>>
    BY <2>1 DEF WriteWaits, NoIO
  <2>2. ASSUME NEW d \in Data, WriteOutside(d) PROVE UNCHANGED <<read, split, pc, io>>
    BY <2>2 DEF WriteOutside
  <2>3. ASSUME NEW d \in Data, NEW k \in 1..Len(d), WriteSent(d, k) PROVE io'.got = <<>>
    BY <2>3 DEF WriteSent, NoIO
  <2>4. ASSUME WriteFails PROVE io'.got = <<>> BY <2>4 DEF WriteFails, NoIO
  <2> QED BY <1>6, <1>1, <1>2, <2>1, <2>2, <2>3, <2>4 DEF Write
<1>7. CASE Returns BY <1>7, <1>1 DEF Returns, CallbackReturn, NoIO
<1>8. CASE Flushes BY <1>8, <1>1 DEF Flushes, Flush, NoIO
<1>9. CASE \E s \in {"listen", "close", "error"} : RecvNothing(s)
  BY <1>9, <1>1 DEF RecvNothing, NoIO
<1>10. CASE \E n \in Cells : Continue(n) BY <1>10, <1>1 DEF Continue, NoIO
<1>11. CASE Rearms BY <1>11, <1>1 DEF Rearms, Rearm, NoIO
<1>12. CASE \E r \in Registrations, left \in {0, nWBufExist} : CreateBuffer(r[1], r[2], left)
  BY <1>12, <1>1 DEF CreateBuffer, NoIO
<1>13. CASE UNCHANGED vars BY <1>13, <1>2 DEF vars
<1> QED
  BY <1>3, <1>4, <1>5, <1>6, <1>7, <1>8, <1>9, <1>10, <1>11, <1>12, <1>13 DEF Next, Input

\* Input calls the read callback when it is due: for a number exactly then,
\* for a split only when it is there, and always when no byte of it stands in
\* front of it.
THEOREM CallsWhenDue == Spec => CalledWhenDue
<1>1. Init => Timely BY DEF Init, Timely, NoIO
<1>2. IInv /\ Timely /\ [Next]_vars => Timely' BY TimelyStep
<1>3. IInv /\ Timely /\ [Next]_vars =>
        [io'.got # <<>> =>
           IF aioFlag = "num" THEN pc' = "callback" <=> Len(Held') >= readSplitN
           ELSE LET at == {p \in 1..Len(Held') : Occurs(Split, p, Held')}
                IN  /\ pc' = "callback" => at # {}
                    /\ (\E p \in at : Clean(p, Held')) => pc' = "callback"]_vars
  BY TimelyStep DEF Timely, Same, split
<1> QED BY <1>1, <1>2, <1>3, Invariant, PTL DEF Spec, CalledWhenDue
=============================================================================
