------------------------------ MODULE LogProofs ------------------------------
(***************************************************************************)
(* What holds of the log for any number of threads, handlers, levels and   *)
(* calls: the parts of a message come out in order on one stream, the      *)
(* unlocked first use does bounded harm, and what INIT_LOG has redirected  *)
(* stays redirected.                                                       *)
(*                                                                         *)
(* The argument for the first use.  A thread makes the handler for         *)
(* /dev/stderr, or loses a message, only when it has found GLOGHANDLER     *)
(* NULL; when it has, it has spent less than GLOGHANDLER has been NULL     *)
(* times (CountInv), and what it spends sets GLOGHANDLER or finds it set.  *)
(***************************************************************************)
EXTENDS Log, FiniteSetTheorems, TLAPS

ControlPoints == {"idle", "test", "create", "assign", "data", "header", "text", "newline"}

HandlerState == [maker : Threads \cup {NULL}, fpath : Paths, level : Levels]
CallState == [kind : Kinds, level : Levels, log : Handlers \cup {NULL}]

Path(kind) == IF kind \in InitKinds THEN "given" ELSE "stderr"

TypeInv ==
  /\ GLOGHANDLER \in Handlers \cup {NULL}
  /\ made \in [Handlers -> HandlerState]
  /\ out \in [Handlers -> Seq(Threads \X Nat \X DOMAIN After)]
  /\ pc \in [Threads -> ControlPoints]
  /\ call \in [Threads -> CallState]
  /\ calls \in [Threads -> Nat]
  /\ lost \subseteq Threads \X Nat
  /\ alive \in BOOLEAN /\ nulled \in Nat /\ redirected \in BOOLEAN
  /\ \A t \in Threads : pc[t] \in DOMAIN After => call[t].log # NULL

-----------------------------------------------------------------------------
(* What each action changes, pointwise. *)

LEMMA CallEffect ==
  ASSUME TypeInv, NEW t \in Threads, NEW kind \in Kinds, NEW level \in Levels,
         Call(t, kind, level)
  PROVE  /\ pc[t] = "idle" /\ pc'[t] = IF kind \in InitKinds THEN "create" ELSE "test"
         /\ call'[t] \in CallState /\ call'[t].log = GLOGHANDLER /\ call'[t].kind = kind
         /\ calls'[t] = calls[t] + 1
         /\ \A u \in Threads \ {t} : pc'[u] = pc[u] /\ call'[u] = call[u] /\ calls'[u] = calls[u]
         /\ TypeInv'
<1> USE DEF TypeInv, Call, At, Goto
<1>1. [kind |-> kind, level |-> level, log |-> GLOGHANDLER] \in CallState
  BY DEF CallState
<1>2. call'[t] = [kind |-> kind, level |-> level, log |-> GLOGHANDLER]
  OBVIOUS
<1>3. /\ pc[t] = "idle" /\ pc'[t] = IF kind \in InitKinds THEN "create" ELSE "test"
      /\ calls'[t] = calls[t] + 1
      /\ \A u \in Threads \ {t} : pc'[u] = pc[u] /\ call'[u] = call[u] /\ calls'[u] = calls[u]
  OBVIOUS
<1>4. call'[t] \in CallState /\ call'[t].log = GLOGHANDLER /\ call'[t].kind = kind
  BY <1>1, <1>2
<1>5. call' \in [Threads -> CallState] /\ pc' \in [Threads -> ControlPoints] /\ calls' \in [Threads -> Nat]
  BY <1>1 DEF ControlPoints
<1>6. \A u \in Threads : pc'[u] \in DOMAIN After => call'[u].log # NULL
  BY <1>3 DEF After
<1> QED BY <1>3, <1>4, <1>5, <1>6

LEMMA TestEffect ==
  ASSUME TypeInv, NEW t \in Threads, Test(t)
  PROVE  /\ pc[t] = "test" /\ pc'[t] \in {"create", "idle", "data", "header"}
         /\ pc'[t] = "create" <=> call[t].log = NULL /\ GLOGHANDLER = NULL
         /\ call[t].log = NULL /\ pc'[t] # "create" => pc'[t] = "idle"
         /\ lost' = IF call[t].log = NULL /\ pc'[t] # "create"
                    THEN lost \cup {<<t, calls[t]>>} ELSE lost
         /\ \A u \in Threads \ {t} : pc'[u] = pc[u]
         /\ TypeInv'
<1> USE DEF TypeInv, Test, At, Goto
<1>1. Proceed(t, call[t].log) \in {"idle", "data", "header"}
      /\ (call[t].log = NULL => Proceed(t, call[t].log) = "idle")
  BY DEF Proceed
<1>2. /\ pc[t] = "test" /\ pc'[t] \in {"create", "idle", "data", "header"}
      /\ pc'[t] = "create" <=> call[t].log = NULL /\ GLOGHANDLER = NULL
      /\ call[t].log = NULL /\ pc'[t] # "create" => pc'[t] = "idle"
      /\ \A u \in Threads \ {t} : pc'[u] = pc[u]
  BY <1>1
<1>3. lost' = IF call[t].log = NULL /\ pc'[t] # "create"
              THEN lost \cup {<<t, calls[t]>>} ELSE lost
  BY <1>1 DEF Message
<1>4. lost' \subseteq Threads \X Nat BY <1>3
<1>5. pc' \in [Threads -> ControlPoints] BY <1>2 DEF ControlPoints
<1>6. \A u \in Threads : pc'[u] \in DOMAIN After => call'[u].log # NULL
  BY <1>2 DEF After
<1> QED BY <1>2, <1>3, <1>4, <1>5, <1>6

LEMMA CreateEffect ==
  ASSUME TypeInv, NEW t \in Threads, NEW h \in Handlers, Create(t, h)
  PROVE  /\ pc[t] = "create" /\ pc'[t] = "assign"
         /\ made[h].maker = NULL
         /\ made'[h].maker = t
         /\ made'[h].fpath = Path(call[t].kind)
         /\ \A g \in Handlers \ {h} : made'[g] = made[g]
         /\ call'[t].log = h /\ call'[t].kind = call[t].kind
         /\ \A u \in Threads \ {t} : pc'[u] = pc[u] /\ call'[u] = call[u]
         /\ TypeInv'
<1> USE DEF TypeInv
<1> DEFINE kind == call[t].kind
           new == [maker |-> t,
                   fpath |-> IF kind = "init" THEN "given" ELSE "stderr",
                   level |-> IF kind = "init" THEN call[t].level
                             ELSE IF kind = "raw" THEN log_info ELSE log_debug]
           ct == [call[t] EXCEPT !.log = h]
<1>1. new \in HandlerState /\ ct \in CallState /\ ct.log = h /\ ct.kind = kind
  BY ConstantsAssumption DEF HandlerState, CallState, Paths
<1>2. made' = [made EXCEPT ![h] = new] /\ call' = [call EXCEPT ![t] = ct]
      /\ pc[t] = "create" /\ pc' = [pc EXCEPT ![t] = "assign"] /\ made[h].maker = NULL
      /\ kind # "clear"
      /\ UNCHANGED <<GLOGHANDLER, out, calls, lost, alive, nulled, redirected, racing>>
  BY DEF Create, At, Goto
<1>3. new.maker = t /\ new.fpath = Path(kind)
  BY <1>2 DEF Path, InitKinds
<1> HIDE DEF new, ct
<1>4. made' \in [Handlers -> HandlerState] /\ call' \in [Threads -> CallState]
      /\ made'[h] = new /\ call'[t] = ct
  BY <1>1, <1>2
<1>5. \A g \in Handlers \ {h} : made'[g] = made[g] BY <1>2
<1>6. /\ \A u \in Threads \ {t} : pc'[u] = pc[u] /\ call'[u] = call[u]
      /\ pc[t] = "create" /\ pc'[t] = "assign" /\ made[h].maker = NULL
  BY <1>2
<1>7. pc' \in [Threads -> ControlPoints] BY <1>2 DEF ControlPoints
<1>8. \A u \in Threads : pc'[u] \in DOMAIN After => call'[u].log # NULL
  BY <1>6 DEF After
<1> QED BY <1>1, <1>2, <1>3, <1>4, <1>5, <1>6, <1>7, <1>8

LEMMA CreateNothingEffect ==
  ASSUME TypeInv, NEW t \in Threads, CreateNothing(t)
  PROVE  /\ pc[t] = "create" /\ pc'[t] = "assign"
         /\ call'[t].log = NULL /\ call'[t].kind = call[t].kind
         /\ \A u \in Threads \ {t} : pc'[u] = pc[u] /\ call'[u] = call[u]
         /\ TypeInv'
<1> USE DEF TypeInv, CreateNothing, At, Goto
<1> DEFINE ct == [call[t] EXCEPT !.log = NULL]
<1>1. ct \in CallState /\ ct.log = NULL /\ ct.kind = call[t].kind BY DEF CallState
<1>2. call' = [call EXCEPT ![t] = ct] OBVIOUS
<1> HIDE DEF ct
<1>3. /\ call' \in [Threads -> CallState] /\ call'[t] = ct
      /\ \A u \in Threads \ {t} : call'[u] = call[u]
  BY <1>1, <1>2
<1>4. /\ pc[t] = "create" /\ pc'[t] = "assign"
      /\ \A u \in Threads \ {t} : pc'[u] = pc[u]
  OBVIOUS
<1>5. pc' \in [Threads -> ControlPoints] BY DEF ControlPoints
<1>6. \A u \in Threads : pc'[u] \in DOMAIN After => call'[u].log # NULL
  BY <1>3, <1>4 DEF After
<1> QED BY <1>1, <1>3, <1>4, <1>5, <1>6

LEMMA AssignEffect ==
  ASSUME TypeInv, NEW t \in Threads, Assign(t)
  PROVE  LET h == call[t].log
             init == call[t].kind \in InitKinds
         IN  /\ pc[t] = "assign" /\ pc'[t] \in {"idle", "data", "header"}
             /\ GLOGHANDLER' = h
             /\ lost' = IF h = NULL /\ ~init THEN lost \cup {<<t, calls[t]>>} ELSE lost
             /\ nulled' = IF h = NULL THEN nulled + 1 ELSE nulled
             /\ redirected' = (h # NULL /\ (redirected \/ init))
             /\ racing' = IF h # NULL /\ init THEN Creating ELSE racing
             /\ \A u \in Threads \ {t} : pc'[u] = pc[u]
             /\ TypeInv'
<1> USE DEF TypeInv, Assign, At, Goto, Count
<1> DEFINE h == call[t].log
           init == call[t].kind \in InitKinds
<1>1. Proceed(t, h) \in {"idle", "data", "header"} /\ (h = NULL => Proceed(t, h) = "idle")
  BY DEF Proceed
<1>2. /\ pc[t] = "assign" /\ pc'[t] \in {"idle", "data", "header"}
      /\ h = NULL => pc'[t] = "idle"
      /\ \A u \in Threads \ {t} : pc'[u] = pc[u]
      /\ GLOGHANDLER' = h
      /\ nulled' = IF h = NULL THEN nulled + 1 ELSE nulled
      /\ redirected' = (h # NULL /\ (redirected \/ init))
      /\ racing' = IF h # NULL /\ init THEN Creating ELSE racing
  BY <1>1
<1>3. lost' = IF h = NULL /\ ~init THEN lost \cup {<<t, calls[t]>>} ELSE lost
  BY DEF Message
<1>4. lost' \subseteq Threads \X Nat BY <1>3
<1>5. pc' \in [Threads -> ControlPoints] BY <1>2 DEF ControlPoints
<1>6. \A u \in Threads : pc'[u] \in DOMAIN After => call'[u].log # NULL
  BY <1>2 DEF After
<1>7. GLOGHANDLER' \in Handlers \cup {NULL} BY DEF CallState
<1>8. nulled' \in Nat BY <1>2
<1>9. redirected' \in BOOLEAN
  <2> DEFINE p == h # NULL /\ (redirected \/ init)
  <2>1. p \in BOOLEAN OBVIOUS
  <2>2. redirected' = p BY <1>2
  <2> HIDE DEF p
  <2> QED BY <2>1, <2>2
<1> QED BY <1>2, <1>3, <1>4, <1>5, <1>6, <1>7, <1>8, <1>9

LEMMA WriteEffect ==
  ASSUME TypeInv, NEW t \in Threads, WritePart(t)
  PROVE  /\ pc[t] \in DOMAIN After /\ pc'[t] = After[pc[t]]
         /\ call[t].log \in Handlers
         /\ out'[call[t].log] = Append(out[call[t].log], <<t, calls[t], pc[t]>>)
         /\ \A h \in Handlers \ {call[t].log} : out'[h] = out[h]
         /\ \A u \in Threads \ {t} : pc'[u] = pc[u]
         /\ TypeInv'
<1> USE DEF TypeInv, WritePart, Goto
<1>1. call[t].log \in Handlers /\ <<t, calls[t], pc[t]>> \in Threads \X Nat \X DOMAIN After
  BY DEF CallState
<1>2. /\ pc[t] \in DOMAIN After /\ pc'[t] = After[pc[t]]
      /\ \A u \in Threads \ {t} : pc'[u] = pc[u]
  OBVIOUS
<1>3. /\ out'[call[t].log] = Append(out[call[t].log], <<t, calls[t], pc[t]>>)
      /\ \A h \in Handlers \ {call[t].log} : out'[h] = out[h]
      /\ out' \in [Handlers -> Seq(Threads \X Nat \X DOMAIN After)]
  BY <1>1
<1>4. After[pc[t]] \in ControlPoints BY <1>2 DEF After, ControlPoints
<1>5. pc' \in [Threads -> ControlPoints] BY <1>4
<1>6. \A u \in Threads : pc'[u] \in DOMAIN After => call'[u].log # NULL
  BY <1>1, <1>2, ConstantsAssumption
<1> QED BY <1>1, <1>2, <1>3, <1>5, <1>6

LEMMA TypeInit == Init => TypeInv
<1> SUFFICES ASSUME Init PROVE TypeInv OBVIOUS
<1>1. None \in HandlerState /\ [kind |-> "fmt", level |-> log_debug, log |-> NULL] \in CallState
  BY ConstantsAssumption DEF None, HandlerState, CallState, Paths, Kinds
<1>2. <<>> \in Seq(Threads \X Nat \X DOMAIN After) OBVIOUS
<1> QED BY <1>1, <1>2 DEF Init, TypeInv, ControlPoints, After

LEMMA TypeStep == TypeInv /\ [Next]_vars => TypeInv'
<1> SUFFICES ASSUME TypeInv, [Next]_vars PROVE TypeInv'
  OBVIOUS
<1>1. ASSUME NEW t \in Threads, CreateAborts(t) PROVE TypeInv'
  BY <1>1 DEF TypeInv, CreateAborts
<1>2. CASE UNCHANGED vars BY <1>2 DEF TypeInv, vars
<1>3. \A t \in Threads : CreateNothing(t) => TypeInv' BY CreateNothingEffect
<1>6. \A t \in Threads : Assign(t) => TypeInv' BY AssignEffect
<1>7. \A t \in Threads : WritePart(t) => TypeInv' BY WriteEffect
<1>8. \A t \in Threads : Test(t) => TypeInv' BY TestEffect
<1>4. \A t \in Threads, kind \in Kinds, level \in Levels : Call(t, kind, level) => TypeInv'
  BY CallEffect
<1>5. \A t \in Threads, h \in Handlers : Create(t, h) => TypeInv'
  BY CreateEffect
<1> QED
  BY <1>1, <1>2, <1>3, <1>4, <1>5, <1>6, <1>7, <1>8 DEF Next

\* Every variable keeps its type, and a thread that prints has a handler.
THEOREM TypeCorrect == Spec => []TypeInv
  BY TypeInit, TypeStep, PTL DEF Spec

-----------------------------------------------------------------------------
(* First use and redirection *)

\* h is created and not yet in GLOGHANDLER.
Holding(h) == pc[made[h].maker] = "assign" /\ call[made[h].maker].log = h

HasMade(t) == \E h \in Handlers : made[h].maker = t

\* A handler in GLOGHANDLER has been made, and one about to be stored there
\* was made by its thread for the call it is in.
HandlersInv ==
  /\ GLOGHANDLER # NULL => made[GLOGHANDLER].maker # NULL
  /\ \A t \in Threads :
       pc[t] = "assign" /\ call[t].log # NULL =>
         made[call[t].log].maker = t /\ made[call[t].log].fpath = Path(call[t].kind)

\* As long as GLOGHANDLER has not been set to NULL: who has made a handler
\* holds it or has set GLOGHANDLER; who is about to lose a message has made
\* none.
FirstInv ==
  nulled = 0 =>
    /\ \A h \in Handlers : made[h].maker # NULL => GLOGHANDLER # NULL \/ Holding(h)
    /\ lost # {} => GLOGHANDLER # NULL
    /\ \A t \in Threads : pc[t] = "test" /\ call[t].log = NULL => ~HasMade(t)
    /\ \A m \in lost : \E h \in Handlers : made[h].maker \notin {NULL, m[1]}

\* After a redirection only those who were at it already create the handler
\* for /dev/stderr.
RedirectInv == RedirectionKept /\ (redirected => Creating \subseteq racing)

\* The calls that go on without INIT_LOG: t holds a handler for /dev/stderr,
\* or may still make one or lose its message.
Default(t) == call[t].kind \notin InitKinds
HoldsDefault(t) == pc[t] = "assign" /\ Default(t) /\ call[t].log # NULL
Open(t) ==
  /\ pc[t] = "test" \/ (pc[t] \in {"create", "assign"} /\ Default(t))
  /\ call[t].log = NULL

Spent(t) == Cardinality(Defaults(t)) + Cardinality(Losses(t))

\* Who may still spend a handler or a message has one less behind it than
\* GLOGHANDLER has been NULL.
CountOk(t) ==
  /\ IsFiniteSet(Defaults(t)) /\ IsFiniteSet(Losses(t))
  /\ Spent(t) <= nulled + 1
  /\ GLOGHANDLER = NULL /\ ~HoldsDefault(t) => Spent(t) <= nulled
  /\ Open(t) => Spent(t) <= nulled
  /\ pc[t] = "create" /\ Default(t) => call[t].log = NULL

CountInv == \A t \in Threads : CountOk(t)

LEMMA FirstInit == Init => HandlersInv /\ FirstInv /\ RedirectInv /\ CountInv
<1> SUFFICES ASSUME Init PROVE HandlersInv /\ FirstInv /\ RedirectInv /\ CountInv OBVIOUS
<1>1. \A h \in Handlers : made[h].maker = NULL BY DEF Init, None
<1>2. \A t \in Threads : pc[t] = "idle" BY DEF Init
<1>3. GLOGHANDLER = NULL /\ lost = {} /\ nulled = 0 /\ redirected = FALSE BY DEF Init
<1>4. HandlersInv /\ FirstInv /\ RedirectInv
  BY <1>1, <1>2, <1>3 DEF HandlersInv, FirstInv, RedirectInv, RedirectionKept
<1>5. ASSUME NEW t \in Threads PROVE CountOk(t)
  <2>1. Defaults(t) = {} /\ Losses(t) = {}
    BY <1>1, <1>3, ConstantsAssumption DEF Defaults, Losses
  <2>2. Spent(t) = 0 BY <2>1, FS_EmptySet DEF Spent
  <2> QED BY <1>2, <1>3, <2>1, <2>2, FS_EmptySet DEF CountOk, Open
<1> QED BY <1>4, <1>5 DEF CountInv

\* Who has spent nothing in a step has still spent no more than he may.
LEMMA CountSame ==
  ASSUME TypeInv, TypeInv', NEW u \in Threads, CountOk(u),
         Defaults(u)' = Defaults(u), Losses(u)' = Losses(u),
         nulled' \in {nulled, nulled + 1},
         GLOGHANDLER' = NULL => nulled' = nulled + 1 \/ (GLOGHANDLER = NULL /\ ~HoldsDefault(u)),
         Open(u)' => Open(u) \/ nulled' = nulled + 1 \/ (GLOGHANDLER = NULL /\ ~HoldsDefault(u)),
         pc'[u] = "create" /\ Default(u)' => call'[u].log = NULL
  PROVE  CountOk(u)'
<1>1. Spent(u)' = Spent(u) BY DEF Spent
<1>2. Spent(u) \in Nat BY FS_CardinalityType DEF Spent, CountOk
<1>3. nulled \in Nat BY DEF TypeInv
<1> QED BY <1>1, <1>2, <1>3 DEF CountOk

\* The threads that take no part in a step.
LEMMA CountOther ==
  ASSUME TypeInv, TypeInv', NEW u \in Threads, CountOk(u),
         Defaults(u)' = Defaults(u), Losses(u)' = Losses(u),
         nulled' \in {nulled, nulled + 1},
         GLOGHANDLER' = NULL => nulled' = nulled + 1 \/ GLOGHANDLER = NULL,
         pc'[u] = pc[u], call'[u] = call[u]
  PROVE  CountOk(u)'
<1>1. /\ (HoldsDefault(u)' <=> HoldsDefault(u)) /\ (Open(u)' <=> Open(u))
      /\ (Default(u)' <=> Default(u))
  BY DEF HoldsDefault, Open, Default
<1>2. Spent(u)' = Spent(u) BY DEF Spent
<1>3. Spent(u) \in Nat BY FS_CardinalityType DEF Spent, CountOk
<1>4. nulled \in Nat BY DEF TypeInv
<1> QED BY <1>1, <1>2, <1>3, <1>4 DEF CountOk

LEMMA FirstCall ==
  ASSUME TypeInv, HandlersInv, FirstInv, RedirectInv, CountInv,
         NEW t \in Threads, NEW kind \in Kinds, NEW level \in Levels, Call(t, kind, level)
  PROVE  HandlersInv' /\ FirstInv' /\ RedirectInv' /\ CountInv'
<1>1. UNCHANGED <<GLOGHANDLER, made, lost, nulled, redirected, racing>> BY DEF Call
<1>2. /\ pc[t] = "idle" /\ pc'[t] = IF kind \in InitKinds THEN "create" ELSE "test"
      /\ call'[t].log = GLOGHANDLER /\ call'[t].kind = kind
      /\ \A u \in Threads \ {t} : pc'[u] = pc[u] /\ call'[u] = call[u]
      /\ TypeInv'
  BY CallEffect
<1>3. \A h \in Handlers : made[h].maker \in Threads => (Holding(h) <=> Holding(h)')
  BY <1>1, <1>2 DEF Holding
<1>4. \A h \in Handlers : made[h].maker \in Threads \cup {NULL}
  BY DEF TypeInv, HandlerState
<1>5. HasMade(t) /\ nulled = 0 => GLOGHANDLER # NULL
  BY <1>2, ConstantsAssumption DEF HasMade, Holding, FirstInv
<1>6. HandlersInv' BY <1>1, <1>2 DEF HandlersInv
<1>7. Creating' = Creating BY <1>2 DEF Creating
<1>8. \A u \in Threads : HasMade(u) <=> HasMade(u)' BY <1>1 DEF HasMade
<1>9. FirstInv'
  BY <1>1, <1>2, <1>3, <1>4, <1>5, <1>8 DEF FirstInv
<1>10. RedirectInv' BY <1>1, <1>7 DEF RedirectInv, RedirectionKept
<1>11. ASSUME NEW u \in Threads PROVE CountOk(u)'
  <2>1. Defaults(u)' = Defaults(u) /\ Losses(u)' = Losses(u)
    BY <1>1 DEF Defaults, Losses
  <2>2. CountOk(u) BY DEF CountInv
  <2>3. CASE u = t
    <3>1. ~HoldsDefault(t) BY <1>2 DEF HoldsDefault
    <3>2. Open(t)' => GLOGHANDLER = NULL BY <1>2 DEF Open
    <3>3. ~(pc'[t] = "create" /\ Default(t)') BY <1>2 DEF Default
    <3> QED BY <1>1, <1>2, <2>1, <2>2, <2>3, <3>1, <3>2, <3>3, CountSame
  <2>4. CASE u # t BY <1>1, <1>2, <2>1, <2>2, <2>4, CountOther
  <2> QED BY <2>3, <2>4
<1> QED BY <1>6, <1>9, <1>10, <1>11 DEF CountInv

LEMMA FirstTest ==
  ASSUME TypeInv, HandlersInv, FirstInv, RedirectInv, CountInv, NEW t \in Threads, Test(t)
  PROVE  HandlersInv' /\ FirstInv' /\ RedirectInv' /\ CountInv'
<1>1. UNCHANGED <<GLOGHANDLER, made, call, calls, nulled, redirected, racing>> BY DEF Test
<1>2. /\ pc[t] = "test" /\ pc'[t] \in {"create", "idle", "data", "header"}
      /\ pc'[t] = "create" <=> call[t].log = NULL /\ GLOGHANDLER = NULL
      /\ \A u \in Threads \ {t} : pc'[u] = pc[u]
      /\ TypeInv'
  BY TestEffect
<1>3. lost' = IF call[t].log = NULL /\ pc'[t] # "create"
              THEN lost \cup {<<t, calls[t]>>} ELSE lost
  BY TestEffect
<1>4. \A h \in Handlers : made[h].maker \in Threads \cup {NULL}
  BY DEF TypeInv, HandlerState
<1>5. \A h \in Handlers : made[h].maker \in Threads => (Holding(h) <=> Holding(h)')
  BY <1>1, <1>2 DEF Holding
<1>6. nulled = 0 => ~HasMade(t) \/ call[t].log # NULL BY <1>2 DEF FirstInv
<1>7. lost' # lost => call[t].log = NULL /\ GLOGHANDLER # NULL BY <1>2, <1>3
<1>8. FirstInv'
  <2> SUFFICES ASSUME nulled = 0 PROVE FirstInv' BY <1>1 DEF FirstInv
  <2>1. lost' # {} => GLOGHANDLER # NULL BY <1>7 DEF FirstInv
  <2>2. \A u \in Threads : HasMade(u) <=> HasMade(u)' BY <1>1 DEF HasMade
  <2>3. \A m \in lost' : \E h \in Handlers : made[h].maker \notin {NULL, m[1]}
    <3> SUFFICES ASSUME NEW m \in lost', m \notin lost
                 PROVE  \E h \in Handlers : made[h].maker \notin {NULL, m[1]}
      BY DEF FirstInv
    <3>1. m[1] = t /\ call[t].log = NULL /\ GLOGHANDLER # NULL BY <1>3, <1>7
    <3>2. GLOGHANDLER \in Handlers /\ made[GLOGHANDLER].maker # NULL
      BY <3>1, ConstantsAssumption DEF HandlersInv, TypeInv
    <3>3. made[GLOGHANDLER].maker # t BY <1>6, <3>1, <3>2 DEF HasMade
    <3> QED BY <3>1, <3>2, <3>3
  <2>4. \A u \in Threads : pc'[u] = "test" /\ call[u].log = NULL => ~HasMade(u)
    BY <1>2 DEF FirstInv
  <2> QED BY <1>1, <1>4, <1>5, <2>1, <2>2, <2>3, <2>4 DEF FirstInv
<1>9. RedirectInv'
  <2>1. GLOGHANDLER # NULL => Creating' = Creating BY <1>1, <1>2 DEF Creating
  <2> QED BY <1>1, <2>1 DEF RedirectInv, RedirectionKept
<1>10. HandlersInv' BY <1>1, <1>2 DEF HandlersInv
<1>11. ASSUME NEW u \in Threads PROVE CountOk(u)'
  <2>1. Defaults(u)' = Defaults(u) BY <1>1 DEF Defaults
  <2>2. CountOk(u) BY DEF CountInv
  <2>3. CASE u # t
    <3>1. Losses(u)' = Losses(u) BY <1>3, <2>3 DEF Losses
    <3> QED BY <1>1, <1>2, <2>1, <2>2, <2>3, <3>1, CountOther
  <2>4. CASE u = t /\ lost' = lost
    <3>1. Losses(t)' = Losses(t) BY <2>4 DEF Losses
    <3>2. ~HoldsDefault(t) BY <1>2 DEF HoldsDefault
    <3>3. /\ Open(t)' => Open(t)
          /\ pc'[t] = "create" /\ Default(t)' => call'[t].log = NULL
      BY <1>1, <1>2 DEF Open, Default
    <3> QED BY <1>1, <1>2, <2>1, <2>2, <2>4, <3>1, <3>2, <3>3, CountSame
  <2>5. CASE u = t /\ lost' # lost
    <3>1. /\ call[t].log = NULL /\ GLOGHANDLER # NULL /\ pc'[t] = "idle"
          /\ lost' = lost \cup {<<t, calls[t]>>}
      BY <1>2, <1>3, <1>7, <2>5, TestEffect
    <3> DEFINE m == <<t, calls[t]>>
    <3>2. m \notin lost BY <2>5, <3>1
    <3>3. Losses(t)' = Losses(t) \cup {m} /\ m \notin Losses(t)
      BY <3>1, <3>2 DEF Losses
    <3>5. Open(t) BY <1>2, <3>1 DEF Open
    <3> HIDE DEF m
    <3>6. IsFiniteSet(Losses(t)') /\ Cardinality(Losses(t)') = Cardinality(Losses(t)) + 1
      BY <2>2, <2>5, <3>3, FS_AddElement DEF CountOk
    <3>7. Spent(t)' = Spent(t) + 1 /\ Spent(t) \in Nat
      BY <2>1, <2>2, <2>5, <3>6, FS_CardinalityType DEF Spent, CountOk
    <3>8. ~Open(t)' /\ nulled \in Nat BY <3>1 DEF Open, TypeInv
    <3> QED BY <1>1, <2>1, <2>2, <2>5, <3>1, <3>5, <3>6, <3>7, <3>8 DEF CountOk
  <2> QED BY <2>3, <2>4, <2>5
<1> QED BY <1>8, <1>9, <1>10, <1>11 DEF CountInv

LEMMA FirstCreate ==
  ASSUME TypeInv, HandlersInv, FirstInv, RedirectInv, CountInv,
         NEW t \in Threads, NEW h \in Handlers, Create(t, h)
  PROVE  HandlersInv' /\ FirstInv' /\ RedirectInv' /\ CountInv'
<1>1. UNCHANGED <<GLOGHANDLER, lost, nulled, redirected, racing>> BY DEF Create
<1>2. /\ pc[t] = "create" /\ pc'[t] = "assign"
      /\ made[h].maker = NULL /\ made'[h].maker = t
      /\ made'[h].fpath = Path(call[t].kind)
      /\ \A g \in Handlers \ {h} : made'[g] = made[g]
      /\ call'[t].log = h /\ call'[t].kind = call[t].kind
      /\ \A u \in Threads \ {t} : pc'[u] = pc[u] /\ call'[u] = call[u]
      /\ TypeInv'
  BY CreateEffect
<1>3. \A g \in Handlers : made[g].maker \in Threads \cup {NULL}
  BY DEF TypeInv, HandlerState
<1>4. \A g \in Handlers \ {h} : made[g].maker # NULL => (Holding(g)' <=> Holding(g))
  BY <1>2, <1>3 DEF Holding
<1>5. Holding(h)' BY <1>2 DEF Holding
<1>6. t # NULL /\ h # NULL BY ConstantsAssumption
<1>7. HandlersInv'
  <2>1. GLOGHANDLER # NULL => made'[GLOGHANDLER].maker # NULL
    BY <1>2, <1>6 DEF HandlersInv, TypeInv
  <2>2. ASSUME NEW u \in Threads, u # t, pc[u] = "assign", call[u].log # NULL
        PROVE  made'[call[u].log].maker = u /\ made'[call[u].log].fpath = Path(call[u].kind)
    <3>1. /\ call[u].log \in Handlers /\ made[call[u].log].maker = u
          /\ made[call[u].log].fpath = Path(call[u].kind)
      BY <2>2 DEF HandlersInv, TypeInv, CallState
    <3> QED BY <1>2, <3>1, ConstantsAssumption
  <2> QED BY <1>1, <1>2, <2>1, <2>2 DEF HandlersInv
<1>8. FirstInv'
  <2> SUFFICES ASSUME nulled = 0 PROVE FirstInv' BY <1>1 DEF FirstInv
  <2>1. \A u \in Threads : u # t => (HasMade(u)' <=> HasMade(u))
    BY <1>1, <1>2, <1>3, ConstantsAssumption DEF HasMade
  <2>2. \A g \in Handlers : made'[g].maker # NULL => GLOGHANDLER # NULL \/ Holding(g)'
    BY <1>2, <1>4, <1>5 DEF FirstInv
  <2>3. \A m \in lost : \E g \in Handlers : made'[g].maker \notin {NULL, m[1]}
    BY <1>2 DEF FirstInv
  <2> QED BY <1>1, <1>2, <2>1, <2>2, <2>3 DEF FirstInv
<1>9. RedirectInv'
  <2>1. Creating' = Creating BY <1>2 DEF Creating
  <2>2. GLOGHANDLER # NULL => made'[GLOGHANDLER] = made[GLOGHANDLER]
    BY <1>2 DEF HandlersInv, TypeInv
  <2> QED BY <1>1, <2>1, <2>2 DEF RedirectInv, RedirectionKept
<1>10. ASSUME NEW u \in Threads PROVE CountOk(u)'
  <2>1. Losses(u)' = Losses(u) BY <1>1 DEF Losses
  <2>2. CountOk(u) BY DEF CountInv
  <2>3. CASE u # t
    <3>1. Defaults(u)' = Defaults(u)
      BY <1>2, <1>6, <2>3, ConstantsAssumption DEF Defaults
    <3> QED BY <1>1, <1>2, <2>1, <2>2, <2>3, <3>1, CountOther
  <2>4. CASE u = t /\ ~Default(t)
    <3>1. Defaults(t)' = Defaults(t)
      BY <1>2, <1>6, <2>4 DEF Defaults, Default, Path
    <3>2. ~HoldsDefault(t) /\ ~Open(t)' BY <1>2, <2>4 DEF HoldsDefault, Open, Default
    <3> QED BY <1>1, <1>2, <2>1, <2>2, <2>4, <3>1, <3>2, CountSame
  <2>5. CASE u = t /\ Default(t)
    <3>1. Defaults(t)' = Defaults(t) \cup {h} /\ h \notin Defaults(t)
      BY <1>2, <1>6, <2>5 DEF Defaults, Default, Path
    <3>2. Open(t) BY <1>2, <2>2, <2>5 DEF Open, CountOk
    <3>3. HoldsDefault(t)' BY <1>2, <1>6, <2>5 DEF HoldsDefault, Default
    <3>4. ~Open(t)' BY <1>2, <1>6 DEF Open
    <3>5. IsFiniteSet(Defaults(t)') /\ Cardinality(Defaults(t)') = Cardinality(Defaults(t)) + 1
      BY <2>2, <2>5, <3>1, FS_AddElement DEF CountOk
    <3>6. Spent(t)' = Spent(t) + 1 /\ Spent(t) \in Nat
      BY <2>1, <2>2, <2>5, <3>5, FS_CardinalityType DEF Spent, CountOk
    <3>7. nulled \in Nat BY DEF TypeInv
    <3> QED BY <1>1, <1>2, <2>1, <2>2, <2>5, <3>2, <3>3, <3>4, <3>5, <3>6, <3>7 DEF CountOk
  <2> QED BY <2>3, <2>4, <2>5
<1> QED BY <1>7, <1>8, <1>9, <1>10 DEF CountInv

LEMMA FirstNothing ==
  ASSUME TypeInv, HandlersInv, FirstInv, RedirectInv, CountInv,
         NEW t \in Threads, CreateNothing(t)
  PROVE  HandlersInv' /\ FirstInv' /\ RedirectInv' /\ CountInv'
<1>1. UNCHANGED <<GLOGHANDLER, made, lost, nulled, redirected, racing>> BY DEF CreateNothing
<1>2. /\ pc[t] = "create" /\ pc'[t] = "assign"
      /\ call'[t].log = NULL /\ call'[t].kind = call[t].kind
      /\ \A u \in Threads \ {t} : pc'[u] = pc[u] /\ call'[u] = call[u]
      /\ TypeInv'
  BY CreateNothingEffect
<1>3. \A g \in Handlers : made[g].maker \in Threads \cup {NULL}
  BY DEF TypeInv, HandlerState
<1>4. \A g \in Handlers : made[g].maker # NULL => (Holding(g)' <=> Holding(g))
  BY <1>1, <1>2, <1>3, ConstantsAssumption DEF Holding
<1>5. HandlersInv' BY <1>1, <1>2 DEF HandlersInv
<1>6. \A u \in Threads : HasMade(u) <=> HasMade(u)' BY <1>1 DEF HasMade
<1>7. FirstInv' BY <1>1, <1>2, <1>4, <1>6 DEF FirstInv
<1>8. Creating' = Creating BY <1>2 DEF Creating
<1>9. RedirectInv' BY <1>1, <1>8 DEF RedirectInv, RedirectionKept
<1>10. ASSUME NEW u \in Threads PROVE CountOk(u)'
  <2>1. Losses(u)' = Losses(u) /\ Defaults(u)' = Defaults(u) BY <1>1 DEF Losses, Defaults
  <2>2. CountOk(u) BY DEF CountInv
  <2>3. CASE u # t BY <1>1, <1>2, <2>1, <2>2, <2>3, CountOther
  <2>4. CASE u = t
    <3>1. ~HoldsDefault(t) BY <1>2 DEF HoldsDefault
    <3>2. Open(t)' => Open(t) BY <1>2, <2>2, <2>4 DEF Open, Default, CountOk
    <3> QED BY <1>1, <1>2, <2>1, <2>2, <2>4, <3>1, <3>2, CountSame
  <2> QED BY <2>3, <2>4
<1> QED BY <1>5, <1>7, <1>9, <1>10 DEF CountInv

LEMMA FirstAssign ==
  ASSUME TypeInv, HandlersInv, FirstInv, RedirectInv, CountInv, NEW t \in Threads, Assign(t)
  PROVE  HandlersInv' /\ FirstInv' /\ RedirectInv' /\ CountInv'
<1>1. UNCHANGED <<made, call>> BY DEF Assign
<1> DEFINE h == call[t].log
<1>2. /\ pc[t] = "assign" /\ pc'[t] \in {"idle", "data", "header"}
      /\ GLOGHANDLER' = h
      /\ lost' = IF h = NULL /\ Default(t) THEN lost \cup {<<t, calls[t]>>} ELSE lost
      /\ nulled' = IF h = NULL THEN nulled + 1 ELSE nulled
      /\ redirected' = (h # NULL /\ (redirected \/ ~Default(t)))
      /\ racing' = IF h # NULL /\ ~Default(t) THEN Creating ELSE racing
      /\ \A u \in Threads \ {t} : pc'[u] = pc[u]
      /\ TypeInv'
  BY AssignEffect DEF Default
<1>3. h # NULL => /\ h \in Handlers /\ made[h].maker = t
                  /\ made[h].fpath = Path(call[t].kind)
  BY <1>2 DEF HandlersInv, TypeInv, CallState
<1> HIDE DEF h
<1>4. HandlersInv' BY <1>1, <1>2, <1>3, ConstantsAssumption DEF HandlersInv
<1>5. \A u \in Threads : HasMade(u)' <=> HasMade(u) BY <1>1 DEF HasMade
<1>6. nulled \in Nat BY DEF TypeInv
<1>7. FirstInv'
  <2>1. CASE h = NULL BY <1>2, <1>6, <2>1 DEF FirstInv
  <2>2. CASE h # NULL BY <1>1, <1>2, <1>5, <2>2 DEF FirstInv
  <2> QED BY <2>1, <2>2
<1>8. RedirectInv'
  <2> SUFFICES ASSUME redirected'
               PROVE  /\ h # NULL /\ Creating' \subseteq racing'
                      /\ made[h].fpath = "given" \/ made[h].maker \in racing'
    BY <1>1, <1>2 DEF RedirectInv, RedirectionKept
  <2>1. h # NULL BY <1>2
  <2>2. \A u \in Threads : pc'[u] \in {"create", "assign"} => u # t /\ pc'[u] = pc[u]
    BY <1>2
  <2>3. Creating' \subseteq Creating BY <1>1, <2>2 DEF Creating
  <2>4. CASE ~Default(t) BY <1>2, <1>3, <2>1, <2>3, <2>4 DEF Default, Path
  <2>5. CASE Default(t)
    <3>1. redirected /\ racing' = racing BY <1>2, <2>5
    <3>2. t \in Creating BY <1>2, <2>5 DEF Creating, Default
    <3> QED BY <1>3, <2>1, <2>3, <3>1, <3>2 DEF RedirectInv
  <2> QED BY <2>4, <2>5
<1>9. ASSUME NEW u \in Threads PROVE CountOk(u)'
  <2>1. Defaults(u)' = Defaults(u) BY <1>1 DEF Defaults
  <2>2. CountOk(u) BY DEF CountInv
  <2>3. nulled' \in {nulled, nulled + 1} /\ (GLOGHANDLER' = NULL => nulled' = nulled + 1)
    BY <1>2
  <2>4. CASE u # t
    <3>1. Losses(u)' = Losses(u) BY <1>2, <2>4 DEF Losses
    <3>2. pc'[u] = pc[u] /\ call'[u] = call[u] BY <1>1, <1>2, <2>4
    <3> QED BY <1>2, <2>1, <2>2, <2>3, <3>1, <3>2, CountOther
  <2>5. CASE u = t /\ ~(h = NULL /\ Default(t))
    <3>1. Losses(t)' = Losses(t) BY <1>2, <2>5 DEF Losses
    <3>2. ~Open(t)' /\ pc'[t] # "create" BY <1>2 DEF Open
    <3> QED BY <1>2, <2>1, <2>2, <2>3, <2>5, <3>1, <3>2, CountSame
  <2>6. CASE u = t /\ h = NULL /\ Default(t)
    <3>1. Open(t) BY <1>2, <2>6 DEF Open, h
    <3> DEFINE m == <<t, calls[t]>>
    <3>2. Losses(t)' = Losses(t) \cup {m} BY <1>2, <2>6 DEF Losses
    <3> HIDE DEF m
    <3>3. IsFiniteSet(Losses(t)') /\ Cardinality(Losses(t)') <= Cardinality(Losses(t)) + 1
      <4>1. Cardinality(Losses(t)) \in Nat BY <2>2, <2>6, FS_CardinalityType DEF CountOk
      <4> QED BY <2>2, <2>6, <3>2, <4>1, FS_AddElement DEF CountOk
    <3>4. Spent(t)' <= Spent(t) + 1 /\ Spent(t) \in Nat /\ Spent(t)' \in Nat
      BY <2>1, <2>2, <2>6, <3>3, FS_CardinalityType DEF Spent, CountOk
    <3>5. ~Open(t)' /\ pc'[t] # "create" BY <1>2 DEF Open
    <3>6. nulled' = nulled + 1 BY <1>2, <2>6
    <3> QED BY <1>6, <2>1, <2>2, <2>6, <3>1, <3>3, <3>4, <3>5, <3>6 DEF CountOk
  <2> QED BY <2>4, <2>5, <2>6
<1> QED BY <1>4, <1>7, <1>8, <1>9 DEF CountInv

\* Steps that touch no handler and no thread on its way to one.
LEMMA FirstQuiet ==
  ASSUME TypeInv, TypeInv', HandlersInv, FirstInv, RedirectInv, CountInv,
         UNCHANGED <<GLOGHANDLER, made, call, lost, nulled, redirected, racing>>,
         \A u \in Threads : \A p \in {"assign", "create", "test"} : pc'[u] = p <=> pc[u] = p
  PROVE  HandlersInv' /\ FirstInv' /\ RedirectInv' /\ CountInv'
<1>1. \A h \in Handlers : made[h].maker \in Threads => (Holding(h) <=> Holding(h)')
  BY DEF Holding
<1>2. \A h \in Handlers : made[h].maker \in Threads \cup {NULL}
  BY DEF TypeInv, HandlerState
<1>3. \A u \in Threads : HasMade(u)' <=> HasMade(u) BY DEF HasMade
<1>4. FirstInv' BY <1>1, <1>2, <1>3 DEF FirstInv
<1>5. Creating' = Creating BY DEF Creating
<1>6. RedirectInv' BY <1>5 DEF RedirectInv, RedirectionKept
<1>7. HandlersInv' BY DEF HandlersInv
<1>8. ASSUME NEW u \in Threads PROVE CountOk(u)'
  <2>1. Losses(u)' = Losses(u) /\ Defaults(u)' = Defaults(u) BY DEF Losses, Defaults
  <2>2. /\ (HoldsDefault(u)' <=> HoldsDefault(u)) /\ (Open(u)' <=> Open(u))
        /\ (pc'[u] = "create" /\ Default(u)' => pc[u] = "create" /\ Default(u))
    BY DEF HoldsDefault, Open, Default
  <2>3. Spent(u)' = Spent(u) BY <2>1 DEF Spent
  <2> QED BY <2>1, <2>2, <2>3 DEF CountOk, CountInv
<1> QED BY <1>4, <1>6, <1>7, <1>8 DEF CountInv

LEMMA FirstStep ==
  TypeInv /\ HandlersInv /\ FirstInv /\ RedirectInv /\ CountInv /\ [Next]_vars =>
    HandlersInv' /\ FirstInv' /\ RedirectInv' /\ CountInv'
<1> SUFFICES ASSUME TypeInv, HandlersInv, FirstInv, RedirectInv, CountInv, [Next]_vars
             PROVE  HandlersInv' /\ FirstInv' /\ RedirectInv' /\ CountInv'
  OBVIOUS
<1> DEFINE Inv == HandlersInv /\ FirstInv /\ RedirectInv /\ CountInv
<1>1. TypeInv' BY TypeStep
<1>2. CASE UNCHANGED vars BY <1>1, <1>2, FirstQuiet DEF vars
<1>3. ASSUME NEW t \in Threads, CreateAborts(t) PROVE Inv'
  BY <1>1, <1>3, FirstQuiet DEF CreateAborts
<1>4. ASSUME NEW t \in Threads, WritePart(t) PROVE Inv'
  <2>1. UNCHANGED <<GLOGHANDLER, made, call, lost, nulled, redirected, racing>> BY <1>4 DEF WritePart
  <2>2. /\ pc[t] \in DOMAIN After /\ pc'[t] = After[pc[t]]
        /\ \A u \in Threads \ {t} : pc'[u] = pc[u]
    BY <1>4, WriteEffect
  <2>3. \A u \in Threads : \A p \in {"assign", "create", "test"} : pc'[u] = p <=> pc[u] = p
    BY <2>2 DEF After
  <2> QED BY <1>1, <2>1, <2>3, FirstQuiet
<1>5. \A t \in Threads : CreateNothing(t) => Inv' BY FirstNothing
<1>6. \A t \in Threads, kind \in Kinds, level \in Levels : Call(t, kind, level) => Inv'
  BY FirstCall
<1>7. \A t \in Threads : Test(t) => Inv' BY FirstTest
<1>8. \A t \in Threads, h \in Handlers : Create(t, h) => Inv' BY FirstCreate
<1>9. \A t \in Threads : Assign(t) => Inv' BY FirstAssign
<1> QED BY <1>2, <1>3, <1>4, <1>5, <1>6, <1>7, <1>8, <1>9 DEF Next

LEMMA FirstAlways == Spec => [](TypeInv /\ FirstInv /\ RedirectInv /\ CountInv)
<1>1. Spec => [](TypeInv /\ HandlersInv /\ FirstInv /\ RedirectInv /\ CountInv)
  BY TypeInit, FirstInit, TypeStep, FirstStep, PTL DEF Spec
<1> QED BY <1>1, PTL

\* However many threads log first at once, each makes no more handlers for
\* /dev/stderr and loses no more messages than GLOGHANDLER has been NULL times;
\* and before an _init_log has returned NULL, a message is lost only when
\* another thread has made a handler.
THEOREM FirstUseHolds == Spec => []FirstUse
<1>1. TypeInv /\ FirstInv /\ CountInv => FirstUse
  <2> SUFFICES ASSUME TypeInv, FirstInv, CountInv, NEW t \in Threads
               PROVE  /\ Spent(t) <= nulled + 1
                      /\ nulled = 0 /\ Losses(t) # {} =>
                           \E h \in Handlers : made[h].maker \notin {NULL, t}
    BY DEF FirstUse, Spent
  <2>1. Spent(t) <= nulled + 1 BY DEF CountInv, CountOk
  <2>2. nulled = 0 /\ Losses(t) # {} => \E h \in Handlers : made[h].maker \notin {NULL, t}
    BY DEF FirstInv, Losses
  <2> QED BY <2>1, <2>2
<1> QED BY <1>1, FirstAlways, PTL

\* What INIT_LOG has redirected stays redirected until an _init_log returns
\* NULL, but for threads that were creating the handler for /dev/stderr then.
THEOREM RedirectionKeptHolds == Spec => []RedirectionKept
<1>1. RedirectInv => RedirectionKept BY DEF RedirectInv
<1> QED BY <1>1, FirstAlways, PTL

-----------------------------------------------------------------------------
(* Lines *)

\* Of the message a thread is about to print nothing is printed, and of the
\* one it is printing what comes before, to the handler the call goes by.
PrintingInv ==
  /\ \A h \in Handlers : \A i \in DOMAIN out[h] :
       LET t == out[h][i][1]
       IN  /\ out[h][i][2] <= calls[t]
           /\ out[h][i][2] = calls[t] /\ pc[t] # "idle" =>
                /\ h = call[t].log
                /\ <<out[h][i][3], pc[t]>> \in PartOrder
  /\ \A t \in Threads, k \in {"header", "text"} :
       pc[t] = After[k] => Printed(t, calls[t], k, call[t].log)

LinesInv == PartsInOrder /\ PrintingInv

LEMMA OutTyped ==
  ASSUME TypeInv, NEW h \in Handlers, NEW i \in DOMAIN out[h]
  PROVE  /\ out[h][i][1] \in Threads /\ out[h][i][2] \in Nat
         /\ out[h][i][3] \in {"header", "text", "newline", "data"}
         /\ out[h][i] = <<out[h][i][1], out[h][i][2], out[h][i][3]>>
<1>1. out[h][i] \in Threads \X Nat \X DOMAIN After BY DEF TypeInv
<1> QED BY <1>1 DEF After

LEMMA LinesInit == Init => LinesInv
  BY DEF Init, LinesInv, PartsInOrder, PrintingInv, After

\* Steps that print nothing.
LEMMA LinesQuiet ==
  ASSUME TypeInv, LinesInv, out' = out, NEW t \in Threads,
         pc[t] \in {"idle", "test", "create", "assign"},
         pc'[t] \notin {"text", "newline"},
         IF pc[t] = "idle" THEN calls'[t] = calls[t] + 1 ELSE calls'[t] = calls[t],
         \A u \in Threads \ {t} : pc'[u] = pc[u] /\ call'[u] = call[u] /\ calls'[u] = calls[u]
  PROVE  LinesInv'
<1>1. \A n, k, h : \A u : Printed(u, n, k, h)' <=> Printed(u, n, k, h) BY DEF Printed
<1>2. ASSUME NEW h \in Handlers, NEW i \in DOMAIN out[h], out[h][i][1] = t
      PROVE  out[h][i][2] <= calls'[t] /\ out[h][i][2] # calls'[t]
  <2>1. out[h][i][2] \in Nat /\ calls[t] \in Nat BY OutTyped DEF TypeInv
  <2>2. /\ out[h][i][2] <= calls[t]
        /\ out[h][i][2] = calls[t] /\ pc[t] # "idle" =>
             <<out[h][i][3], pc[t]>> \in PartOrder
    BY <1>2 DEF LinesInv, PrintingInv
  <2>3. out[h][i][2] = calls[t] => pc[t] = "idle" BY <2>2 DEF PartOrder
  <2> QED BY <2>1, <2>2, <2>3
<1>3. PrintingInv'
  <2>1. ASSUME NEW h \in Handlers, NEW i \in DOMAIN out[h]
        PROVE  LET u == out[h][i][1]
               IN  /\ out[h][i][2] <= calls'[u]
                   /\ out[h][i][2] = calls'[u] /\ pc'[u] # "idle" =>
                        /\ h = call'[u].log
                        /\ <<out[h][i][3], pc'[u]>> \in PartOrder
    <3>1. CASE out[h][i][1] = t BY <1>2, <3>1
    <3>2. CASE out[h][i][1] # t BY <3>2, OutTyped DEF LinesInv, PrintingInv
    <3> QED BY <3>1, <3>2
  <2>2. \A u \in Threads, k \in {"header", "text"} :
          pc'[u] = After[k] => Printed(u, calls'[u], k, call'[u].log)
    BY DEF LinesInv, PrintingInv, After
  <2> QED BY <1>1, <2>1, <2>2 DEF PrintingInv
<1>4. PartsInOrder'
  <2> SUFFICES ASSUME NEW h \in Handlers, NEW i \in DOMAIN out[h], NEW k \in {"header", "text"},
                      out[h][i][3] = k,
                      ~Printed(out[h][i][1], out[h][i][2], After[k], h)
               PROVE  out[h][i][2] = calls'[out[h][i][1]] /\ pc'[out[h][i][1]] = After[k]
    BY <1>1 DEF LinesInv, PartsInOrder
  <2>1. out[h][i][2] = calls[out[h][i][1]] /\ pc[out[h][i][1]] = After[k]
    BY DEF LinesInv, PartsInOrder
  <2>2. out[h][i][1] # t BY <2>1 DEF After
  <2> QED BY <2>1, <2>2, OutTyped
<1> QED BY <1>3, <1>4 DEF LinesInv

PrintedIn(o, u, n, q, h) == \E i \in DOMAIN o[h] : o[h][i] = <<u, n, q>>

LEMMA LinesWrite ==
  ASSUME TypeInv, LinesInv, NEW t \in Threads, WritePart(t)
  PROVE  LinesInv'
<1> DEFINE H == call[t].log
           N == calls[t]
           k == pc[t]
           last == Len(out[H]) + 1
<1>1. /\ k \in {"header", "text", "newline", "data"} /\ pc'[t] = After[k]
      /\ H \in Handlers /\ N \in Nat
      /\ \A u \in Threads \ {t} : pc'[u] = pc[u]
      /\ UNCHANGED <<call, calls>>
  BY WriteEffect DEF After, TypeInv, WritePart
<1>2. /\ last \in Nat \ {0} /\ DOMAIN out[H] = 1..last-1 /\ DOMAIN out'[H] = 1..last
      /\ out'[H][last] = <<t, N, k>>
      /\ \A i \in DOMAIN out[H] : out'[H][i] = out[H][i]
      /\ \A h \in Handlers \ {H} : out'[h] = out[h]
  <2>1. /\ out[H] \in Seq(Threads \X Nat \X DOMAIN After)
        /\ <<t, N, k>> \in Threads \X Nat \X DOMAIN After
    BY <1>1 DEF TypeInv, After
  <2>2. /\ out'[H] = Append(out[H], <<t, N, k>>)
        /\ \A h \in Handlers \ {H} : out'[h] = out[h]
    BY WriteEffect
  <2> HIDE DEF H, N, k
  <2> QED BY <2>1, <2>2
<1> HIDE DEF H, N, k, last
<1>3. \A h \in Handlers : \A i \in DOMAIN out'[h] :
        \/ i \in DOMAIN out[h] /\ out'[h][i] = out[h][i]
        \/ h = H /\ i = last /\ out'[h][i] = <<t, N, k>>
  BY <1>1, <1>2
<1>4. \A h \in Handlers : \A i \in DOMAIN out[h] : i \in DOMAIN out'[h] /\ out'[h][i] = out[h][i]
  BY <1>1, <1>2
<1>5. \A h \in Handlers : \A u, n, q :
        PrintedIn(out', u, n, q, h) <=> PrintedIn(out, u, n, q, h) \/ (h = H /\ u = t /\ n = N /\ q = k)
  <2>1. last \in DOMAIN out'[H] /\ out'[H][last] = <<t, N, k>> BY <1>2
  <2> QED BY <1>3, <1>4, <2>1 DEF PrintedIn
\* What is printed of this message so far.
<1>6. \A h \in Handlers : \A i \in DOMAIN out[h] :
        out[h][i][1] = t => /\ out[h][i][2] <= N
                            /\ out[h][i][2] = N => h = H /\ <<out[h][i][3], k>> \in PartOrder
  BY <1>1 DEF LinesInv, PrintingInv, H, N, k
<1>7. \A q \in {"header", "text"} : k = After[q] => PrintedIn(out, t, N, q, H)
  BY DEF LinesInv, PrintingInv, H, N, k, Printed, PrintedIn
<1>8. \A h \in Handlers : \A q : PrintedIn(out, t, N, q, h) => h = H
  <2> SUFFICES ASSUME NEW h \in Handlers, NEW q, NEW i \in DOMAIN out[h], out[h][i] = <<t, N, q>>
               PROVE  h = H
    BY DEF PrintedIn
  <2>1. out[h][i][1] = t /\ out[h][i][2] = N OBVIOUS
  <2>2. out[h][i][2] = N => h = H BY <1>6, <2>1
  <2> QED BY <2>1, <2>2
<1>9. PartsInOrder'
  <2> SUFFICES ASSUME NEW h \in Handlers, NEW i \in DOMAIN out'[h]
               PROVE  LET p == out'[h][i]
                          u == p[1]
                          n == p[2]
                      IN  /\ \A g \in Handlers, q \in DOMAIN After : PrintedIn(out', u, n, q, g) => g = h
                          /\ \A j \in 1..i-1 :
                               LET q == out'[h][j]
                               IN  q[1] = u => q[2] < n \/ (q[2] = n /\ <<q[3], p[3]>> \in PartOrder)
                          /\ \A q \in {"header", "text"} :
                               /\ p[3] = After[q] => PrintedIn(out', u, n, q, h)
                               /\ p[3] = q => \/ PrintedIn(out', u, n, After[q], h)
                                              \/ n = calls'[u] /\ pc'[u] = After[q]
    BY DEF PartsInOrder, Printed, PrintedIn
  <2>1. CASE i \in DOMAIN out[h] /\ out'[h][i] = out[h][i]
    <3> DEFINE u == out[h][i][1]
               n == out[h][i][2]
    <3>0. /\ \A g \in Handlers, q \in DOMAIN After : PrintedIn(out, u, n, q, g) => g = h
          /\ \A q \in {"header", "text"} :
               /\ out[h][i][3] = After[q] => PrintedIn(out, u, n, q, h)
               /\ out[h][i][3] = q => \/ PrintedIn(out, u, n, After[q], h)
                                      \/ n = calls[u] /\ pc[u] = After[q]
      BY <2>1 DEF LinesInv, PartsInOrder, Printed, PrintedIn
    <3>1. \A g \in Handlers, q \in DOMAIN After : PrintedIn(out', u, n, q, g) => g = h
      BY <1>5, <1>6, <2>1, <3>0
    <3>2. \A j \in 1..i-1 : j \in DOMAIN out[h] /\ out'[h][j] = out[h][j]
      <4>1. out[h] \in Seq(Threads \X Nat \X DOMAIN After) BY DEF TypeInv
      <4>2. \A j \in 1..i-1 : j \in DOMAIN out[h] BY <2>1, <4>1
      <4> QED BY <1>4, <4>2
    <3>3. \A j \in 1..i-1 :
             LET q == out[h][j]
             IN  q[1] = u => q[2] < n \/ (q[2] = n /\ <<q[3], out[h][i][3]>> \in PartOrder)
      BY <2>1 DEF LinesInv, PartsInOrder, Printed, PrintedIn
    <3>4. ASSUME NEW q \in {"header", "text"}
          PROVE  /\ out[h][i][3] = After[q] => PrintedIn(out', u, n, q, h)
                 /\ out[h][i][3] = q => \/ PrintedIn(out', u, n, After[q], h)
                                        \/ n = calls'[u] /\ pc'[u] = After[q]
      <4>1. out[h][i][3] = After[q] => PrintedIn(out', u, n, q, h)
        BY <1>5, <3>0
      <4>2. CASE u = t /\ n = N /\ k = After[q]
        <5>1. h = H BY <1>6, <2>1, <4>2
        <5>2. PrintedIn(out', u, n, After[q], h) BY <1>5, <4>2, <5>1
        <5> QED BY <4>1, <5>2
      <4>3. CASE ~(u = t /\ n = N /\ k = After[q])
        <5> SUFFICES ASSUME out[h][i][3] = q, ~PrintedIn(out, u, n, After[q], h)
                     PROVE  n = calls'[u] /\ pc'[u] = After[q]
          BY <1>5, <4>1
        <5>1. n = calls[u] /\ pc[u] = After[q]
          BY <3>0
        <5>2. u # t BY <4>3, <5>1 DEF N, k
        <5>3. u \in Threads BY <2>1, OutTyped
        <5> QED BY <1>1, <5>1, <5>2, <5>3
      <4> QED BY <4>2, <4>3
    <3> HIDE DEF u, n
    <3> QED BY <2>1, <3>1, <3>2, <3>3, <3>4 DEF u, n
  <2>2. CASE h = H /\ i = last /\ out'[h][i] = <<t, N, k>>
    <3>1. \A g \in Handlers, q \in DOMAIN After : PrintedIn(out', t, N, q, g) => g = h
      BY <1>5, <1>8, <2>2
    <3>2. \A j \in 1..i-1 :
             LET q == out'[h][j]
             IN  q[1] = t => q[2] < N \/ (q[2] = N /\ <<q[3], k>> \in PartOrder)
      <4> SUFFICES ASSUME NEW j \in 1..last-1, out[H][j][1] = t
                   PROVE  out[H][j][2] < N \/ (out[H][j][2] = N /\ <<out[H][j][3], k>> \in PartOrder)
        BY <1>2, <2>2
      <4>1. j \in DOMAIN out[H] /\ out[H][j][2] \in Nat BY <1>1, <1>2, OutTyped
      <4> QED BY <1>1, <1>6, <4>1
    <3>3. \A q \in {"header", "text"} :
            /\ k = After[q] => PrintedIn(out', t, N, q, h)
            /\ k = q => N = calls'[t] /\ pc'[t] = After[q]
      BY <1>1, <1>5, <1>7, <2>2 DEF N
    <3> QED BY <2>2, <3>1, <3>2, <3>3
  <2> QED BY <1>3, <2>1, <2>2
<1>10. PrintingInv'
  <2>1. ASSUME NEW h \in Handlers, NEW i \in DOMAIN out'[h]
        PROVE  LET u == out'[h][i][1]
               IN  /\ out'[h][i][2] <= calls[u]
                   /\ out'[h][i][2] = calls[u] /\ pc'[u] # "idle" =>
                        /\ h = call[u].log
                        /\ <<out'[h][i][3], pc'[u]>> \in PartOrder
    <3>1. CASE i \in DOMAIN out[h] /\ out'[h][i] = out[h][i]
      <4>1. CASE out[h][i][1] = t
        <5>1. /\ out[h][i][2] <= N
              /\ out[h][i][2] = N => h = H /\ <<out[h][i][3], k>> \in PartOrder
          BY <1>6, <3>1, <4>1
        <5>2. <<out[h][i][3], k>> \in PartOrder /\ After[k] # "idle"
              => <<out[h][i][3], After[k]>> \in PartOrder
          BY <1>1 DEF After, PartOrder
        <5> QED BY <1>1, <3>1, <4>1, <5>1, <5>2 DEF N, H
      <4>2. CASE out[h][i][1] # t
        BY <1>1, <3>1, <4>2, OutTyped DEF LinesInv, PrintingInv
      <4> QED BY <4>1, <4>2
    <3>2. CASE h = H /\ i = last /\ out'[h][i] = <<t, N, k>>
      <4>1. After[k] # "idle" => <<k, After[k]>> \in PartOrder
        BY <1>1 DEF After, PartOrder
      <4> QED BY <1>1, <3>2, <4>1 DEF N, H
    <3> QED BY <1>3, <3>1, <3>2
  <2>2. ASSUME NEW u \in Threads, NEW q \in {"header", "text"}, pc'[u] = After[q]
        PROVE  PrintedIn(out', u, calls[u], q, call[u].log)
    <3>1. CASE u = t
      <4>1. k = q BY <1>1, <2>2, <3>1 DEF After
      <4> QED BY <1>1, <1>5, <3>1, <4>1 DEF N, H
    <3>2. CASE u # t
      <4>0. pc[u] = After[q] BY <1>1, <2>2, <3>2
      <4>1. PrintedIn(out, u, calls[u], q, call[u].log)
        BY <4>0 DEF LinesInv, PrintingInv, Printed, PrintedIn
      <4>3. call[u].log \in Handlers \cup {NULL} BY DEF TypeInv, CallState
      <4>2. call[u].log # NULL BY <1>1, <2>2, <3>2 DEF After, TypeInv
      <4> QED BY <1>1, <1>5, <4>1, <4>2, <4>3
    <3> QED BY <3>1, <3>2
  <2> QED BY <1>1, <2>1, <2>2 DEF PrintingInv, Printed, PrintedIn
<1> QED BY <1>9, <1>10 DEF LinesInv

LEMMA LinesStep == TypeInv /\ LinesInv /\ [Next]_vars => LinesInv'
<1> SUFFICES ASSUME TypeInv, LinesInv, [Next]_vars PROVE LinesInv'
  OBVIOUS
<1>1. ASSUME UNCHANGED <<out, pc, call, calls>> PROVE LinesInv'
  <2>1. \A n, k, h : \A t : Printed(t, n, k, h)' <=> Printed(t, n, k, h) BY <1>1 DEF Printed
  <2>3. PartsInOrder'
    <3> SUFFICES ASSUME NEW h \in Handlers, NEW i \in DOMAIN out[h], NEW k \in {"header", "text"},
                        out[h][i][3] = k,
                        ~Printed(out[h][i][1], out[h][i][2], After[k], h)
                 PROVE  out[h][i][2] = calls[out[h][i][1]] /\ pc[out[h][i][1]] = After[k]
      BY <1>1, <2>1 DEF LinesInv, PartsInOrder
    <3> QED BY DEF LinesInv, PartsInOrder
  <2>2. PrintingInv' BY <1>1 DEF LinesInv, PrintingInv, Printed
  <2> QED BY <2>2, <2>3 DEF LinesInv
<1>2. CASE UNCHANGED vars BY <1>1, <1>2 DEF vars
<1>3. \A t \in Threads : CreateAborts(t) => LinesInv' BY <1>1 DEF CreateAborts
<1>4. ASSUME NEW t \in Threads, NEW kind \in Kinds, NEW level \in Levels, Call(t, kind, level)
      PROVE  LinesInv'
  <2>1. out' = out BY <1>4 DEF Call
  <2> QED BY <1>4, <2>1, CallEffect, LinesQuiet
<1>5. ASSUME NEW t \in Threads, Test(t) PROVE LinesInv'
  <2>1. UNCHANGED <<out, call, calls>> BY <1>5 DEF Test
  <2> QED BY <1>5, <2>1, TestEffect, LinesQuiet
<1>6. ASSUME NEW t \in Threads, NEW h \in Handlers, Create(t, h) PROVE LinesInv'
  <2>1. UNCHANGED <<out, calls>> BY <1>6 DEF Create
  <2> QED BY <1>6, <2>1, CreateEffect, LinesQuiet
<1>7. ASSUME NEW t \in Threads, CreateNothing(t) PROVE LinesInv'
  <2>1. UNCHANGED <<out, calls>> BY <1>7 DEF CreateNothing
  <2> QED BY <1>7, <2>1, CreateNothingEffect, LinesQuiet
<1>8. ASSUME NEW t \in Threads, Assign(t) PROVE LinesInv'
  <2>1. UNCHANGED <<out, call, calls>> BY <1>8 DEF Assign
  <2> QED BY <1>8, <2>1, AssignEffect, LinesQuiet
<1>9. \A t \in Threads : WritePart(t) => LinesInv' BY LinesWrite
<1> QED BY <1>2, <1>3, <1>4, <1>5, <1>6, <1>7, <1>8, <1>9 DEF Next

\* Whatever the threads do between the stdio calls of a message, its parts
\* come out on one stream, in order, once each and, when its thread goes on,
\* all of them.
THEOREM PartsInOrderHolds == Spec => []PartsInOrder
<1>1. LinesInv => PartsInOrder BY DEF LinesInv
<1> QED BY <1>1, TypeInit, LinesInit, TypeStep, LinesStep, PTL DEF Spec
=============================================================================
