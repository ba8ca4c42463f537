------------------------ MODULE EngineLifecycleProofs ------------------------
(***************************************************************************)
(* The deferred-query list is exact in every behaviour of EngineLifecycle, *)
(* a start that returned Ok has started what it owed, and nothing starts   *)
(* early, for any number of callers, queries and calls, whichever callers  *)
(* configure a query.                                                      *)
(***************************************************************************)
EXTENDS EngineLifecycle, TLAPS

ConfigOps == {"add", "update", "remove"}

\* What the place a call has reached says of the call.
CallInv ==
    \A c \in Callers :
        /\ pc[c] = "idle" => call[c] = NoCall
        /\ pc[c] = "check" => call[c].op \in {"add", "update"}
        /\ pc[c] = "note" => call[c].op \in ConfigOps
        /\ call[c].op \in QueryOps => call[c].q \in Queries
        /\ call[c].op \in QueryOps => pc[c] \in {"check", "core", "note"}

Suppressed(q) == config[q] = "manual" /\ wants[q]

\* Between core.add_query and note_deferred the decision is on its way to the list.
Noted(c) ==
    pc[c] = "note" /\ call[c].q \notin clashed => (defer[c] <=> Suppressed(call[c].q))

\* Two calls on their way to note one query clash over it.
OneNoter ==
    \A c, d \in Callers :
        pc[c] = "note" /\ pc[d] = "note" /\ call[c].q = call[d].q /\ c # d
            => call[c].q \in clashed

Decided(c) ==
    pc[c] = "core" /\ call[c].op \in {"add", "update"} /\ defer[c] => call[c].auto

ListInv ==
    /\ \A c \in Callers : Noted(c) /\ Decided(c)
    /\ OneNoter
    /\ \A q \in Queries \ clashed :
           \/ q \in deferred <=> Suppressed(q)
           \/ \E c \in Callers : pc[c] = "note" /\ call[c].q = q

IInv == TypeOK /\ CallInv /\ ListInv

-----------------------------------------------------------------------------
(* How the helpers that enter and leave a call keep the types. *)

Named == \A c \in Callers : pc[c] \in {"startDeferred", "await"} => call[c].q \in Queries

CallTypes ==
    /\ pc \in [Callers -> PCs] /\ call \in [Callers -> Call]
    /\ result \in [Callers -> Results] /\ calls \in 0..MaxCalls
    /\ Named

LEMMA NoCallType == NoCall \in Call
BY DEF NoCall, Call, QueryOps, EngineOps

LEMMA ReturnTypes ==
    ASSUME CallTypes, NEW c \in Callers, NEW how \in Results, Return(c, how)
    PROVE  CallTypes'
<1>1. call' \in [Callers -> Call] /\ result' \in [Callers -> Results] /\ calls' = calls
  BY NoCallType DEF CallTypes, Return
<1>2. pc' \in [Callers -> PCs]
  BY DEF CallTypes, Return, PCs
<1>3. Named'
  BY DEF CallTypes, Named, Return, PCs
<1> QED
  BY <1>1, <1>2, <1>3 DEF CallTypes

LEMMA GotoTypes ==
    ASSUME CallTypes, NEW c \in Callers, NEW label \in PCs, Goto(c, label),
           label \in {"startDeferred", "await"} => call[c].q \in Queries
    PROVE  CallTypes'
BY DEF CallTypes, Named, Goto

LEMMA AimTypes ==
    ASSUME CallTypes, NEW c \in Callers, NEW q \in Queries \cup {NoQuery}, NEW label \in PCs,
           Aim(c, q, label), label \in {"startDeferred", "await"} => q \in Queries
    PROVE  CallTypes'
<1>1. [call[c] EXCEPT !.q = q] \in Call
  BY DEF CallTypes, Call
<1>2. call' = [call EXCEPT ![c] = [call[c] EXCEPT !.q = q]]
  BY DEF Aim, CallTypes
<1>3. call'[c].q = q /\ \A d \in Callers \ {c} : call'[d] = call[d]
  BY <1>2 DEF CallTypes, Call
<1>4. pc' \in [Callers -> PCs] /\ call' \in [Callers -> Call] /\ result' = result /\ calls' = calls
  BY <1>1, <1>2 DEF Aim, CallTypes
<1>5. Named'
  BY <1>3 DEF Aim, CallTypes, Named
<1> QED
  BY <1>4, <1>5 DEF CallTypes

LEMMA EnterTypes ==
    ASSUME CallTypes, NEW c \in Callers, NEW request \in Call, NEW label \in {"check", "core"},
           Enter(c, request, label)
    PROVE  CallTypes'
<1>1. pc' \in [Callers -> PCs] /\ call' \in [Callers -> Call] /\ result' \in [Callers -> Results]
  BY DEF CallTypes, Enter, PCs, Results
<1>2. calls' \in 0..MaxCalls
  BY LifecycleAssumption DEF CallTypes, Enter
<1>3. Named'
  BY DEF CallTypes, Named, Enter
<1> QED
  BY <1>1, <1>2, <1>3 DEF CallTypes

-----------------------------------------------------------------------------
(* TypeOK, given what the place of a call says of it *)

OtherTypes ==
    /\ running \in BOOLEAN /\ shut \in BOOLEAN
    /\ config \in [Queries -> {"none", "manual", "auto"}]
    /\ status \in [Queries -> Statuses]
    /\ deferred \in SUBSET Queries
    /\ closed \in BOOLEAN /\ released \in BOOLEAN
    /\ defer \in [Callers -> BOOLEAN]
    /\ todo \in [Callers -> SUBSET Queries]
    /\ wants \in [Queries -> BOOLEAN]
    /\ touched \in SUBSET Queries /\ raced \in SUBSET Queries /\ clashed \in SUBSET Queries
    /\ starter \in Callers \cup {Nobody}
    /\ startedOk \in BOOLEAN

LEMMA TypeParts == TypeOK <=> CallTypes /\ OtherTypes
BY DEF TypeOK, CallTypes, OtherTypes, Named

LEMMA TypePartsNext == CallTypes' /\ OtherTypes' => TypeOK'
BY DEF TypeOK, CallTypes, OtherTypes, Named

LEMMA InitTypes == Init => TypeOK
<1> SUFFICES ASSUME Init PROVE TypeOK
  OBVIOUS
<1>1. CallTypes
  BY NoCallType, LifecycleAssumption DEF Init, CallTypes, Named, PCs, Results
<1>2. OtherTypes
  BY DEF Init, OtherTypes, Statuses
<1> QED
  BY <1>1, <1>2, TypeParts

\* A call that acts on a query names one.
LEMMA QueryNamed ==
    ASSUME CallTypes, CallInv, NEW c \in Callers, call[c].op \in QueryOps
    PROVE  call[c].q \in Queries
BY LifecycleAssumption DEF CallTypes, CallInv, Call

LEMMA NewCallTypes ==
    ASSUME TypeOK, NEW c \in Callers, NewCall(c)
    PROVE  TypeOK'
<1>1. CASE CallShutdown(c)
  <2>1. CASE closed
    <3>1. CallTypes'
      BY <1>1, <2>1, TypeParts, LifecycleAssumption
         DEF CallShutdown, CallTypes, Named, Results
    <3>2. OtherTypes'
      BY <1>1, TypeParts DEF CallShutdown, OtherTypes, core, history
    <3> QED
      BY <3>1, <3>2, TypePartsNext
  <2>2. CASE ~closed
    <3>1. [NoCall EXCEPT !.op = "shutdown"] \in Call
      BY NoCallType DEF Call, EngineOps
    <3>2. Enter(c, [NoCall EXCEPT !.op = "shutdown"], "core")
      BY <1>1, <2>2 DEF CallShutdown, Enter
    <3>3. CallTypes'
      BY <3>1, <3>2, EnterTypes, TypeParts
    <3>4. OtherTypes'
      BY <1>1, TypeParts DEF CallShutdown, OtherTypes, core, history
    <3> QED
      BY <3>3, <3>4, TypePartsNext
  <2> QED
    BY <2>1, <2>2
<1>2. ASSUME NEW op \in QueryOps, NEW q \in Queries, NEW auto \in BOOLEAN,
             CallQuery(c, op, q, auto)
      PROVE  TypeOK'
  <2>1. [op |-> op, q |-> q, auto |-> auto] \in Call
    BY DEF Call
  <2>2. CallTypes'
    BY <1>2, <2>1, EnterTypes, TypeParts DEF CallQuery
  <2>3. OtherTypes'
    BY <1>2, TypeParts DEF CallQuery, OtherTypes, core, inner, history
  <2> QED
    BY <2>2, <2>3, TypePartsNext
<1>3. ASSUME NEW op \in EngineOps, CallEngine(c, op)
      PROVE  TypeOK'
  <2>1. [op |-> op, q |-> NoQuery, auto |-> FALSE] \in Call
    BY DEF Call
  <2>2. CallTypes'
    BY <1>3, <2>1, EnterTypes, TypeParts DEF CallEngine
  <2>3. OtherTypes'
    BY <1>3, TypeParts DEF CallEngine, OtherTypes, core, inner, history
  <2> QED
    BY <2>2, <2>3, TypePartsNext
<1>4. ASSUME NEW op \in QueryOps \cup EngineOps, CallClosed(c, op)
      PROVE  TypeOK'
  <2>1. CallTypes'
    BY <1>4, TypeParts, LifecycleAssumption DEF CallClosed, CallTypes, Named, Results
  <2>2. OtherTypes'
    BY <1>4, TypeParts DEF CallClosed, OtherTypes, core, inner, history
  <2> QED
    BY <2>1, <2>2, TypePartsNext
<1> QED
  BY <1>1, <1>2, <1>3, <1>4 DEF NewCall

LEMMA QueryCallTypes ==
    ASSUME TypeOK, CallInv, NEW c \in Callers,
           \/ CheckRunning(c) \/ CoreAddOrUpdate(c) \/ CoreRemove(c) \/ NoteDeferred(c)
           \/ CoreStartQuery(c) \/ CoreStopQuery(c)
    PROVE  TypeOK'
<1> DEFINE q == call[c].q
<1> USE DEF core, inner, history
<1>1. CASE CheckRunning(c)
  <2>1. CallTypes'
    BY TypeParts, <1>1, GotoTypes DEF CheckRunning, PCs
  <2>2. OtherTypes'
    BY TypeParts, <1>1 DEF CheckRunning, OtherTypes
  <2> QED
    BY <2>1, <2>2, TypePartsNext
<1>2. CASE CoreAddOrUpdate(c)
  <2>1. Return(c, "error") \/ Goto(c, "note")
    BY TypeParts, <1>2 DEF CoreAddOrUpdate
  <2>2. CallTypes'
    BY TypeParts, <2>1, GotoTypes, ReturnTypes DEF PCs, Results
  <2>3. q \in Queries /\ call[c].auto \in BOOLEAN
    BY TypeParts, <1>2, QueryNamed DEF CoreAddOrUpdate, QueryOps, CallTypes, Call
  <2>4. OtherTypes'
    BY TypeParts, <1>2, <2>3 DEF CoreAddOrUpdate, Configure, NoteClash, OtherTypes, Statuses
  <2> QED
    BY <2>2, <2>4, TypePartsNext
<1>3. CASE CoreRemove(c)
  <2>1. Return(c, "error") \/ Goto(c, "note")
    BY TypeParts, <1>3 DEF CoreRemove
  <2>2. CallTypes'
    BY TypeParts, <2>1, GotoTypes, ReturnTypes DEF PCs, Results
  <2>3. q \in Queries
    BY TypeParts, <1>3, QueryNamed DEF CoreRemove, QueryOps
  <2>4. clashed' \in SUBSET Queries
    BY TypeParts, <1>3, <2>3 DEF CoreRemove, NoteClash, OtherTypes
  <2>5. OtherTypes'
    BY TypeParts, <1>3, <2>4 DEF CoreRemove, OtherTypes, Statuses
  <2> QED
    BY <2>2, <2>5, TypePartsNext
<1>4. CASE NoteDeferred(c)
  <2>1. CallTypes'
    BY TypeParts, <1>4, ReturnTypes DEF NoteDeferred, Results
  <2>2. q \in Queries
    BY TypeParts, <1>4, QueryNamed DEF NoteDeferred, CallInv, QueryOps, ConfigOps
  <2>3. OtherTypes'
    BY TypeParts, <1>4, <2>2 DEF NoteDeferred, OtherTypes
  <2> QED
    BY <2>1, <2>3, TypePartsNext
<1>5. CASE CoreStartQuery(c)
  <2>1. CallTypes'
    BY TypeParts, <1>5, ReturnTypes DEF CoreStartQuery, Results
  <2>2. q \in Queries
    BY TypeParts, <1>5, QueryNamed DEF CoreStartQuery, QueryOps
  <2>3. OtherTypes'
    BY TypeParts, <1>5, <2>2 DEF CoreStartQuery, OtherTypes, Statuses
  <2> QED
    BY <2>1, <2>3, TypePartsNext
<1>6. CASE CoreStopQuery(c)
  <2>1. CallTypes'
    BY TypeParts, <1>6, ReturnTypes DEF CoreStopQuery, Results
  <2>2. q \in Queries
    BY TypeParts, <1>6, QueryNamed DEF CoreStopQuery, QueryOps
  <2>3. OtherTypes'
    BY TypeParts, <1>6, <2>2 DEF CoreStopQuery, OtherTypes, Statuses
  <2> QED
    BY <2>1, <2>3, TypePartsNext
<1> QED
  BY <1>1, <1>2, <1>3, <1>4, <1>5, <1>6

LEMMA EngineCallTypes ==
    ASSUME TypeOK, NEW c \in Callers,
           \/ CoreStart(c) \/ CloneDeferred(c) \/ (\E q \in Queries : NextDeferred(c, q))
           \/ StartDone(c) \/ StartDeferred(c) \/ AwaitRunning(c)
           \/ CoreStop(c) \/ CoreShutdown(c) \/ ReleaseWal(c)
    PROVE  TypeOK'
<1> DEFINE q == call[c].q
<1> USE DEF core, inner, history
<1>0. CallTypes /\ OtherTypes
  BY TypeParts
<1>1. CASE CoreStart(c)
  <2>1. CallTypes'
    BY <1>0, <1>1, GotoTypes, ReturnTypes DEF CoreStart, PCs, Results
  <2>2. OtherTypes'
    BY <1>0, <1>1 DEF CoreStart, BeingConfigured, OtherTypes, Statuses
  <2> QED
    BY <2>1, <2>2, TypePartsNext
<1>2. CASE CloneDeferred(c)
  <2>1. CallTypes'
    BY <1>0, <1>2, GotoTypes DEF CloneDeferred, PCs
  <2>2. OtherTypes'
    BY <1>0, <1>2 DEF CloneDeferred, OtherTypes
  <2> QED
    BY <2>1, <2>2, TypePartsNext
<1>3. ASSUME NEW p \in Queries, NextDeferred(c, p)
      PROVE  TypeOK'
  <2>1. CallTypes'
    BY <1>0, <1>3, GotoTypes, AimTypes DEF NextDeferred, PCs
  <2>2. OtherTypes'
    BY <1>0, <1>3 DEF NextDeferred, OtherTypes
  <2> QED
    BY <2>1, <2>2, TypePartsNext
<1>4. CASE StartDone(c)
  <2>1. CallTypes'
    BY <1>0, <1>4, ReturnTypes DEF StartDone, Results
  <2>2. OtherTypes'
    BY <1>0, <1>4 DEF StartDone, OtherTypes
  <2> QED
    BY <2>1, <2>2, TypePartsNext
<1>5. CASE StartDeferred(c)
  <2>1. Return(c, "error") \/ Goto(c, "await")
    BY <1>5 DEF StartDeferred, StartAborts
  <2>2. q \in Queries
    BY <1>0, <1>5 DEF StartDeferred, CallTypes, Named
  <2>3. CallTypes'
    BY <1>0, <2>1, <2>2, GotoTypes, ReturnTypes DEF PCs, Results
  <2>4. OtherTypes'
    BY <1>0, <1>5 DEF StartDeferred, StartAborts, OtherTypes, Statuses
  <2> QED
    BY <2>3, <2>4, TypePartsNext
<1>6. CASE AwaitRunning(c)
  <2>1. Aim(c, NoQuery, "next") \/ Return(c, "error")
    BY <1>6 DEF AwaitRunning, StartAborts
  <2>2. CallTypes'
    BY <1>0, <2>1, AimTypes, ReturnTypes DEF PCs, Results
  <2>3. OtherTypes'
    BY <1>0, <1>6 DEF AwaitRunning, StartAborts, OtherTypes
  <2> QED
    BY <2>2, <2>3, TypePartsNext
<1>7. CASE CoreStop(c)
  <2>1. CallTypes'
    BY <1>0, <1>7, ReturnTypes DEF CoreStop, Results
  <2>2. OtherTypes'
    BY <1>0, <1>7 DEF CoreStop, AllStopped, BeingConfigured, OtherTypes, Statuses
  <2> QED
    BY <2>1, <2>2, TypePartsNext
<1>8. CASE CoreShutdown(c)
  <2>1. CallTypes'
    BY <1>0, <1>8, GotoTypes DEF CoreShutdown, PCs
  <2>2. OtherTypes'
    BY <1>0, <1>8 DEF CoreShutdown, AllStopped, OtherTypes, Statuses
  <2> QED
    BY <2>1, <2>2, TypePartsNext
<1>9. CASE ReleaseWal(c)
  <2>1. CallTypes'
    BY <1>0, <1>9, ReturnTypes DEF ReleaseWal, Results
  <2>2. OtherTypes'
    BY <1>0, <1>9 DEF ReleaseWal, OtherTypes
  <2> QED
    BY <2>1, <2>2, TypePartsNext
<1> QED
  BY <1>1, <1>2, <1>3, <1>4, <1>5, <1>6, <1>7, <1>8, <1>9

LEMMA TypeStep == TypeOK /\ CallInv /\ [Next]_vars => TypeOK'
<1> SUFFICES ASSUME TypeOK, CallInv, [Next]_vars
             PROVE  TypeOK'
  OBVIOUS
<1>1. ASSUME NEW c \in Callers, CallStep(c)
      PROVE  TypeOK'
  BY <1>1, QueryCallTypes, EngineCallTypes DEF CallStep
<1>2. ASSUME NEW c \in Callers, NewCall(c)
      PROVE  TypeOK'
  BY <1>2, NewCallTypes
<1>3. ASSUME NEW q \in Queries, QuerySettles(q)
      PROVE  TypeOK'
  BY <1>3 DEF QuerySettles, TypeOK, Statuses, inner, history
<1>4. CASE UNCHANGED vars
  BY <1>4 DEF vars, TypeOK
<1> QED
  BY <1>1, <1>2, <1>3, <1>4 DEF Next

-----------------------------------------------------------------------------
(* CallInv is inductive: a step moves one call, along the code of that call. *)

Fits(c) ==
    /\ pc[c] = "idle" => call[c] = NoCall
    /\ pc[c] = "check" => call[c].op \in {"add", "update"}
    /\ pc[c] = "note" => call[c].op \in ConfigOps
    /\ call[c].op \in QueryOps => call[c].q \in Queries
    /\ call[c].op \in QueryOps => pc[c] \in {"check", "core", "note"}

\* No other call moves.
OnlyMoves(c) == \A d \in Callers \ {c} : pc'[d] = pc[d] /\ call'[d] = call[d]

LEMMA FitsOneByOne ==
    ASSUME CallInv, NEW c \in Callers, OnlyMoves(c), Fits(c)'
    PROVE  CallInv'
BY DEF CallInv, OnlyMoves, Fits

LEMMA FitsReturn ==
    ASSUME TypeOK, NEW c \in Callers, NEW how, Return(c, how)
    PROVE  OnlyMoves(c) /\ Fits(c)'
BY DEF TypeOK, Return, OnlyMoves, Fits, NoCall, QueryOps, ConfigOps

LEMMA FitsGoto ==
    ASSUME TypeOK, CallInv, NEW c \in Callers, NEW label, Goto(c, label), label # "idle",
           label # "check",
           label = "note" => call[c].op \in ConfigOps,
           call[c].op \in QueryOps => label \in {"core", "note"}
    PROVE  OnlyMoves(c) /\ Fits(c)'
BY DEF TypeOK, CallInv, Goto, OnlyMoves, Fits

LEMMA FitsAim ==
    ASSUME TypeOK, NEW c \in Callers, NEW q, NEW label, Aim(c, q, label),
           call[c].op \notin QueryOps, label \notin {"idle", "check", "note"}
    PROVE  OnlyMoves(c) /\ Fits(c)'
<1>1. call' = [call EXCEPT ![c] = [call[c] EXCEPT !.q = q]]
  BY DEF Aim, TypeOK
<1>2. call'[c].op = call[c].op
  BY <1>1 DEF TypeOK, Call
<1>3. OnlyMoves(c)
  BY <1>1 DEF OnlyMoves, Aim, TypeOK
<1>4. pc'[c] = label
  BY DEF Aim, TypeOK
<1> QED
  BY <1>2, <1>3, <1>4 DEF Fits, QueryOps, ConfigOps

LEMMA CallStepFits ==
    ASSUME TypeOK, CallInv, NEW c \in Callers, CallStep(c)
    PROVE  OnlyMoves(c) /\ Fits(c)'
<1>0. \A op \in QueryOps : op \notin EngineOps /\ ConfigOps \subseteq QueryOps
  BY DEF QueryOps, EngineOps, ConfigOps
<1>1. CASE pc[c] \in {"clone", "next", "startDeferred", "await", "release"}
  <2>1. call[c].op \notin QueryOps
    BY <1>1 DEF CallInv
  <2>2. \/ \E label \in {"next", "startDeferred", "await"} : Goto(c, label)
        \/ \E q \in Queries \cup {NoQuery}, label \in {"next", "startDeferred"} : Aim(c, q, label)
        \/ \E how \in Results : Return(c, how)
    BY <1>1, Zenon
       DEF CallStep, CheckRunning, CoreAddOrUpdate, CoreRemove, NoteDeferred, CoreStartQuery,
           CoreStopQuery, CoreStart, CloneDeferred, NextDeferred, StartDone, StartDeferred,
           AwaitRunning, StartAborts, CoreStop, CoreShutdown, ReleaseWal, Results
  <2> QED
    BY <1>0, <2>1, <2>2, FitsReturn, FitsGoto, FitsAim
<1>2. CASE CheckRunning(c)
  <2>1. call[c].op \in {"add", "update"}
    BY <1>2 DEF CheckRunning, CallInv
  <2> QED
    BY <1>2, <2>1, FitsGoto DEF CheckRunning
<1>3. CASE CoreAddOrUpdate(c) \/ CoreRemove(c)
  <2>1. call[c].op \in ConfigOps
    BY <1>3 DEF CoreAddOrUpdate, CoreRemove, ConfigOps
  <2>2. Return(c, "error") \/ Goto(c, "note")
    BY <1>3 DEF CoreAddOrUpdate, CoreRemove
  <2> QED
    BY <2>1, <2>2, FitsReturn, FitsGoto
<1>4. CASE NoteDeferred(c) \/ CoreStartQuery(c) \/ CoreStopQuery(c) \/ CoreStop(c)
  <2>1. \E how \in Results : Return(c, how)
    BY <1>4 DEF NoteDeferred, CoreStartQuery, CoreStopQuery, CoreStop, Results
  <2> QED
    BY <2>1, FitsReturn
<1>5. CASE CoreStart(c) \/ CoreShutdown(c)
  <2>1. call[c].op \notin QueryOps
    BY <1>5 DEF CoreStart, CoreShutdown, QueryOps
  <2>2. Return(c, "error") \/ Goto(c, "clone") \/ Goto(c, "release")
    BY <1>5 DEF CoreStart, CoreShutdown
  <2> QED
    BY <1>0, <2>1, <2>2, FitsReturn, FitsGoto
<1>6. pc[c] \in {"clone", "next", "startDeferred", "await", "release"} \/ CheckRunning(c)
      \/ CoreAddOrUpdate(c) \/ CoreRemove(c) \/ NoteDeferred(c) \/ CoreStartQuery(c)
      \/ CoreStopQuery(c) \/ CoreStart(c) \/ CoreStop(c) \/ CoreShutdown(c)
  BY DEF CallStep, CloneDeferred, NextDeferred, StartDone, StartDeferred, AwaitRunning, ReleaseWal
<1> QED
  BY <1>1, <1>2, <1>3, <1>4, <1>5, <1>6

LEMMA NewCallFits ==
    ASSUME TypeOK, CallInv, NEW c \in Callers, NewCall(c)
    PROVE  OnlyMoves(c) /\ Fits(c)'
<1>1. ASSUME NEW op \in QueryOps, NEW q \in Queries, NEW auto \in BOOLEAN,
             CallQuery(c, op, q, auto)
      PROVE  OnlyMoves(c) /\ Fits(c)'
  BY <1>1 DEF CallQuery, Enter, TypeOK, OnlyMoves, Fits, ConfigOps
<1>2. ASSUME NEW op \in EngineOps, CallEngine(c, op)
      PROVE  OnlyMoves(c) /\ Fits(c)'
  BY <1>2 DEF CallEngine, Enter, TypeOK, OnlyMoves, Fits, EngineOps, QueryOps
<1>3. ASSUME NEW op \in QueryOps \cup EngineOps, CallClosed(c, op)
      PROVE  OnlyMoves(c) /\ Fits(c)'
  BY <1>3 DEF CallClosed, CallInv, OnlyMoves, Fits
<1>4. CASE CallShutdown(c)
  <2>1. CASE closed
    BY <1>4, <2>1 DEF CallShutdown, CallInv, OnlyMoves, Fits
  <2>2. CASE ~closed
    BY <1>4, <2>2 DEF CallShutdown, TypeOK, OnlyMoves, Fits, QueryOps, NoCall
  <2> QED
    BY <2>1, <2>2
<1> QED
  BY <1>1, <1>2, <1>3, <1>4 DEF NewCall

LEMMA CallInvStep == TypeOK /\ CallInv /\ [Next]_vars => CallInv'
<1> SUFFICES ASSUME TypeOK, CallInv, [Next]_vars
             PROVE  CallInv'
  OBVIOUS
<1>1. ASSUME NEW c \in Callers, CallStep(c) \/ NewCall(c)
      PROVE  CallInv'
  BY <1>1, CallStepFits, NewCallFits, FitsOneByOne
<1>2. ASSUME NEW q \in Queries, QuerySettles(q)
      PROVE  CallInv'
  BY <1>2 DEF QuerySettles, CallInv
<1>3. CASE UNCHANGED vars
  BY <1>3 DEF vars, CallInv
<1> QED
  BY <1>1, <1>2, <1>3 DEF Next

-----------------------------------------------------------------------------
(* ListInv is inductive, whichever callers configure a query. *)

ConfigList == <<config, wants, deferred, defer, clashed>>

\* A step that neither reaches nor leaves the places where the list is decided
\* and noted keeps ListInv if it keeps the registry, the list and the decisions.
LEMMA ListFrame ==
    ASSUME ListInv, NEW c \in Callers, OnlyMoves(c), UNCHANGED ConfigList,
           pc[c] # "note", pc'[c] # "note",
           pc'[c] = "core" => call'[c].op \notin {"add", "update"}
    PROVE  ListInv'
<1>1. \A d \in Callers : Noted(d)' /\ Decided(d)'
  BY DEF ListInv, OnlyMoves, ConfigList, Noted, Decided, Suppressed
<1>2. OneNoter'
  BY DEF ListInv, OneNoter, OnlyMoves, ConfigList
<1>3. ASSUME NEW q \in Queries \ clashed'
      PROVE  \/ q \in deferred' <=> Suppressed(q)'
             \/ \E d \in Callers : pc'[d] = "note" /\ call'[d].q = q
  BY DEF ListInv, OnlyMoves, ConfigList, Suppressed
<1> QED
  BY <1>1, <1>2, <1>3 DEF ListInv

Enters(c) ==
    /\ pc[c] = "idle" /\ pc'[c] \in {"idle", "check", "core"}
    /\ pc'[c] = "core" => call'[c].op \notin {"add", "update"}
    /\ UNCHANGED <<running, shut, config, status, deferred, defer, todo, history>>

\* A new call starts outside the places where the list is decided and noted.
LEMMA NewCallEnters ==
    ASSUME TypeOK, NEW c \in Callers, NewCall(c)
    PROVE  Enters(c)
<1> USE DEF core, inner, history
<1>1. ASSUME NEW op \in QueryOps, NEW q \in Queries, NEW auto \in BOOLEAN,
             CallQuery(c, op, q, auto)
      PROVE  Enters(c)
  BY <1>1 DEF CallQuery, Enter, TypeOK, Enters
<1>2. ASSUME NEW op \in EngineOps, CallEngine(c, op)
      PROVE  Enters(c)
  BY <1>2 DEF CallEngine, Enter, TypeOK, Enters
<1>3. ASSUME NEW op \in QueryOps \cup EngineOps, CallClosed(c, op)
      PROVE  Enters(c)
  BY <1>3 DEF CallClosed, Enters
<1>4. CASE CallShutdown(c)
  BY <1>4 DEF CallShutdown, TypeOK, NoCall, Enters
<1> QED
  BY <1>1, <1>2, <1>3, <1>4 DEF NewCall

LEMMA NewCallList ==
    ASSUME TypeOK, CallInv, ListInv, NEW c \in Callers, NewCall(c)
    PROVE  ListInv'
<1>1. OnlyMoves(c) /\ Enters(c)
  BY NewCallEnters, NewCallFits
<1>2. UNCHANGED ConfigList /\ pc[c] # "note" /\ pc'[c] # "note"
  BY <1>1 DEF Enters, ConfigList, history
<1>3. pc'[c] = "core" => call'[c].op \notin {"add", "update"}
  BY <1>1 DEF Enters
<1> QED
  BY <1>1, <1>2, <1>3, ListFrame

LEMMA CheckRunningList ==
    ASSUME TypeOK, CallInv, ListInv, NEW c \in Callers, CheckRunning(c)
    PROVE  ListInv'
<1>1. OnlyMoves(c) /\ pc'[c] = "core" /\ call' = call
  BY DEF CheckRunning, Goto, OnlyMoves, TypeOK
<1>2. defer'[c] => call[c].auto
  BY DEF CheckRunning, TypeOK
<1>3. \A d \in Callers \ {c} : defer'[d] = defer[d]
  BY DEF CheckRunning, TypeOK
<1>4. UNCHANGED <<config, wants, deferred, clashed>>
  BY DEF CheckRunning, core, inner, history
<1>5. \A d \in Callers : Noted(d)' /\ Decided(d)'
  BY <1>1, <1>2, <1>3, <1>4 DEF ListInv, Noted, Decided, Suppressed, OnlyMoves
<1>6. pc[c] = "check"
  BY DEF CheckRunning
<1>7. OneNoter'
  BY <1>1, <1>4 DEF ListInv, OneNoter, OnlyMoves
<1>8. ASSUME NEW q \in Queries \ clashed'
      PROVE  \/ q \in deferred' <=> Suppressed(q)'
             \/ \E d \in Callers : pc'[d] = "note" /\ call'[d].q = q
  BY <1>1, <1>4, <1>6 DEF ListInv, Suppressed, OnlyMoves
<1> QED
  BY <1>5, <1>7, <1>8 DEF ListInv

\* core.add_query, core.update_query and core.remove_query leave the list for
\* note_deferred to bring up to date: the caller is the only one about to note the
\* query, or the query is clashed over.
LEMMA CoreConfigureList ==
    ASSUME TypeOK, CallInv, ListInv, NEW c \in Callers,
           CoreAddOrUpdate(c) \/ CoreRemove(c)
    PROVE  ListInv'
<1> DEFINE q == call[c].q
<1> USE DEF core, inner, history
<1>1. CASE pc'[c] = "idle"
  <2>1. OnlyMoves(c) /\ UNCHANGED ConfigList
    BY <1>1, CallStepFits
       DEF CoreAddOrUpdate, CoreRemove, Goto, Return, ConfigList, TypeOK, CallStep
  <2>2. pc[c] = "core"
    BY DEF CoreAddOrUpdate, CoreRemove
  <2> QED
    BY <1>1, <2>1, <2>2, ListFrame
<1>2. CASE pc'[c] # "idle"
  <2>1. Goto(c, "note")
    BY <1>2 DEF CoreAddOrUpdate, CoreRemove, Return, TypeOK
  <2>2. pc[c] = "core" /\ pc'[c] = "note" /\ call' = call /\ OnlyMoves(c) /\ deferred' = deferred
    BY <2>1 DEF CoreAddOrUpdate, CoreRemove, Goto, OnlyMoves, TypeOK
  <2>3. call[c].op \in ConfigOps /\ q \in Queries
    BY <2>2 DEF CoreAddOrUpdate, CoreRemove, ConfigOps, CallInv, QueryOps
  <2>4. /\ \A p \in Queries \ {q} : p \in clashed' <=> p \in clashed
        /\ q \notin clashed' => \A d \in Callers \ {c} : pc[d] = "note" => call[d].q # q
    BY <1>2 DEF CoreAddOrUpdate, CoreRemove, NoteClash, Return, TypeOK
  <2>5. \A p \in Queries \ {q} : config'[p] = config[p] /\ wants'[p] = wants[p]
    BY <1>2 DEF CoreAddOrUpdate, CoreRemove, Configure, Return, TypeOK
  <2>6. defer'[c] <=> Suppressed(q)'
    <3>1. CASE CoreAddOrUpdate(c)
      <4>1. wants'[q] = call[c].auto
        BY <2>3, <3>1, <1>2 DEF CoreAddOrUpdate, Return, TypeOK
      <4>2. config'[q] = IF call[c].auto /\ ~defer[c] THEN "auto" ELSE "manual"
        BY <2>3, <3>1, <1>2 DEF CoreAddOrUpdate, Configure, Return, TypeOK
      <4>3. defer[c] => call[c].auto
        BY <3>1 DEF CoreAddOrUpdate, ListInv, Decided
      <4>4. defer' = defer
        BY <3>1 DEF CoreAddOrUpdate
      <4>5. defer[c] \in BOOLEAN /\ call[c].auto \in BOOLEAN
        BY DEF TypeOK, Call
      <4> QED
        BY <2>2, <4>1, <4>2, <4>3, <4>4, <4>5 DEF Suppressed
    <3>2. CASE CoreRemove(c)
      <4>1. defer'[c] = FALSE /\ config'[q] = "none"
        BY <2>3, <3>2, <1>2 DEF CoreRemove, Return, TypeOK
      <4> QED
        BY <2>2, <4>1 DEF Suppressed
    <3> QED
      BY <3>1, <3>2
  <2>7. \A d \in Callers \ {c} : defer'[d] = defer[d]
    BY DEF CoreAddOrUpdate, CoreRemove, TypeOK
  <2>8. ASSUME NEW d \in Callers
        PROVE  Noted(d)' /\ Decided(d)'
    <3>1. CASE d = c
      BY <3>1, <2>2, <2>6 DEF Noted, Decided
    <3>2. CASE d # c
      <4>1. pc'[d] = "note" => call[d].q \in Queries
        BY <3>2, <2>2 DEF OnlyMoves, CallInv, ConfigOps, QueryOps
      <4>2. Noted(d)'
        BY <3>2, <4>1, <2>2, <2>4, <2>5, <2>7 DEF Noted, ListInv, Suppressed, OnlyMoves
      <4>3. Decided(d)'
        BY <3>2, <2>2, <2>7 DEF Decided, ListInv, OnlyMoves
      <4> QED
        BY <4>2, <4>3
    <3> QED
      BY <3>1, <3>2
  <2>9. OneNoter'
    <3> SUFFICES ASSUME NEW d \in Callers, NEW e \in Callers, d # e, pc'[d] = "note",
                        pc'[e] = "note", call'[d].q = call'[e].q
                 PROVE  call'[d].q \in clashed'
      BY DEF OneNoter
    <3>1. CASE call[d].q = q
      BY <3>1, <2>2, <2>4 DEF OnlyMoves
    <3>2. CASE call[d].q # q
      <4>1. d # c /\ e # c /\ pc[d] = "note" /\ pc[e] = "note"
        BY <3>2, <2>2 DEF OnlyMoves
      <4>2. call[d].q \in Queries /\ call[d].q \in clashed
        BY <4>1, <2>2 DEF CallInv, ConfigOps, QueryOps, ListInv, OneNoter
      <4> QED
        BY <3>2, <4>2, <2>2, <2>4
    <3> QED
      BY <3>1, <3>2
  <2>10. ASSUME NEW p \in Queries \ clashed'
         PROVE  \/ p \in deferred' <=> Suppressed(p)'
                \/ \E d \in Callers : pc'[d] = "note" /\ call'[d].q = p
    <3>1. CASE p = q
      BY <3>1, <2>2
    <3>2. CASE p # q
      BY <3>2, <2>2, <2>4, <2>5 DEF ListInv, Suppressed, OnlyMoves
    <3> QED
      BY <3>1, <3>2
  <2> QED
    BY <2>8, <2>9, <2>10 DEF ListInv
<1> QED
  BY <1>1, <1>2

LEMMA NoteDeferredList ==
    ASSUME TypeOK, CallInv, ListInv, NEW c \in Callers, NoteDeferred(c)
    PROVE  ListInv'
<1> DEFINE q == call[c].q
<1> USE DEF core, inner, history
<1>1. pc[c] = "note" /\ pc'[c] = "idle" /\ OnlyMoves(c)
      /\ UNCHANGED <<config, wants, defer, clashed>>
  BY FitsReturn DEF NoteDeferred, Return, TypeOK
<1>2. \A d \in Callers : Noted(d)' /\ Decided(d)'
  BY <1>1 DEF ListInv, Noted, Decided, Suppressed, OnlyMoves
<1>3. q \notin clashed => (q \in deferred' <=> config'[q] = "manual" /\ wants'[q])
  <2>1. q \in deferred' <=> defer[c]
    BY DEF NoteDeferred, TypeOK
  <2>2. q \notin clashed => (defer[c] <=> Suppressed(q))
    BY <1>1 DEF ListInv, Noted
  <2> QED
    BY <1>1, <2>1, <2>2 DEF Suppressed
<1>4. OneNoter'
  BY <1>1 DEF ListInv, OneNoter, OnlyMoves
<1>5. ASSUME NEW p \in Queries \ clashed'
      PROVE  \/ p \in deferred' <=> Suppressed(p)'
             \/ \E d \in Callers : pc'[d] = "note" /\ call'[d].q = p
  <2>1. CASE p = q
    BY <1>1, <2>1, <1>3 DEF Suppressed
  <2>2. CASE p # q
    <3>1. p \in deferred' <=> p \in deferred
      BY <2>2 DEF NoteDeferred
    <3> QED
      BY <2>2, <3>1, <1>1 DEF ListInv, Suppressed, OnlyMoves
  <2> QED
    BY <2>1, <2>2
<1> QED
  BY <1>2, <1>4, <1>5 DEF ListInv

LEMMA ListInvStep == TypeOK /\ CallInv /\ ListInv /\ [Next]_vars => ListInv'
<1> SUFFICES ASSUME TypeOK, CallInv, ListInv, [Next]_vars
             PROVE  ListInv'
  OBVIOUS
<1> USE DEF core, inner, history
<1>1. ASSUME NEW c \in Callers, NewCall(c)
      PROVE  ListInv'
  BY <1>1, NewCallList
<1>2. ASSUME NEW c \in Callers, CallStep(c)
      PROVE  ListInv'
  <2>1. CASE CheckRunning(c) \/ NoteDeferred(c) \/ CoreAddOrUpdate(c) \/ CoreRemove(c)
    BY <2>1, CheckRunningList, NoteDeferredList, CoreConfigureList
  <2>2. CASE ~(CheckRunning(c) \/ NoteDeferred(c) \/ CoreAddOrUpdate(c) \/ CoreRemove(c))
    <3>1. UNCHANGED ConfigList /\ pc[c] # "note"
      BY <1>2, <2>2
         DEF CallStep, CoreStartQuery, CoreStopQuery, CoreStart, CloneDeferred, NextDeferred,
             StartDone, StartDeferred, AwaitRunning, StartAborts, CoreStop, CoreShutdown,
             ReleaseWal, ConfigList
    <3>2. \/ \E label \in {"clone", "next", "startDeferred", "await", "release"} :
                  pc' = [pc EXCEPT ![c] = label]
          \/ pc' = [pc EXCEPT ![c] = "idle"]
      BY <1>2, <2>2
         DEF CallStep, CoreStartQuery, CoreStopQuery, CoreStart, CloneDeferred, NextDeferred,
             StartDone, StartDeferred, AwaitRunning, StartAborts, CoreStop, CoreShutdown,
             ReleaseWal, Goto, Return, Aim
    <3>3. pc'[c] \notin {"note", "core"}
      BY <3>2 DEF TypeOK
    <3> QED
      BY <1>2, <3>1, <3>3, CallStepFits, ListFrame
  <2> QED
    BY <2>1, <2>2
<1>3. ASSUME NEW q \in Queries, QuerySettles(q)
      PROVE  ListInv'
  BY <1>3 DEF QuerySettles, ListInv, OneNoter, Noted, Decided, Suppressed
<1>4. CASE UNCHANGED vars
  BY <1>4 DEF vars, ListInv, OneNoter, Noted, Decided, Suppressed
<1> QED
  BY <1>1, <1>2, <1>3, <1>4 DEF Next

-----------------------------------------------------------------------------
(* Nothing starts early: what a stopped engine knows of its queries *)

InLoop(c) == pc[c] \in {"clone", "next", "startDeferred", "await"}

\* A caller about to hand over an auto-start query looked at a running engine.
LookedEarlier(c) ==
    pc[c] = "core" /\ call[c].op \in {"add", "update"} /\ call[c].auto /\ ~defer[c]

StaysStopped ==
    ~running =>
        /\ \A q \in Queries \ (touched \cup raced) : status[q] = "stopped"
        /\ ~shut /\ (\E c \in Callers : InLoop(c)) => raced = Queries
        /\ ~shut => \A c \in Callers : LookedEarlier(c) => call[c].q \in raced

\* A step of one call that starts no query but those accounted for
LEMMA StoppedFrame ==
    ASSUME StaysStopped, NEW c \in Callers, OnlyMoves(c), UNCHANGED <<running, shut, raced>>,
           pc'[c] \in {"clone", "next", "startDeferred", "await"} => InLoop(c),
           \A d \in Callers \ {c} : defer'[d] = defer[d],
           ~running => ~(pc'[c] = "core" /\ call'[c].op \in {"add", "update"}
                            /\ call'[c].auto /\ ~defer'[c]),
           ~running => \A q \in Queries \ (touched' \cup raced) : status'[q] = "stopped"
    PROVE  StaysStopped'
BY DEF StaysStopped, OnlyMoves, InLoop, LookedEarlier

LEMMA StoppedQueryCall ==
    ASSUME TypeOK, CallInv, StaysStopped, NEW c \in Callers, OnlyMoves(c),
           \/ CheckRunning(c) \/ CoreAddOrUpdate(c) \/ CoreRemove(c) \/ NoteDeferred(c)
           \/ CoreStartQuery(c) \/ CoreStopQuery(c)
    PROVE  StaysStopped'
<1> DEFINE q == call[c].q
<1> USE DEF core, inner, history
<1>0. UNCHANGED <<running, shut, raced>> /\ \A d \in Callers \ {c} : defer'[d] = defer[d]
  BY DEF CheckRunning, CoreAddOrUpdate, CoreRemove, NoteDeferred, CoreStartQuery, CoreStopQuery,
         TypeOK
<1>1. CASE CheckRunning(c)
  <2>1. pc'[c] = "core" /\ defer'[c] = (call'[c].auto /\ ~running)
    BY <1>1 DEF CheckRunning, Goto, TypeOK
  <2>2. UNCHANGED <<status, touched>>
    BY <1>1 DEF CheckRunning
  <2>3. call'[c].auto \in BOOLEAN
    BY <1>1 DEF CheckRunning, Goto, TypeOK, Call
  <2>4. ~running => \A p \in Queries \ (touched' \cup raced) : status'[p] = "stopped"
    BY <2>2 DEF StaysStopped
  <2> QED
    BY <1>0, <2>1, <2>3, <2>4, StoppedFrame
<1>2. ASSUME ~CheckRunning(c)
      PROVE  pc'[c] \in {"note", "idle"}
  BY <1>2 DEF CoreAddOrUpdate, CoreRemove, NoteDeferred, CoreStartQuery, CoreStopQuery, Goto,
              Return, TypeOK
<1>3. CASE CoreAddOrUpdate(c)
  <2>1. ASSUME ~running, NEW p \in Queries \ (touched' \cup raced)
        PROVE  status'[p] = "stopped"
    <3>1. CASE UNCHANGED <<status, touched>>
      BY <2>1, <3>1 DEF StaysStopped
    <3>2. CASE ~shut /\ Configure(q, call[c].auto /\ ~defer[c])
               /\ touched' = IF status[q] = "stopped" THEN touched \ {q} ELSE touched
      <4>1. CASE p # q
        BY <2>1, <3>2, <4>1 DEF StaysStopped, Configure, TypeOK
      <4>2. CASE p = q
        <5>1. ~(call[c].auto /\ ~defer[c])
          BY <1>3, <2>1, <3>2, <4>2 DEF CoreAddOrUpdate, StaysStopped, LookedEarlier
        <5>2. status[q] = "stopped"
          BY <2>1, <3>2, <4>2 DEF StaysStopped
        <5> QED
          BY <3>2, <4>2, <5>1, <5>2 DEF Configure, TypeOK
      <4> QED
        BY <4>1, <4>2
    <3> QED
      BY <1>3, <3>1, <3>2 DEF CoreAddOrUpdate
  <2> QED
    BY <1>0, <1>2, <1>3, <2>1, StoppedFrame DEF CoreAddOrUpdate, CheckRunning
<1>4. CASE CoreRemove(c)
  <2>1. ASSUME ~running, NEW p \in Queries \ (touched' \cup raced)
        PROVE  status'[p] = "stopped"
    BY <1>4, <2>1 DEF CoreRemove, StaysStopped, TypeOK
  <2> QED
    BY <1>0, <1>2, <1>4, <2>1, StoppedFrame DEF CoreRemove, CheckRunning
<1>5. CASE NoteDeferred(c)
  <2>1. ASSUME ~running, NEW p \in Queries \ (touched' \cup raced)
        PROVE  status'[p] = "stopped"
    BY <1>5, <2>1 DEF NoteDeferred, StaysStopped
  <2> QED
    BY <1>0, <1>2, <1>5, <2>1, StoppedFrame DEF NoteDeferred, CheckRunning
<1>6. CASE CoreStartQuery(c) \/ CoreStopQuery(c)
  <2>1. ASSUME ~running, NEW p \in Queries \ (touched' \cup raced)
        PROVE  status'[p] = "stopped"
    BY <1>6, <2>1 DEF CoreStartQuery, CoreStopQuery, StaysStopped, TypeOK
  <2> QED
    BY <1>0, <1>2, <1>6, <2>1, StoppedFrame DEF CoreStartQuery, CoreStopQuery, CheckRunning
<1> QED
  BY <1>1, <1>3, <1>4, <1>5, <1>6

LEMMA StoppedEngineCall ==
    ASSUME TypeOK, CallInv, StaysStopped, NEW c \in Callers, OnlyMoves(c),
           \/ CoreStart(c) \/ CloneDeferred(c) \/ (\E q \in Queries : NextDeferred(c, q))
           \/ StartDone(c) \/ StartDeferred(c) \/ AwaitRunning(c)
           \/ CoreStop(c) \/ CoreShutdown(c) \/ ReleaseWal(c)
    PROVE  StaysStopped'
<1> USE DEF core, inner, history
<1>1. CASE CoreStart(c) /\ running' # running
  BY <1>1 DEF CoreStart, StaysStopped
<1>2. CASE CoreStop(c) /\ running' # running
  <2>1. ~running' /\ AllStopped /\ shut' = shut /\ defer' = defer
        /\ raced' = (IF Starting = {} THEN BeingConfigured ELSE Queries)
        /\ pc[c] = "core" /\ pc'[c] = "idle"
    BY <1>2 DEF CoreStop, Return, TypeOK
  <2>2. \A d \in Callers : pc'[d] \in {"clone", "next", "startDeferred", "await"}
                            => d \in Starting
    BY <2>1 DEF OnlyMoves, Starting
  <2>3. ASSUME NEW d \in Callers, pc'[d] = "core", call'[d].op \in {"add", "update"}
        PROVE  call'[d].q \in BeingConfigured
    <3>1. d # c
      BY <2>1, <2>3
    <3>2. pc[d] = "core" /\ call'[d] = call[d]
      BY <2>3, <3>1 DEF OnlyMoves
    <3>3. call[d].q \in Queries
      BY <2>3, <3>2, QueryNamed, TypeParts DEF QueryOps
    <3> QED
      BY <2>3, <3>2, <3>3 DEF BeingConfigured
  <2>4. BeingConfigured \subseteq Queries
    BY DEF BeingConfigured
  <2> QED
    BY <2>1, <2>2, <2>3, <2>4 DEF StaysStopped, AllStopped, InLoop, LookedEarlier
<1>3. CASE CoreShutdown(c)
  BY <1>3 DEF CoreShutdown, AllStopped, StaysStopped
<1>4. CASE ~(CoreStart(c) /\ running' # running) /\ ~(CoreStop(c) /\ running' # running)
           /\ ~CoreShutdown(c)
  <2>1. UNCHANGED <<running, shut, raced, touched, defer>>
    BY <1>4 DEF CoreStart, CloneDeferred, NextDeferred, StartDone, StartDeferred, AwaitRunning,
                CoreStop, ReleaseWal, TypeOK
  <2>2. pc'[c] # "core"
    BY <1>4 DEF CoreStart, CloneDeferred, NextDeferred, StartDone, StartDeferred, AwaitRunning,
                StartAborts, CoreStop, ReleaseWal, Goto, Return, Aim, TypeOK
  <2>3. pc'[c] \in {"clone", "next", "startDeferred", "await"} => InLoop(c)
    BY <1>4 DEF CoreStart, CloneDeferred, NextDeferred, StartDone, StartDeferred, AwaitRunning,
                CoreStop, ReleaseWal, Return, InLoop, TypeOK
  <2>4. ASSUME ~running, NEW p \in Queries \ (touched' \cup raced)
        PROVE  status'[p] = "stopped"
    <3>1. CASE status' = status
      BY <2>1, <2>4, <3>1 DEF StaysStopped
    <3>2. CASE status' # status
      <4>1. InLoop(c) /\ ~shut
        BY <1>4, <3>2 DEF CoreStart, CloneDeferred, NextDeferred, StartDone, StartDeferred,
                          AwaitRunning, CoreStop, ReleaseWal, InLoop
      <4> QED
        BY <2>4, <4>1 DEF StaysStopped
    <3> QED
      BY <3>1, <3>2
  <2> QED
    BY <2>1, <2>2, <2>3, <2>4, StoppedFrame
<1> QED
  BY <1>1, <1>2, <1>3, <1>4

LEMMA StaysStoppedStep ==
    TypeOK /\ CallInv /\ StaysStopped /\ [Next]_vars => StaysStopped'
<1> SUFFICES ASSUME TypeOK, CallInv, StaysStopped, [Next]_vars
             PROVE  StaysStopped'
  OBVIOUS
<1> USE DEF core, inner, history
<1>1. ASSUME NEW c \in Callers, CallStep(c)
      PROVE  StaysStopped'
  BY <1>1, CallStepFits, StoppedQueryCall, StoppedEngineCall DEF CallStep
<1>2. ASSUME NEW c \in Callers, NewCall(c)
      PROVE  StaysStopped'
  <2>1. Enters(c) /\ OnlyMoves(c)
    BY <1>2, NewCallEnters, NewCallFits
  <2>2. ~running => \A q \in Queries \ (touched' \cup raced) : status'[q] = "stopped"
    BY <2>1 DEF Enters, StaysStopped
  <2> QED
    BY <2>1, <2>2, StoppedFrame DEF Enters
<1>3. ASSUME NEW q \in Queries, QuerySettles(q)
      PROVE  StaysStopped'
  BY <1>3 DEF QuerySettles, StaysStopped, InLoop, LookedEarlier, TypeOK
<1>4. CASE UNCHANGED vars
  BY <1>4 DEF vars, StaysStopped, InLoop, LookedEarlier
<1> QED
  BY <1>1, <1>2, <1>3, <1>4 DEF Next

-----------------------------------------------------------------------------
(* What is due is started: where a start stands with the queries it owes *)

Unregistered == \A q \in Queries : config[q] = "none" => ~wants[q]

\* In a running engine a decision to defer is one the start may have overtaken,
\* and a removal has none.
Overtaken(c) ==
    running /\ pc[c] \in {"core", "note"} /\ call[c].op \in {"add", "update"} /\ defer[c]
        => call[c].q \in raced

Decisions ==
    \A c \in Callers : Overtaken(c) /\ (pc[c] = "note" /\ call[c].op = "remove" => ~defer[c])

\* The start still owes the query: its list is to be cloned, holds the query, or
\* the loop is about to start it; a start that failed owes it for good.
Pending(q) ==
    /\ ~startedOk
    /\ InLoop(starter) => \/ pc[starter] = "clone" \/ q \in todo[starter]
                          \/ pc[starter] = "startDeferred" /\ call[starter].q = q

Due(q) == q \in Queries \ (touched \cup raced \cup clashed) /\ wants[q] /\ status[q] = "stopped"

Started ==
    running => starter \in Callers
               /\ \A q \in Queries : Due(q) => config[q] = "manual" /\ Pending(q)

LEMMA RegistryStep ==
    TypeOK /\ CallInv /\ Unregistered /\ [Next]_vars => Unregistered'
<1> SUFFICES ASSUME TypeOK, CallInv, Unregistered, [Next]_vars
             PROVE  Unregistered'
  OBVIOUS
<1> USE DEF core, inner, history
<1>1. ASSUME NEW c \in Callers, CoreAddOrUpdate(c) \/ CoreRemove(c)
      PROVE  Unregistered'
  BY <1>1 DEF CoreAddOrUpdate, CoreRemove, Configure, Unregistered, TypeOK
<1>2. CASE UNCHANGED <<config, wants>>
  BY <1>2 DEF Unregistered
<1>3. ASSUME NEW c \in Callers, NewCall(c)
      PROVE  UNCHANGED <<config, wants>>
  BY <1>3, NewCallEnters DEF Enters
<1>4. ASSUME NEW c \in Callers, CallStep(c), ~CoreAddOrUpdate(c), ~CoreRemove(c)
      PROVE  UNCHANGED <<config, wants>>
  BY <1>4 DEF CallStep, CheckRunning, NoteDeferred, CoreStartQuery, CoreStopQuery, CoreStart,
              CloneDeferred, NextDeferred, StartDone, StartDeferred, AwaitRunning, CoreStop,
              CoreShutdown, ReleaseWal
<1> QED
  BY <1>1, <1>2, <1>3, <1>4 DEF Next, QuerySettles, vars

LEMMA DecisionsFrame ==
    ASSUME Decisions, NEW c \in Callers, OnlyMoves(c), UNCHANGED <<running, raced>>,
           \A d \in Callers \ {c} : defer'[d] = defer[d],
           Overtaken(c)', pc'[c] = "note" /\ call'[c].op = "remove" => ~defer'[c]
    PROVE  Decisions'
BY DEF Decisions, Overtaken, OnlyMoves

LEMMA DecisionsStep ==
    TypeOK /\ CallInv /\ Decisions /\ [Next]_vars => Decisions'
<1> SUFFICES ASSUME TypeOK, CallInv, Decisions, [Next]_vars
             PROVE  Decisions'
  OBVIOUS
<1> USE DEF core, inner, history
<1>1. ASSUME NEW c \in Callers, NewCall(c)
      PROVE  Decisions'
  <2>1. Enters(c) /\ OnlyMoves(c)
    BY <1>1, NewCallEnters, NewCallFits
  <2>2. UNCHANGED <<running, raced, defer>>
    BY <2>1 DEF Enters
  <2>3. Overtaken(c)' /\ pc'[c] # "note"
    BY <2>1 DEF Enters, Overtaken
  <2> QED
    BY <2>1, <2>2, <2>3, DecisionsFrame
<1>2. ASSUME NEW c \in Callers, CallStep(c)
      PROVE  Decisions'
  <2>0. OnlyMoves(c)
    BY <1>2, CallStepFits
  <2>1. CASE CoreStart(c) /\ running' # running
    <3>1. raced' = BeingConfigured /\ defer' = defer /\ pc'[c] = "clone"
      BY <2>1 DEF CoreStart, Goto, Return, TypeOK
    <3>2. ASSUME NEW d \in Callers, pc'[d] \in {"core", "note"},
                 call'[d].op \in {"add", "update"}
          PROVE  call'[d].q \in BeingConfigured
      <4>1. d # c
        BY <3>1, <3>2
      <4>2. pc[d] = pc'[d] /\ call[d] = call'[d]
        BY <2>0, <4>1 DEF OnlyMoves
      <4>3. call[d].q \in Queries
        BY <3>2, <4>2, QueryNamed, TypeParts DEF QueryOps
      <4> QED
        BY <3>2, <4>2, <4>3 DEF BeingConfigured
    <3>3. \A d \in Callers : pc'[d] = "note" => pc[d] = "note" /\ call'[d] = call[d]
      BY <2>0, <3>1 DEF OnlyMoves
    <3> QED
      BY <3>1, <3>2, <3>3 DEF Decisions, Overtaken
  <2>2. CASE CoreStop(c) \/ CoreShutdown(c)
    <3>1. defer' = defer /\ pc'[c] \in {"idle", "release"}
      BY <2>2 DEF CoreStop, CoreShutdown, Goto, Return, TypeOK
    <3>2. \A d \in Callers : pc'[d] = "note" => pc[d] = "note" /\ call'[d] = call[d]
      BY <2>0, <3>1 DEF OnlyMoves
    <3>3. ASSUME running'
          PROVE  UNCHANGED <<running, raced>>
      BY <2>2, <3>3 DEF CoreStop, CoreShutdown
    <3>4. \A d \in Callers : Overtaken(d)'
      BY <2>0, <3>1, <3>3 DEF Decisions, Overtaken, OnlyMoves
    <3> QED
      BY <3>1, <3>2, <3>4 DEF Decisions
  <2>3. CASE CheckRunning(c)
    <3>1. UNCHANGED <<running, raced>> /\ \A d \in Callers \ {c} : defer'[d] = defer[d]
      BY <2>3 DEF CheckRunning, TypeOK
    <3>2. pc'[c] = "core" /\ defer'[c] = (call'[c].auto /\ ~running)
      BY <2>3 DEF CheckRunning, Goto, TypeOK
    <3>3. Overtaken(c)'
      BY <3>1, <3>2 DEF Overtaken
    <3> QED
      BY <2>0, <3>1, <3>2, <3>3, DecisionsFrame
  <2>4. CASE CoreAddOrUpdate(c)
    <3>1. UNCHANGED <<running, raced, defer>> /\ pc[c] = "core"
          /\ call[c].op \in {"add", "update"}
      BY <2>4 DEF CoreAddOrUpdate
    <3>2. pc'[c] = "idle" \/ (pc'[c] = "note" /\ call'[c] = call[c])
      BY <2>4 DEF CoreAddOrUpdate, Goto, Return, TypeOK
    <3>3. Overtaken(c)' /\ (pc'[c] = "note" => call'[c].op # "remove")
      BY <3>1, <3>2 DEF Decisions, Overtaken
    <3> QED
      BY <2>0, <3>1, <3>3, DecisionsFrame
  <2>5. CASE CoreRemove(c)
    <3>1. UNCHANGED <<running, raced>> /\ \A d \in Callers \ {c} : defer'[d] = defer[d]
      BY <2>5 DEF CoreRemove, TypeOK
    <3>2. pc'[c] = "idle" \/ (pc'[c] = "note" /\ call'[c].op = "remove" /\ ~defer'[c])
      BY <2>5 DEF CoreRemove, Goto, Return, TypeOK
    <3>3. Overtaken(c)'
      BY <3>2 DEF Overtaken
    <3> QED
      BY <2>0, <3>1, <3>2, <3>3, DecisionsFrame
  <2>6. CASE ~(CoreStart(c) /\ running' # running) /\ ~CoreStop(c) /\ ~CoreShutdown(c)
             /\ ~CheckRunning(c) /\ ~CoreAddOrUpdate(c) /\ ~CoreRemove(c)
    <3>1. UNCHANGED <<running, raced, defer>>
      BY <1>2, <2>6
         DEF CallStep, NoteDeferred, CoreStartQuery, CoreStopQuery, CoreStart, CloneDeferred,
             NextDeferred, StartDone, StartDeferred, AwaitRunning, ReleaseWal, TypeOK
    <3>2. pc'[c] \notin {"core", "note"}
      BY <1>2, <2>6
         DEF CallStep, NoteDeferred, CoreStartQuery, CoreStopQuery, CoreStart, CloneDeferred,
             NextDeferred, StartDone, StartDeferred, AwaitRunning, StartAborts, ReleaseWal,
             Goto, Return, Aim, TypeOK
    <3>3. Overtaken(c)'
      BY <3>2 DEF Overtaken
    <3> QED
      BY <2>0, <3>1, <3>2, <3>3, DecisionsFrame
  <2> QED
    BY <2>1, <2>2, <2>3, <2>4, <2>5, <2>6
<1>3. ASSUME NEW q \in Queries, QuerySettles(q)
      PROVE  Decisions'
  BY <1>3 DEF QuerySettles, Decisions, Overtaken
<1>4. CASE UNCHANGED vars
  BY <1>4 DEF vars, Decisions, Overtaken
<1> QED
  BY <1>1, <1>2, <1>3, <1>4 DEF Next

\* A step of one call that ends or begins outside the loop, and makes no query due
LEMMA StartedFrame ==
    ASSUME Started, NEW c \in Callers, OnlyMoves(c), UNCHANGED <<running, starter, startedOk>>,
           pc'[c] \notin {"clone", "next", "startDeferred", "await"},
           \A d \in Callers \ {c} : todo'[d] = todo[d],
           running => \A q \in Queries : Due(q)' => Due(q) /\ config'[q] = config[q]
    PROVE  Started'
<1>1. CASE ~running
  BY <1>1 DEF Started
<1>2. CASE running
  <2>1. starter \in Callers
    BY <1>2 DEF Started
  <2>2. ASSUME NEW q \in Queries, Due(q)'
        PROVE  config'[q] = "manual" /\ Pending(q)'
    <3>1. config'[q] = "manual" /\ Pending(q)
      BY <1>2, <2>2 DEF Started
    <3>2. CASE starter = c
      BY <3>1, <3>2 DEF Pending, InLoop
    <3>3. CASE starter # c
      BY <2>1, <3>1, <3>3 DEF Pending, InLoop, OnlyMoves
    <3> QED
      BY <3>1, <3>2, <3>3
  <2> QED
    BY <2>1, <2>2 DEF Started
<1> QED
  BY <1>1, <1>2

\* A step of the loop of a start
LEMMA LoopFrame ==
    ASSUME Started, NEW c \in Callers, OnlyMoves(c), UNCHANGED <<running, starter, config>>,
           starter # c => startedOk' = startedOk,
           \A d \in Callers \ {c} : todo'[d] = todo[d],
           running => \A q \in Queries : Due(q)' => Due(q),
           running /\ starter = c => \A q \in Queries : Due(q)' => Pending(q)'
    PROVE  Started'
<1>1. CASE ~running
  BY <1>1 DEF Started
<1>2. CASE running
  <2>1. starter \in Callers
    BY <1>2 DEF Started
  <2>2. ASSUME NEW q \in Queries, Due(q)'
        PROVE  config'[q] = "manual" /\ Pending(q)'
    <3>1. config[q] = "manual" /\ Pending(q)
      BY <1>2, <2>2 DEF Started
    <3>2. CASE starter = c
      BY <1>2, <2>2, <3>1, <3>2
    <3>3. CASE starter # c
      BY <2>1, <3>1, <3>3 DEF Pending, InLoop, OnlyMoves
    <3> QED
      BY <3>1, <3>2, <3>3
  <2> QED
    BY <2>1, <2>2 DEF Started
<1> QED
  BY <1>1, <1>2

LEMMA StartedQueryCall ==
    ASSUME TypeOK, CallInv, Decisions, Started, NEW c \in Callers, OnlyMoves(c),
           \/ CheckRunning(c) \/ CoreAddOrUpdate(c) \/ CoreRemove(c) \/ NoteDeferred(c)
           \/ CoreStartQuery(c) \/ CoreStopQuery(c)
    PROVE  Started'
<1> DEFINE q == call[c].q
<1> USE DEF core, inner, history
<1>1. UNCHANGED <<running, raced, starter, startedOk, todo>>
  BY DEF CheckRunning, CoreAddOrUpdate, CoreRemove, NoteDeferred, CoreStartQuery, CoreStopQuery
<1>2. pc'[c] \notin {"clone", "next", "startDeferred", "await"}
  BY DEF CheckRunning, CoreAddOrUpdate, CoreRemove, NoteDeferred, CoreStartQuery, CoreStopQuery,
         Goto, Return, TypeOK
<1>3. ASSUME running, NEW p \in Queries, Due(p)'
      PROVE  Due(p) /\ config'[p] = config[p]
  <2>1. CASE UNCHANGED <<config, status, wants, touched, clashed>>
    BY <1>1, <1>3, <2>1 DEF Due
  <2>2. CASE CoreAddOrUpdate(c) /\ ~UNCHANGED <<config, status, wants, touched, clashed>>
    <3>1. /\ Configure(q, call[c].auto /\ ~defer[c])
          /\ wants' = [wants EXCEPT ![q] = call[c].auto]
          /\ touched' = IF status[q] = "stopped" THEN touched \ {q} ELSE touched
          /\ NoteClash(c)
      BY <2>2 DEF CoreAddOrUpdate
    <3>2. p # q
      <4>1. SUFFICES ASSUME p = q PROVE FALSE
        OBVIOUS
      <4>2. call[c].auto
        BY <1>3, <3>1, <4>1 DEF Due, TypeOK
      <4>3. defer[c]
        BY <1>3, <3>1, <4>1, <4>2 DEF Due, Configure, TypeOK
      <4>4. q \in raced
        BY <1>3, <2>2, <4>3 DEF CoreAddOrUpdate, Decisions, Overtaken
      <4> QED
        BY <1>1, <1>3, <4>1, <4>4 DEF Due
    <3>3. UNCHANGED <<config[p], status[p], wants[p]>> /\ (p \in touched => p \in touched')
          /\ (p \in clashed => p \in clashed')
      BY <3>1, <3>2 DEF Configure, NoteClash, TypeOK
    <3> QED
      BY <1>1, <1>3, <3>3 DEF Due
  <2>3. CASE CoreRemove(c) /\ ~UNCHANGED <<config, status, wants, touched, clashed>>
    <3>1. /\ config' = [config EXCEPT ![q] = "none"]
          /\ status' = [status EXCEPT ![q] = "stopped"]
          /\ wants' = [wants EXCEPT ![q] = FALSE]
          /\ touched' = touched \ {q}
          /\ NoteClash(c)
      BY <2>3 DEF CoreRemove
    <3>2. p # q
      BY <1>3, <3>1 DEF Due, TypeOK
    <3>3. UNCHANGED <<config[p], status[p], wants[p]>> /\ (p \in touched => p \in touched')
          /\ (p \in clashed => p \in clashed')
      BY <3>1, <3>2 DEF NoteClash, TypeOK
    <3> QED
      BY <1>1, <1>3, <3>3 DEF Due
  <2>4. CASE CoreStartQuery(c) \/ CoreStopQuery(c)
    <3>1. UNCHANGED <<config, wants, clashed>>
      BY <2>4 DEF CoreStartQuery, CoreStopQuery
    <3>2. touched \subseteq touched' /\ (p \notin touched' => status'[p] = status[p])
      BY <2>4 DEF CoreStartQuery, CoreStopQuery, TypeOK
    <3> QED
      BY <1>1, <1>3, <3>1, <3>2 DEF Due
  <2>5. CASE CheckRunning(c) \/ NoteDeferred(c)
    BY <1>1, <1>3, <2>5 DEF CheckRunning, NoteDeferred, Due
  <2> QED
    BY <2>1, <2>2, <2>3, <2>4, <2>5
<1> QED
  BY <1>1, <1>2, <1>3, StartedFrame

\* The clone of the deferred list holds every query the start owes: one still on
\* its way to the list is in `raced'.
LEMMA CloneHoldsDue ==
    ASSUME TypeOK, CallInv, ListInv, Decisions, Started, running, NEW q \in Queries, Due(q)
    PROVE  q \in deferred
<1>1. q \notin clashed /\ q \notin raced /\ Suppressed(q)
  BY DEF Started, Due, Suppressed
<1>2. ASSUME NEW d \in Callers, pc[d] = "note", call[d].q = q
      PROVE  FALSE
  <2>1. defer[d]
    BY <1>1, <1>2 DEF ListInv, Noted
  <2>2. call[d].op \in {"add", "update"}
    BY <1>2, <2>1 DEF CallInv, Decisions, ConfigOps
  <2>3. q \in raced
    BY <1>2, <2>1, <2>2 DEF Decisions, Overtaken
  <2> QED
    BY <1>1, <2>3
<1>3. q \in deferred <=> Suppressed(q)
  BY <1>1, <1>2 DEF ListInv
<1> QED
  BY <1>1, <1>3

LEMMA StartedLoop ==
    ASSUME TypeOK, CallInv, ListInv, Decisions, Started, NEW c \in Callers, OnlyMoves(c),
           \/ CloneDeferred(c) \/ (\E q \in Queries : NextDeferred(c, q))
           \/ StartDone(c) \/ StartDeferred(c) \/ AwaitRunning(c)
    PROVE  Started'
<1> USE DEF core, inner, history
<1>0. /\ UNCHANGED <<running, starter, config, wants, touched, raced, clashed>>
      /\ starter # c => startedOk' = startedOk
      /\ \A d \in Callers \ {c} : todo'[d] = todo[d]
  BY DEF CloneDeferred, NextDeferred, StartDone, StartDeferred, StartAborts, AwaitRunning, TypeOK
<1>1. ASSUME NEW p \in Queries, Due(p)'
      PROVE  Due(p)
  <2>1. status'[p] = status[p] \/ status'[p] # "stopped"
    BY DEF CloneDeferred, NextDeferred, StartDone, StartDeferred, AwaitRunning, TypeOK
  <2> QED
    BY <1>0, <1>1, <2>1 DEF Due
<1>2. ASSUME running, starter = c, NEW p \in Queries, Due(p)'
      PROVE  Pending(p)'
  <2>0. Due(p) /\ Pending(p)
    BY <1>1, <1>2 DEF Started
  <2>1. CASE CloneDeferred(c)
    <3>1. p \in deferred
      BY <1>2, <2>0, CloneHoldsDue
    <3> QED
      BY <1>2, <2>0, <2>1, <3>1, <1>0 DEF CloneDeferred, Pending, TypeOK
  <2>2. ASSUME NEW q \in Queries, NextDeferred(c, q)
        PROVE  Pending(p)'
    <3>1. p \in todo[c] /\ startedOk' = startedOk /\ todo'[c] = todo[c] \ {q}
      BY <1>2, <2>0, <2>2 DEF NextDeferred, Pending, InLoop, TypeOK
    <3>2. CASE p # q
      BY <1>0, <1>2, <2>0, <3>1, <3>2 DEF Pending
    <3>3. CASE p = q
      <4>1. Aim(c, q, "startDeferred")
        BY <2>0, <2>2, <3>3 DEF NextDeferred, Due
      <4>2. pc'[c] = "startDeferred" /\ call'[c].q = q
        BY <4>1 DEF Aim, TypeOK, Call
      <4> QED
        BY <1>0, <1>2, <2>0, <3>1, <3>3, <4>2 DEF Pending
    <3> QED
      BY <3>2, <3>3
  <2>3. CASE StartDone(c)
    BY <1>2, <2>0, <2>3 DEF StartDone, Pending, InLoop
  <2>4. CASE (StartDeferred(c) \/ AwaitRunning(c)) /\ pc'[c] = "idle"
    <3>1. startedOk' = startedOk
      BY <2>4 DEF StartDeferred, AwaitRunning
    <3> QED
      BY <1>0, <1>2, <2>0, <2>4, <3>1 DEF Pending, InLoop
  <2>5. CASE StartDeferred(c) /\ pc'[c] # "idle"
    <3>1. /\ startedOk' = startedOk /\ todo' = todo /\ pc[c] = "startDeferred"
          /\ status' = [status EXCEPT ![call[c].q] = IF @ = "running" THEN @ ELSE "starting"]
      BY <2>5 DEF StartDeferred, StartAborts, Return, TypeOK
    <3>2. call[c].q # p
      BY <1>2, <3>1 DEF Due, TypeOK
    <3> QED
      BY <1>0, <1>2, <2>0, <3>1, <3>2 DEF Pending, InLoop
  <2>6. CASE AwaitRunning(c) /\ pc'[c] # "idle"
    <3>1. startedOk' = startedOk /\ todo' = todo /\ pc[c] = "await"
      BY <2>6 DEF AwaitRunning, StartAborts, Return, TypeOK
    <3> QED
      BY <1>0, <1>2, <2>0, <3>1 DEF Pending, InLoop
  <2> QED
    BY <2>1, <2>2, <2>3, <2>4, <2>5, <2>6
<1> QED
  BY <1>0, <1>1, <1>2, LoopFrame

LEMMA StartedStep ==
    /\ TypeOK /\ CallInv /\ ListInv /\ Unregistered /\ Decisions /\ Started
    /\ [Next]_vars
    => Started'
<1> SUFFICES ASSUME TypeOK, CallInv, ListInv, Unregistered, Decisions, Started, [Next]_vars
             PROVE  Started'
  OBVIOUS
<1> USE DEF core, inner, history
<1>1. ASSUME NEW c \in Callers, NewCall(c)
      PROVE  Started'
  <2>1. Enters(c) /\ OnlyMoves(c)
    BY <1>1, NewCallEnters, NewCallFits
  <2>2. \A q \in Queries : Due(q)' => Due(q) /\ config'[q] = config[q]
    BY <2>1 DEF Enters, Due
  <2> QED
    BY <2>1, <2>2, StartedFrame DEF Enters
<1>2. ASSUME NEW c \in Callers, CallStep(c)
      PROVE  Started'
  <2>0. OnlyMoves(c)
    BY <1>2, CallStepFits
  <2>1. CASE \/ CheckRunning(c) \/ CoreAddOrUpdate(c) \/ CoreRemove(c) \/ NoteDeferred(c)
             \/ CoreStartQuery(c) \/ CoreStopQuery(c)
    BY <2>0, <2>1, StartedQueryCall
  <2>2. CASE \/ CloneDeferred(c) \/ (\E q \in Queries : NextDeferred(c, q))
             \/ StartDone(c) \/ StartDeferred(c) \/ AwaitRunning(c)
    BY <2>0, <2>2, StartedLoop
  <2>3. CASE CoreStart(c) /\ running' # running
    <3>1. /\ starter' = c /\ ~startedOk' /\ pc'[c] = "clone"
          /\ config' = config /\ wants' = wants
          /\ status' = [q \in Queries |->
                            IF config[q] = "auto" /\ status[q] # "running" THEN "starting"
                            ELSE status[q]]
      BY <2>3 DEF CoreStart, Goto, Return, TypeOK
    <3>2. ASSUME NEW q \in Queries, Due(q)'
          PROVE  config'[q] = "manual"
      BY <3>1, <3>2 DEF Due, Unregistered, TypeOK
    <3> QED
      BY <3>1, <3>2 DEF Started, Pending
  <2>4. CASE (CoreStop(c) /\ running' # running) \/ CoreShutdown(c)
    BY <2>4 DEF CoreStop, CoreShutdown, Started
  <2>5. CASE \/ CoreStart(c) /\ running' = running
             \/ CoreStop(c) /\ running' = running
             \/ ReleaseWal(c)
    <3>1. UNCHANGED <<running, starter, startedOk, todo, config, status, wants, touched, raced,
                     clashed>>
      BY <2>5 DEF CoreStart, CoreStop, ReleaseWal, Goto, Return, TypeOK
    <3>2. pc'[c] = "idle"
      BY <2>5 DEF CoreStart, CoreStop, ReleaseWal, Goto, Return, TypeOK
    <3>3. \A q \in Queries : Due(q)' => Due(q) /\ config'[q] = config[q]
      BY <3>1 DEF Due
    <3> QED
      BY <2>0, <3>1, <3>2, <3>3, StartedFrame
  <2> QED
    BY <1>2, <2>1, <2>2, <2>3, <2>4, <2>5 DEF CallStep
<1>3. ASSUME NEW q \in Queries, QuerySettles(q)
      PROVE  Started'
  <2>1. \A p \in Queries : Due(p)' => Due(p)
    BY <1>3 DEF QuerySettles, Due, TypeOK
  <2>2. UNCHANGED <<running, starter, startedOk, config, pc, call, todo>>
    BY <1>3 DEF QuerySettles
  <2> QED
    BY <2>1, <2>2 DEF Started, Pending, InLoop
<1>4. CASE UNCHANGED vars
  BY <1>4 DEF vars, Started, Pending, InLoop, Due
<1> QED
  BY <1>1, <1>2, <1>3, <1>4 DEF Next

-----------------------------------------------------------------------------
(* The theorems *)

LEMMA InitIInv == Init => IInv
<1> SUFFICES ASSUME Init PROVE IInv
  OBVIOUS
<1>1. CallInv
  BY DEF Init, CallInv, NoCall, QueryOps
<1>2. ListInv
  BY DEF Init, ListInv, OneNoter, Noted, Decided, Suppressed
<1> QED
  BY <1>1, <1>2, InitTypes DEF IInv

\* Every variable of the engine handle keeps its type (EngineInner of
\* native/src/engine.rs and the calls on it).
THEOREM TypeCorrect == Spec => []TypeOK
<1>1. Init => TypeOK /\ CallInv
  BY InitIInv DEF IInv
<1>2. TypeOK /\ CallInv /\ [Next]_vars => (TypeOK /\ CallInv)'
  BY TypeStep, CallInvStep
<1> QED
  BY <1>1, <1>2, PTL DEF Spec

\* The list of deferred queries is exact for a query whenever nobody configures
\* it, for any callers and any interleaving of their calls, unless core was last
\* given the query while another call had yet to note it (register_query,
\* reconfigure_query, remove_query, note_deferred).
THEOREM DeferredListExact == Spec => []DeferredExact
<1>1. IInv /\ [Next]_vars => IInv'
  BY TypeStep, CallInvStep, ListInvStep DEF IInv
<1>2. IInv => DeferredExact
  BY DEF IInv, CallInv, ListInv, DeferredExact, Configuring, Suppressed, ConfigOps
<1> QED
  BY <1>1, <1>2, InitIInv, PTL DEF Spec

\* No query runs in a stopped engine unless it was started by name or a call
\* was busy with it when the engine stopped, for any number of callers and of
\* queries (register_query, stop, start_deferred_queries).
THEOREM NothingStartsEarly == Spec => []NoPrematureStart
<1>1. Init => TypeOK /\ CallInv /\ StaysStopped
  BY InitIInv DEF IInv, Init, StaysStopped, InLoop, LookedEarlier
<1>2. TypeOK /\ CallInv /\ StaysStopped /\ [Next]_vars => (TypeOK /\ CallInv /\ StaysStopped)'
  BY TypeStep, CallInvStep, StaysStoppedStep
<1>3. StaysStopped => NoPrematureStart
  BY DEF StaysStopped, NoPrematureStart
<1> QED
  BY <1>1, <1>2, <1>3, PTL DEF Spec

\* A start that returned Ok has started every query it owed: those deferred
\* before it, those registered since, and those deferred before an earlier stop,
\* but for queries started or stopped by name, configured while the engine started
\* or stopped, or clashed over by two calls (start, start_deferred_queries;
\* Engine.cs StartAsync).
THEOREM StartsWhatIsDue == Spec => []AutoStartHonoured
<1> DEFINE SInv == IInv /\ Unregistered /\ Decisions /\ Started
<1>1. Init => SInv
  BY InitIInv DEF Init, Unregistered, Decisions, Overtaken, Started
<1>2. SInv /\ [Next]_vars => SInv'
  BY TypeStep, CallInvStep, ListInvStep, RegistryStep, DecisionsStep, StartedStep DEF IInv
<1>3. SInv => AutoStartHonoured
  BY DEF Started, Due, Pending, AutoStartHonoured
<1> QED
  BY <1>1, <1>2, <1>3, PTL DEF Spec
=============================================================================
