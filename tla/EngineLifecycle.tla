---------------------------- MODULE EngineLifecycle ----------------------------
(***************************************************************************)
(* The engine handle of native/src/engine.rs as its callers see it: start, *)
(* stop, shutdown and the query calls, one step per await, with the list   *)
(* of queries whose auto-start was deferred because the engine was stopped *)
(* when they were registered.                                              *)
(*                                                                         *)
(* drasi-lib's own engine (`core' in the code) is external: its registry,  *)
(* its statuses and what its calls reject are modelled from the comments   *)
(* of engine.rs and from the tests of tests/Drasi.Tests/LifecycleTests.cs. *)
(***************************************************************************)
EXTENDS Naturals, FiniteSets

CONSTANTS Callers,    \* concurrent callers of the engine handle
          Queries,    \* query ids
          NoQuery,    \* argument of the calls that name no query
          Nobody,     \* no caller
          Ops,        \* the calls the callers make
          MaxCalls    \* bound of the model on the number of calls

QueryOps == {"add", "update", "remove", "startQuery", "stopQuery"}
EngineOps == {"start", "stop", "shutdown"}

ASSUME LifecycleAssumption ==
    /\ NoQuery \notin Queries /\ Nobody \notin Callers
    /\ Ops \subseteq QueryOps \cup EngineOps
    /\ MaxCalls \in Nat

VARIABLES
    (* drasi-lib *)
    running,     \* core.is_running()
    shut,        \* whether core.shutdown() was called
    config,      \* [Queries -> "none", or the auto_start flag core was given]
    status,      \* [Queries -> ComponentStatus]
    (* EngineInner *)
    deferred,    \* deferred_queries, a list without duplicates
    closed,      \* the closed flag
    released,    \* whether the WAL provider was released
    (* the calls *)
    pc,          \* [Callers -> the await the caller's call has reached]
    call,        \* [Callers -> the call: operation, query, requested auto_start]
    defer,       \* [Callers -> what register_query decided before core.add_query]
    todo,        \* [Callers -> deferred queries its start has still to start]
    result,      \* [Callers -> how its last call returned]
    calls,       \* number of calls made
    (* history *)
    wants,       \* [Queries -> auto_start asked for by the last add or update]
    touched,     \* queries whose last start or stop was asked for by name
    raced,       \* queries some call was busy with at the last start or stop
    starter,     \* the caller whose start made the engine run
    startedOk,   \* whether that start has returned Ok
    clashed      \* queries core was last given while another call had yet to note them

core == <<running, shut, config, status>>
inner == <<deferred, closed, released>>
history == <<wants, touched, raced, starter, startedOk, clashed>>
vars == <<running, shut, config, status, deferred, closed, released, pc, call, defer, todo,
          result, calls, wants, touched, raced, starter, startedOk, clashed>>

PCs == {"idle", "check", "core", "note", "clone", "next", "startDeferred", "await", "release"}
Results == {"none", "ok", "error", "closed"}
Statuses == {"stopped", "starting", "running", "error"}
Call == [op : QueryOps \cup EngineOps, q : Queries \cup {NoQuery}, auto : BOOLEAN]
NoCall == [op |-> "start", q |-> NoQuery, auto |-> FALSE]

\* Every variable has its type, and a start that is busy with a deferred query
\* names it (start_deferred_queries of native/src/engine.rs).
TypeOK ==
    /\ running \in BOOLEAN /\ shut \in BOOLEAN
    /\ config \in [Queries -> {"none", "manual", "auto"}]
    /\ status \in [Queries -> Statuses]
    /\ deferred \in SUBSET Queries
    /\ closed \in BOOLEAN /\ released \in BOOLEAN
    /\ pc \in [Callers -> PCs]
    /\ call \in [Callers -> Call]
    /\ defer \in [Callers -> BOOLEAN]
    /\ todo \in [Callers -> SUBSET Queries]
    /\ result \in [Callers -> Results]
    /\ calls \in 0..MaxCalls
    /\ wants \in [Queries -> BOOLEAN]
    /\ touched \in SUBSET Queries /\ raced \in SUBSET Queries /\ clashed \in SUBSET Queries
    /\ starter \in Callers \cup {Nobody}
    /\ startedOk \in BOOLEAN
    /\ \A c \in Callers : pc[c] \in {"startDeferred", "await"} => call[c].q \in Queries

Init ==
    /\ running = FALSE /\ shut = FALSE
    /\ config = [q \in Queries |-> "none"]
    /\ status = [q \in Queries |-> "stopped"]
    /\ deferred = {} /\ closed = FALSE /\ released = FALSE
    /\ pc = [c \in Callers |-> "idle"]
    /\ call = [c \in Callers |-> NoCall]
    /\ defer = [c \in Callers |-> FALSE]
    /\ todo = [c \in Callers |-> {}]
    /\ result = [c \in Callers |-> "none"]
    /\ calls = 0
    /\ wants = [q \in Queries |-> FALSE]
    /\ touched = {} /\ raced = {} /\ clashed = {} /\ starter = Nobody /\ startedOk = FALSE

-----------------------------------------------------------------------------
(* Entering and leaving a call *)

Goto(c, label) == pc' = [pc EXCEPT ![c] = label] /\ UNCHANGED <<call, result, calls>>

Return(c, how) ==
    /\ pc' = [pc EXCEPT ![c] = "idle"]
    /\ call' = [call EXCEPT ![c] = NoCall]
    /\ result' = [result EXCEPT ![c] = how]
    /\ UNCHANGED calls

Enter(c, request, label) ==
    /\ pc[c] = "idle" /\ calls < MaxCalls
    /\ calls' = calls + 1
    /\ pc' = [pc EXCEPT ![c] = label]
    /\ call' = [call EXCEPT ![c] = request]
    /\ result' = [result EXCEPT ![c] = "none"]

\* ensure_open lets a call on a query in; add and update look at the engine first.
CallQuery(c, op, q, auto) ==
    /\ op \in Ops \cap QueryOps
    /\ auto => op \in {"add", "update"}
    /\ ~closed
    /\ Enter(c, [op |-> op, q |-> q, auto |-> auto],
             IF op \in {"add", "update"} THEN "check" ELSE "core")
    /\ UNCHANGED <<core, inner, defer, todo, history>>

\* start and stop are let in by ensure_open, too.
CallEngine(c, op) ==
    /\ op \in Ops \cap {"start", "stop"}
    /\ ~closed
    /\ Enter(c, [op |-> op, q |-> NoQuery, auto |-> FALSE], "core")
    /\ UNCHANGED <<core, inner, defer, todo, history>>

\* ensure_open turns every other call away once shutdown has begun.
CallClosed(c, op) ==
    /\ op \in Ops \ {"shutdown"} /\ closed
    /\ pc[c] = "idle" /\ calls < MaxCalls
    /\ calls' = calls + 1
    /\ result' = [result EXCEPT ![c] = "closed"]
    /\ UNCHANGED <<core, inner, pc, call, defer, todo, history>>

\* closed.swap(true): only the first caller shuts the core down, any other
\* returns Ok at once.
CallShutdown(c) ==
    /\ "shutdown" \in Ops /\ pc[c] = "idle" /\ calls < MaxCalls
    /\ closed' = TRUE
    /\ calls' = calls + 1
    /\ IF closed
       THEN result' = [result EXCEPT ![c] = "ok"] /\ UNCHANGED <<pc, call>>
       ELSE /\ pc' = [pc EXCEPT ![c] = "core"]
            /\ call' = [call EXCEPT ![c] = [NoCall EXCEPT !.op = "shutdown"]]
            /\ result' = [result EXCEPT ![c] = "none"]
    /\ UNCHANGED <<core, deferred, released, defer, todo, history>>

-----------------------------------------------------------------------------
(* register_query, reconfigure_query, remove_query and note_deferred *)

\* MUTANT of CheckRunning: the query reaches drasi-lib as it was written.
CheckRunning_NeverDefers(c) ==
    /\ pc[c] = "check"
    /\ defer' = [defer EXCEPT ![c] = FALSE]
    /\ Goto(c, "core")
    /\ UNCHANGED <<core, inner, todo, history>>

\* let defer = config.auto_start && !self.core.is_running().await
CheckRunning(c) ==
    /\ pc[c] = "check"
    /\ defer' = [defer EXCEPT ![c] = call[c].auto /\ ~running]
    /\ Goto(c, "core")
    /\ UNCHANGED <<core, inner, todo, history>>

\* What core makes of an accepted query: an auto-start query starts the moment
\* it is added, whether or not the engine runs; an update of a query that does
\* not auto-start may keep it running.
Configure(q, auto) ==
    /\ config' = [config EXCEPT ![q] = IF auto THEN "auto" ELSE "manual"]
    /\ \E s \in IF auto THEN {"starting"}
               ELSE IF status[q] = "stopped" THEN {"stopped"} ELSE {"starting", "stopped"} :
          status' = [status EXCEPT ![q] = s]

\* For the history variable `clashed': the query goes to core between another
\* call's turn there and that call's note, so the notes may come in either order.
NoteClash(c) ==
    LET q == call[c].q
    IN  clashed' = IF \E d \in Callers \ {c} : pc[d] = "note" /\ call[d].q = q
                   THEN clashed \cup {q} ELSE clashed \ {q}

CoreAddOrUpdate(c) ==
    /\ pc[c] = "core" /\ call[c].op \in {"add", "update"}
    /\ LET q == call[c].q
       IN  IF shut \/ (call[c].op = "add") # (config[q] = "none")
           THEN Return(c, "error") /\ UNCHANGED <<core, wants, touched, clashed>>
           ELSE /\ Goto(c, "note")
                /\ Configure(q, call[c].auto /\ ~defer[c])
                /\ wants' = [wants EXCEPT ![q] = call[c].auto]
                /\ touched' = IF status[q] = "stopped" THEN touched \ {q} ELSE touched
                /\ NoteClash(c)
                /\ UNCHANGED <<running, shut>>
    /\ UNCHANGED <<inner, defer, todo, raced, starter, startedOk>>

\* MUTANT of CoreRemove: remove_query forgets to call note_deferred.
CoreRemove_KeepsDeferred(c) ==
    /\ pc[c] = "core" /\ call[c].op = "remove"
    /\ LET q == call[c].q
       IN  IF shut \/ config[q] = "none"
           THEN Return(c, "error") /\ UNCHANGED <<core, wants, touched, clashed>>
           ELSE /\ Return(c, "ok")
                /\ config' = [config EXCEPT ![q] = "none"]
                /\ status' = [status EXCEPT ![q] = "stopped"]
                /\ wants' = [wants EXCEPT ![q] = FALSE]
                /\ touched' = touched \ {q}
                /\ NoteClash(c)
                /\ UNCHANGED <<running, shut>>
    /\ UNCHANGED <<inner, defer, todo, raced, starter, startedOk>>

CoreRemove(c) ==
    /\ pc[c] = "core" /\ call[c].op = "remove"
    /\ LET q == call[c].q
       IN  IF shut \/ config[q] = "none"
           THEN Return(c, "error") /\ UNCHANGED <<core, wants, touched, clashed, defer>>
           ELSE /\ Goto(c, "note")
                /\ config' = [config EXCEPT ![q] = "none"]
                /\ status' = [status EXCEPT ![q] = "stopped"]
                /\ wants' = [wants EXCEPT ![q] = FALSE]
                /\ touched' = touched \ {q}
                /\ NoteClash(c)
                /\ defer' = [defer EXCEPT ![c] = FALSE]
                /\ UNCHANGED <<running, shut>>
    /\ UNCHANGED <<inner, todo, raced, starter, startedOk>>

NoteDeferred(c) ==
    /\ pc[c] = "note"
    /\ deferred' = IF defer[c] THEN deferred \cup {call[c].q} ELSE deferred \ {call[c].q}
    /\ Return(c, "ok")
    /\ UNCHANGED <<core, closed, released, defer, todo, history>>

\* start_query and stop_query are passed straight on; what core answers for a
\* query that already is in the state asked for is left open.
CoreStartQuery(c) ==
    /\ pc[c] = "core" /\ call[c].op = "startQuery"
    /\ LET q == call[c].q
       IN  \/ /\ shut \/ config[q] = "none" \/ status[q] \in {"starting", "running"}
              /\ Return(c, "error") /\ UNCHANGED <<status, touched>>
           \/ /\ ~shut /\ config[q] # "none"
              /\ status' = [status EXCEPT ![q] = IF @ = "running" THEN @ ELSE "starting"]
              /\ touched' = touched \cup {q}
              /\ Return(c, "ok")
    /\ UNCHANGED <<running, shut, config, inner, defer, todo, wants, raced, starter, startedOk,
                   clashed>>

CoreStopQuery(c) ==
    /\ pc[c] = "core" /\ call[c].op = "stopQuery"
    /\ LET q == call[c].q
       IN  \/ /\ shut \/ config[q] = "none" \/ status[q] = "stopped"
              /\ Return(c, "error") /\ UNCHANGED <<status, touched>>
           \/ /\ ~shut /\ config[q] # "none"
              /\ status' = [status EXCEPT ![q] = "stopped"]
              /\ touched' = touched \cup {q}
              /\ Return(c, "ok")
    /\ UNCHANGED <<running, shut, config, inner, defer, todo, wants, raced, starter, startedOk,
                   clashed>>

\* A starting query reaches Running or fails on its own.
QuerySettles(q) ==
    /\ status[q] = "starting"
    /\ \E s \in {"running", "error"} : status' = [status EXCEPT ![q] = s]
    /\ UNCHANGED <<running, shut, config, inner, pc, call, defer, todo, result, calls, history>>

-----------------------------------------------------------------------------
(* Calls in progress, for the history variable `raced' *)

\* Queries between the look at is_running and the note in the deferred list
BeingConfigured ==
    {q \in Queries : \E c \in Callers :
        /\ call[c].q = q /\ call[c].op \in {"add", "update"}
        /\ pc[c] \in {"core", "note"}}

\* Callers whose start is on its way through the deferred list
Starting == {c \in Callers : pc[c] \in {"clone", "next", "startDeferred", "await"}}

-----------------------------------------------------------------------------
(* start, start_deferred_queries and await_query_running *)

\* core.start() rejects a running engine; otherwise it starts the queries that
\* were given to it with auto_start.
CoreStart(c) ==
    /\ pc[c] = "core" /\ call[c].op = "start"
    /\ IF running \/ shut
       THEN /\ Return(c, "error")
            /\ UNCHANGED <<running, status, touched, raced, starter, startedOk>>
       ELSE /\ Goto(c, "clone")
            /\ running' = TRUE
            /\ starter' = c /\ startedOk' = FALSE /\ raced' = BeingConfigured
            /\ status' = [q \in Queries |->
                             IF config[q] = "auto" /\ status[q] # "running" THEN "starting"
                             ELSE status[q]]
            /\ touched' = {}
    /\ UNCHANGED <<shut, config, inner, defer, todo, wants, clashed>>

\* MUTANT of CloneDeferred: the list is taken, not cloned.
CloneDeferred_Takes(c) ==
    /\ pc[c] = "clone"
    /\ todo' = [todo EXCEPT ![c] = deferred]
    /\ deferred' = {}
    /\ Goto(c, "next")
    /\ UNCHANGED <<core, closed, released, defer, history>>

CloneDeferred(c) ==
    /\ pc[c] = "clone"
    /\ todo' = [todo EXCEPT ![c] = deferred]
    /\ Goto(c, "next")
    /\ UNCHANGED <<core, inner, defer, history>>

Aim(c, q, label) ==
    /\ pc' = [pc EXCEPT ![c] = label]
    /\ call' = [call EXCEPT ![c].q = q]
    /\ UNCHANGED <<result, calls>>

\* The loop takes the deferred queries one by one and passes over those that
\* already run.  (The list is walked in its order; any order is allowed here.)
NextDeferred(c, q) ==
    /\ pc[c] = "next" /\ q \in todo[c]
    /\ todo' = [todo EXCEPT ![c] = @ \ {q}]
    /\ IF config[q] # "none" /\ status[q] = "running" THEN Goto(c, "next")
       ELSE Aim(c, q, "startDeferred")
    /\ UNCHANGED <<core, inner, defer, history>>

StartDone(c) ==
    /\ pc[c] = "next" /\ todo[c] = {}
    /\ Return(c, "ok")
    /\ startedOk' = (startedOk \/ starter = c)
    /\ UNCHANGED <<core, inner, defer, todo, wants, touched, raced, starter, clashed>>

\* Any error of the loop is returned by start; the rest of the list is dropped.
StartAborts(c) ==
    /\ Return(c, "error")
    /\ todo' = [todo EXCEPT ![c] = {}]

StartDeferred(c) ==
    /\ pc[c] = "startDeferred"
    /\ LET q == call[c].q
       IN  \/ /\ shut \/ config[q] = "none" \/ status[q] \in {"starting", "running"}
              /\ StartAborts(c) /\ UNCHANGED status
           \/ /\ ~shut /\ config[q] # "none"
              /\ status' = [status EXCEPT ![q] = IF @ = "running" THEN @ ELSE "starting"]
              /\ Goto(c, "await") /\ UNCHANGED todo
    /\ UNCHANGED <<running, shut, config, inner, defer, history>>

\* MUTANT of AwaitRunning: polled until Running, whatever else happens.
AwaitRunning_Forever(c) ==
    /\ pc[c] = "await"
    /\ config[call[c].q] # "none" /\ status[call[c].q] = "running"
    /\ Aim(c, NoQuery, "next")
    /\ UNCHANGED <<core, inner, defer, todo, history>>

\* await_query_running: polled every 5 ms until Running, Error or the timeout
AwaitRunning(c) ==
    /\ pc[c] = "await"
    /\ LET q == call[c].q
       IN  IF config[q] # "none" /\ status[q] = "running"
           THEN Aim(c, NoQuery, "next") /\ UNCHANGED todo
           ELSE StartAborts(c)   \* the query failed, or 30 s have passed
    /\ UNCHANGED <<core, inner, defer, history>>

-----------------------------------------------------------------------------
(* stop and shutdown *)

AllStopped == status' = [q \in Queries |-> "stopped"]

CoreStop(c) ==
    /\ pc[c] = "core" /\ call[c].op = "stop"
    /\ IF running /\ ~shut
       THEN /\ running' = FALSE /\ AllStopped /\ Return(c, "ok")
            /\ raced' = IF Starting = {} THEN BeingConfigured ELSE Queries
       ELSE UNCHANGED <<running, status, raced>> /\ Return(c, "error")
    /\ UNCHANGED <<shut, config, inner, defer, todo, wants, touched, starter, startedOk, clashed>>

\* The result of core.shutdown() is kept for later: the WAL is released even
\* when it is an error.
CoreShutdown(c) ==
    /\ pc[c] = "core" /\ call[c].op = "shutdown"
    /\ running' = FALSE /\ shut' = TRUE /\ AllStopped
    /\ Goto(c, "release")
    /\ UNCHANGED <<config, inner, defer, todo, history>>

ReleaseWal(c) ==
    /\ pc[c] = "release"
    /\ released' = TRUE
    /\ \E how \in {"ok", "error"} : Return(c, how)
    /\ UNCHANGED <<core, deferred, closed, defer, todo, history>>

CallStep(c) ==
    \/ CheckRunning(c) \/ CoreAddOrUpdate(c) \/ CoreRemove(c) \/ NoteDeferred(c)
    \/ CoreStartQuery(c) \/ CoreStopQuery(c)
    \/ CoreStart(c) \/ CloneDeferred(c) \/ (\E q \in Queries : NextDeferred(c, q))
    \/ StartDone(c) \/ StartDeferred(c) \/ AwaitRunning(c)
    \/ CoreStop(c) \/ CoreShutdown(c) \/ ReleaseWal(c)

NewCall(c) ==
    \/ \E op \in QueryOps, q \in Queries, auto \in BOOLEAN : CallQuery(c, op, q, auto)
    \/ \E op \in EngineOps : CallEngine(c, op)
    \/ \E op \in QueryOps \cup EngineOps : CallClosed(c, op)
    \/ CallShutdown(c)

Next == \/ \E c \in Callers : CallStep(c) \/ NewCall(c)
        \/ \E q \in Queries : QuerySettles(q)

\* A call that was made is run by its blocking thread to its end.
Fairness == \A c \in Callers : WF_vars(CallStep(c))

Spec == Init /\ [][Next]_vars
FairSpec == Spec /\ Fairness

-----------------------------------------------------------------------------
(* Properties *)

Quiet == \A c \in Callers : pc[c] = "idle"

Configuring(c, q) == call[c].q = q /\ call[c].op \in {"add", "update", "remove"}

\* However calls on the queries interleave with each other and with starts, stops
\* and a shutdown, the deferred list is exact: outside the calls that configure it,
\* a query is in the list if and only if it is registered with its auto-start
\* suppressed though its last add or update asked for it.  Left out are queries that
\* core was last given while another call had yet to note them: a late note undoes
\* the newer one, and the list is wrong until the next call on the query
\* (register_query, reconfigure_query, remove_query, note_deferred).
DeferredExact ==
    \A q \in Queries \ clashed :
        (\A c \in Callers : ~Configuring(c, q)) =>
            (q \in deferred <=> config[q] = "manual" /\ wants[q])

\* A start that returned Ok has started every auto-start query: those deferred
\* before it, those registered since, and those deferred before an earlier stop.
\* Left out are queries started or stopped by name, queries that some call was
\* configuring while the engine started or stopped, and those two calls clashed
\* over, for which the list is wrong (start, start_deferred_queries; Engine.cs
\* StartAsync).
AutoStartHonoured ==
    Quiet /\ running /\ startedOk =>
        \A q \in Queries \ (touched \cup raced \cup clashed) : wants[q] => status[q] # "stopped"

\* No query runs in a stopped engine unless it was started by name or a call
\* was busy with it when the engine stopped (register_query: "suppressing the
\* premature start").
NoPrematureStart ==
    Quiet /\ ~running => \A q \in Queries \ (touched \cup raced) : status[q] = "stopped"

\* Every call comes back, whatever becomes of the queries it waits for
\* (await_query_running gives up on a failed query and on its deadline).
CallsReturn == \A c \in Callers : pc[c] # "idle" ~> pc[c] = "idle"
=============================================================================
