---------------------------- MODULE SharedProcess ----------------------------
(***************************************************************************)
(* Several engines in one process, one handle being created after or       *)
(* while another is shut down: what they share is the log sink and the     *)
(* directory of the write-ahead logs.  Composes LogSink and WalProvider    *)
(* with CreateAsync (Engine.cs), create and shutdown (engine.rs).          *)
(***************************************************************************)
EXTENDS LogSink, WalProvider

vars == <<factory, fallback, sink, sinkLock, filter, conf, event, last,
          provided, releasing, op, file, life>>

\* Every variable has its type (Logging.cs, logging.rs, wal.rs, engine.rs).
TypeOK == LogTypeOK /\ WalTypeOK /\ life \in [Engines -> Lives]

Init == LogInit /\ WalInit /\ LifeInit

-----------------------------------------------------------------------------

\* CreateAsync configures logging on the caller's thread.
CreateAsync(e) ==
    /\ life[e] = "none"
    /\ \E options \in Options : Configure(e, options)
    /\ LifeGoesTo(e, "creating")
    /\ UNCHANGED walVars

ConfigureNext(e) == ConfigureStep(e) /\ UNCHANGED <<walVars, life>>

\* create: the options are applied and the handle is made, or nothing is.
Create(e) ==
    /\ life[e] = "creating" /\ conf[e].at = "done"
    /\ conf' = [conf EXCEPT ![e] = NoConf]
    /\ \/ NewProvider(e) /\ LifeGoesTo(e, "open")
       \/ LifeGoesTo(e, "none") /\ UNCHANGED walVars
    /\ UNCHANGED <<factory, fallback, sink, sinkLock, filter, event, last>>

\* shutdown, by ShutdownAsync or by Dispose: closed.swap(true)
Shutdown(e) ==
    /\ life[e] = "open" /\ LifeGoesTo(e, "stopping")
    /\ UNCHANGED <<logVars, walVars>>

\* Whatever core.shutdown answers, release comes next.
CoreShutdown(e) ==
    /\ life[e] = "stopping" /\ LifeGoesTo(e, "releasing")
    /\ AskToRelease(e)
    /\ UNCHANGED logVars

Release(e) ==
    /\ life[e] = "releasing" /\ LifeGoesTo(e, "closed")
    /\ TakeProvider(e)
    /\ UNCHANGED logVars

\* The handle is freed; its place can be taken by another engine.
Free(e) ==
    /\ life[e] = "closed" /\ LifeGoesTo(e, "none")
    /\ \A t \in Tasks : op[t].engine # e
    /\ UNCHANGED <<logVars, walVars>>

\* Tasks of drasi-lib may outlive the call that stops them.
BeginOperation(t) ==
    /\ \E e \in Engines, kind \in Kinds :
          life[e] \in {"open", "stopping", "releasing", "closed"} /\ Begin(t, e, kind)
    /\ UNCHANGED <<logVars, life>>

OperationStep(t) == OpStep(t) /\ UNCHANGED <<logVars, life>>

EventNext(t) == LogNext(t) /\ UNCHANGED <<walVars, life>>

EngineStep(e) == ConfigureNext(e) \/ Create(e) \/ CoreShutdown(e) \/ Release(e)

Next ==
    \/ \E e \in Engines : CreateAsync(e) \/ EngineStep(e) \/ Shutdown(e) \/ Free(e)
    \/ \E t \in Tasks : BeginOperation(t) \/ OperationStep(t)
    \/ \E t \in Threads : EventNext(t)

\* A call that was made is run by its thread, an operation by its task.
Fairness ==
    /\ \A e \in Engines : WF_vars(CoreShutdown(e)) /\ WF_vars(Release(e))
    /\ \A t \in Tasks : WF_vars(OperationStep(t))

Spec == Init /\ [][Next]_vars
FairSpec == Spec /\ Fairness

-----------------------------------------------------------------------------
(* Properties *)

\* Once the shutdown of an engine is over, whether or not drasi-lib's part of it
\* failed and whatever operations were under way, its provider has no log open
\* and none of its tasks can open one: another engine can (shutdown, release of
\* wal.rs; guides/configuration.md on ShutdownAsync and the WAL).  A ShutdownAsync
\* that finds another under way returns before that, and is not meant.
ShutdownFreesLog ==
    \A e \in Engines : life[e] = "closed" => file # e /\ e \notin provided

\* However busy the log is, a shutdown gets its turn, and an operation that waits
\* behind it is answered (release and the read guards of wal.rs).
NobodyWaitsForever ==
    /\ \A e \in Engines : life[e] = "stopping" ~> life[e] = "closed"
    /\ \A t \in Tasks : op[t].at = "waiting" ~> op[t].at = "idle"
=============================================================================
