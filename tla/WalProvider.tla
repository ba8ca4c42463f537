----------------------------- MODULE WalProvider -----------------------------
(***************************************************************************)
(* ReleasableWalProvider of native/src/wal.rs: the provider behind a       *)
(* reader-writer lock, which the operations of drasi-lib hold as readers   *)
(* while they run and which release takes as a writer.  Several engines    *)
(* may keep their write-ahead logs in one directory; redb, external, lets  *)
(* one provider at a time open the file of a source.                       *)
(***************************************************************************)
EXTENDS EngineHandles

CONSTANTS Tasks,      \* drasi-lib's tasks that use the log of the one source modelled
          NoEngine    \* no engine

ASSUME WalAssumption == NoEngine \notin Engines

VARIABLES
    provided,    \* engines whose wrapper holds its provider: inner is Some
    releasing,   \* engines whose release waits for the lock
    op,          \* [Tasks -> the operation the task is in]
    file         \* the engine whose provider has the source's log open

walVars == <<provided, releasing, op, file>>

Kinds == {"register", "use", "delete"}
NoOp == [at |-> "idle", engine |-> NoEngine, kind |-> "use"]

WalTypeOK ==
    /\ provided \in SUBSET Engines /\ releasing \in SUBSET Engines
    /\ op \in [Tasks -> [at : {"idle", "waiting", "inside"}, engine : Engines \cup {NoEngine},
                         kind : Kinds]]
    /\ \A t \in Tasks : op[t].at # "idle" => op[t].engine \in Engines
    /\ file \in Engines \cup {NoEngine}

WalInit ==
    /\ provided = {} /\ releasing = {} /\ file = NoEngine
    /\ op = [t \in Tasks |-> NoOp]

\* ReleasableWalProvider::new; RedbWalProvider opens nothing yet.
NewProvider(e) == provided' = provided \cup {e} /\ UNCHANGED <<releasing, op, file>>

\* MUTANT of Begin: readers are let in although a writer waits.
Begin_Barges(t, e, kind) ==
    /\ op[t].at = "idle"
    /\ op' = [op EXCEPT ![t] = [NoOp EXCEPT !.engine = e, !.kind = kind, !.at = "inside"]]
    /\ UNCHANGED <<provided, releasing, file>>

\* tokio's lock is fair: a reader that comes after a waiting writer waits for it.
Begin(t, e, kind) ==
    /\ op[t].at = "idle"
    /\ op' = [op EXCEPT ![t] = [NoOp EXCEPT !.engine = e, !.kind = kind,
                                            !.at = IF e \in releasing THEN "waiting" ELSE "inside"]]
    /\ UNCHANGED <<provided, releasing, file>>

GetGuard(t) ==
    /\ op[t].at = "waiting" /\ op[t].engine \notin releasing
    /\ op' = [op EXCEPT ![t].at = "inside"]
    /\ UNCHANGED <<provided, releasing, file>>

Answered(t) == op' = [op EXCEPT ![t] = NoOp]

\* register opens the log; another provider that has it open makes it an error.
Register(t) ==
    /\ op[t].at = "inside" /\ op[t].kind = "register" /\ op[t].engine \in provided
    /\ file' = IF file = NoEngine THEN op[t].engine ELSE file
    /\ Answered(t)
    /\ UNCHANGED <<provided, releasing>>

\* append, read_from, prune_up_to, head_sequence, oldest_sequence, event_count:
\* what they do to the log is not followed.
UseLog(t) ==
    /\ op[t].at = "inside" /\ op[t].kind = "use" /\ op[t].engine \in provided
    /\ Answered(t)
    /\ UNCHANGED <<provided, releasing, file>>

\* delete_wal closes the log and deletes it.
DeleteWal(t) ==
    /\ op[t].at = "inside" /\ op[t].kind = "delete" /\ op[t].engine \in provided
    /\ file' = IF file = op[t].engine THEN NoEngine ELSE file
    /\ Answered(t)
    /\ UNCHANGED <<provided, releasing>>

\* Every operation looks into the wrapper first: ok_or_else(released)?
Released(t) ==
    /\ op[t].at = "inside" /\ op[t].engine \notin provided
    /\ Answered(t)
    /\ UNCHANGED <<provided, releasing, file>>

OpStep(t) == GetGuard(t) \/ Register(t) \/ UseLog(t) \/ DeleteWal(t) \/ Released(t)

-----------------------------------------------------------------------------
(* release *)

Inside(e) == {t \in Tasks : op[t].at = "inside" /\ op[t].engine = e}

\* self.inner.write() joins the queue of the lock.
AskToRelease(e) == releasing' = releasing \cup {e} /\ UNCHANGED <<provided, op, file>>

\* MUTANT of TakeProvider: try_write, given up when an operation is under way.
TakeProvider_Try(e) ==
    /\ e \in releasing
    /\ provided' = IF Inside(e) = {} THEN provided \ {e} ELSE provided
    /\ releasing' = releasing \ {e}
    /\ file' = IF file = e /\ Inside(e) = {} THEN NoEngine ELSE file
    /\ UNCHANGED op

\* The writer's turn: take drops the provider, and with it the open log.
TakeProvider(e) ==
    /\ e \in releasing /\ Inside(e) = {}
    /\ provided' = provided \ {e}
    /\ releasing' = releasing \ {e}
    /\ file' = IF file = e THEN NoEngine ELSE file
    /\ UNCHANGED op
=============================================================================
