--------------------------- MODULE DurableReaction ---------------------------
(***************************************************************************)
(* A durable reaction (CsharpReaction of native/src/components.rs) on one  *)
(* query, over stops, failing callbacks, crashes and engines made anew.    *)
(* drasi-lib's run_standard_loop is external: it takes the query's results *)
(* in order, hands each to `dispatch' and saves the checkpoint when that   *)
(* returned Ok ("the callback must succeed before the checkpoint           *)
(* advances", Engine.cs); it returns the first error of `dispatch'.        *)
(***************************************************************************)
EXTENDS Integers, FiniteSets

CONSTANTS MaxResults,       \* bound of the model on the results of the query
          OutboxCapacity    \* results the query keeps for a reaction that is behind

ASSUME ReactionAssumption == MaxResults \in Nat /\ OutboxCapacity \in Nat \ {0}

VARIABLES
    (* kept by the stores *)
    produced,      \* the query's results so far, numbered from 1
    checkpoint,    \* the reaction's checkpoint, 0 while there is none
    (* gone with the engine *)
    policy,        \* the recovery policy the reaction was added with, or "none"
    loop,          \* what the reaction's loop does
    pos,           \* the last result the loop is done with
    worked,        \* whether the callback has done its work on the next one
    (* history *)
    delivered,     \* results the callback has done its work on
    passed,        \* results a start passed over
    doubt,         \* results worked on by a loop that ended before the checkpoint
    blind          \* whether some start could not read the checkpoint there was

stores == <<produced, checkpoint>>
reactionHistory == <<delivered, passed, doubt, blind>>
reactionVars == <<produced, checkpoint, policy, loop, pos, worked, delivered, passed, doubt, blind>>

Results == 1..MaxResults
Policies == {"strict", "auto_reset", "skip_gap"}

\* Every variable has its type (CsharpReaction, QueryResult).
ReactionTypeOK ==
    /\ produced \in 0..MaxResults /\ checkpoint \in 0..produced /\ pos \in 0..produced
    /\ policy \in Policies \cup {"none"}
    /\ loop \in {"off", "taking", "calling", "saving"} /\ worked \in BOOLEAN
    /\ loop # "off" => policy # "none"
    /\ loop \in {"calling", "saving"} => pos < produced
    /\ delivered \in SUBSET Results /\ passed \in SUBSET Results /\ doubt \in SUBSET Results
    /\ blind \in BOOLEAN

ReactionInit ==
    /\ produced = 0 /\ checkpoint = 0
    /\ policy = "none" /\ loop = "off" /\ pos = 0 /\ worked = FALSE
    /\ delivered = {} /\ passed = {} /\ doubt = {} /\ blind = FALSE

\* The query emits a result.
Produce ==
    /\ produced < MaxResults
    /\ produced' = produced + 1
    /\ UNCHANGED <<checkpoint, policy, loop, pos, worked, reactionHistory>>

Oldest == IF produced < OutboxCapacity THEN 1 ELSE produced - OutboxCapacity + 1

-----------------------------------------------------------------------------
(* add_durable_reaction and CsharpReaction::start *)

\* Every engine adds its reactions anew; this one has a state store.
AddDurableReaction ==
    /\ policy = "none"
    /\ policy' \in Policies
    /\ UNCHANGED <<stores, loop, pos, worked, reactionHistory>>

\* MUTANT of ReadCheckpoints: the loop is given no checkpoints.
ReadCheckpoints_Default(readable) == 0

\* MUTANT of ReadCheckpoints: the checkpoint is taken for the next result to handle.
ReadCheckpoints_Next(readable) == IF readable /\ checkpoint # 0 THEN checkpoint + 1 ELSE 0

\* read_all_checkpoints().await.unwrap_or_default()
ReadCheckpoints(readable) == IF readable THEN checkpoint ELSE 0

\* Where the loop goes on from checkpoint c.  Without one drasi-lib chooses; when
\* the outbox has lost the next result the policy does, and strict stops the loop.
Positions(c) ==
    IF c = 0 THEN 0..produced
    ELSE IF Oldest <= c + 1 THEN {c}
    ELSE IF policy = "auto_reset" THEN {produced}
    ELSE IF policy = "skip_gap" THEN {Oldest - 1}
    ELSE {}

Start(readable) ==
    /\ policy # "none" /\ loop = "off"
    /\ \E p \in Positions(ReadCheckpoints(readable)) :
          /\ pos' = p
          /\ passed' = passed \cup ((ReadCheckpoints(readable) + 1)..p)
    /\ loop' = "taking" /\ worked' = FALSE
    /\ blind' = (blind \/ (~readable /\ checkpoint # 0))
    /\ UNCHANGED <<stores, policy, delivered, doubt>>

-----------------------------------------------------------------------------
(* The loop and the callback *)

TakeResult ==
    /\ loop = "taking" /\ pos < produced
    /\ loop' = "calling" /\ worked' = FALSE
    /\ UNCHANGED <<stores, policy, pos, reactionHistory>>

\* The delegate does what it is there for, on the loop's thread or, awaited by
\* OnNativeCallback, on another.
CallbackWorks ==
    /\ loop = "calling" /\ ~worked
    /\ worked' = TRUE
    /\ delivered' = delivered \cup {pos + 1}
    /\ UNCHANGED <<stores, policy, loop, pos, passed, doubt, blind>>

\* What a loop that ends now leaves in doubt.
InDoubt == IF loop # "off" /\ worked THEN {pos + 1} ELSE {}

\* MUTANT of Dispatch: the callback's status is not looked at.
Dispatch_IgnoresStatus(status) == loop' = "saving" /\ UNCHANGED doubt

\* MUTANT of Dispatch: a failed result is dispatched again at once.
Dispatch_Retries(status) ==
    /\ loop' = IF status = 0 THEN "saving" ELSE "taking"
    /\ doubt' = IF status = 0 THEN doubt ELSE doubt \cup InDoubt

\* dispatch turns a status other than 0 into an error, on which the loop ends.
Dispatch(status) ==
    /\ loop' = IF status = 0 THEN "saving" ELSE "off"
    /\ doubt' = IF status = 0 THEN doubt ELSE doubt \cup InDoubt

\* OnNativeCallback returns 0 when the delegate has come back, -1 when it has
\* thrown, before, in or after its work.
OnNativeCallback ==
    /\ loop = "calling"
    /\ (worked /\ Dispatch(0)) \/ Dispatch(-1)
    /\ UNCHANGED <<stores, policy, pos, worked, delivered, passed, blind>>

\* The loop saves the checkpoint, or ends because the store refuses it.
SaveCheckpoint ==
    /\ loop = "saving"
    /\ \/ /\ checkpoint' = pos + 1 /\ pos' = pos + 1
          /\ loop' = "taking" /\ worked' = FALSE
          /\ UNCHANGED doubt
       \/ /\ loop' = "off" /\ doubt' = doubt \cup InDoubt
          /\ UNCHANGED <<checkpoint, pos, worked>>
    /\ UNCHANGED <<produced, policy, delivered, passed, blind>>

\* stop_common ends the loop between two steps; a callback is not interrupted.
Stop ==
    /\ loop \in {"taking", "saving"}
    /\ loop' = "off" /\ doubt' = doubt \cup InDoubt
    /\ UNCHANGED <<stores, policy, pos, worked, delivered, passed, blind>>

\* The engine is gone: shut down, with no callback under way, or the process died.
EngineEnds ==
    /\ policy # "none"
    /\ policy' = "none"
    /\ loop' = "off" /\ doubt' = doubt \cup InDoubt
    /\ UNCHANGED <<stores, pos, worked, delivered, passed, blind>>

LoopStep == TakeResult \/ CallbackWorks \/ OnNativeCallback \/ SaveCheckpoint

ReactionNext ==
    \/ Produce \/ AddDurableReaction \/ (\E readable \in BOOLEAN : Start(readable))
    \/ LoopStep \/ Stop \/ EngineEnds

ReactionSpec == ReactionInit /\ [][ReactionNext]_reactionVars

\* The loop's task runs, and a callback comes back one way or the other.
ReactionFairSpec == ReactionSpec /\ WF_reactionVars(LoopStep)

-----------------------------------------------------------------------------
(* Properties *)

\* The checkpoint is never past a result whose callback has not done its work,
\* whatever failed, was stopped or crashed in between, except for results that a
\* start passed over: those before a start that found no checkpoint or could not
\* read it, and those the outbox had lost under a policy other than strict
\* (dispatch, OnNativeCallback, start).
CheckpointedWasDelivered ==
    \A n \in 1..checkpoint : n \in delivered \cup passed

\* A callback sees a result again only when an interruption came between its
\* work and the checkpoint, or after a start that could not read the checkpoint
\* (unwrap_or_default in CsharpReaction::start).
RedeliveryIsDue ==
    [][\A n \in delivered : n = pos + 1 /\ ~worked /\ worked' => n \in doubt \/ blind]_reactionVars

\* Over all engines and failures, a callback sees a result for the first time only
\* after those before it, but for results that a start passed over: a result that
\* fails holds up what comes behind it (dispatch, start).
FirstTimeInOrder ==
    [][\A n \in delivered' \ delivered : 1..(n - 1) \subseteq delivered \cup passed]_reactionVars

Promise == INSTANCE AtLeastOnce
             WITH Kept <- OutboxCapacity, emitted <- produced, mark <- checkpoint,
                  seen <- delivered, excused <- passed, amnesia <- blind,
                  lenient <- policy \in {"auto_reset", "skip_gap"}

\* Loop, callback and checkpoint together deliver at least once and in order: while
\* the checkpoint can be read it goes only forward, and only past what was seen, and
\* a strict reaction passes over nothing that came after it (start, dispatch and
\* ReactionRecoveryPolicy against AtLeastOnce).
PromiseSpec == Promise!Spec

\* As long as the loop runs it comes to every result (run_standard_loop over
\* dispatch): a result that always fails ends it rather than being tried for ever.
LoopComesToAll ==
    \A n \in Results :
        loop # "off" /\ produced >= n ~> n \in delivered \cup passed \/ loop = "off"
=============================================================================
