----------------------------- MODULE CsharpSource -----------------------------
(***************************************************************************)
(* The in-process source of native/src/components.rs: concurrent pushes,   *)
(* the two locks they take, the snapshot replayed to a query that          *)
(* subscribes late, and the ordered stream every subscribed query reads.   *)
(*                                                                         *)
(* The source owns the two mutexes and the snapshot.  Sequence numbers,    *)
(* the fan-out to subscribers and the order in which a query reads its     *)
(* bootstrap and its stream belong to drasi-lib and are modelled from how  *)
(* components.rs uses and describes them.                                  *)
(***************************************************************************)
EXTENDS Naturals, Sequences, FiniteSets

CONSTANTS Pushers,      \* managed callers of PushChangeAsync
          Queries,      \* queries that subscribe to the source
          ElementIds,   \* ids of graph elements
          Values,       \* element bodies, a node's or a relation's
          KindOf,       \* [Values -> {"node", "relation"}]
          LabelsOf,     \* [Values -> SUBSET labels]
          Requested,    \* [Queries -> [node: SUBSET labels, relation: SUBSET labels]]
          Absent,       \* stands for "no element with this id"
          Nobody,       \* holder of a free lock
          QueueCap,     \* changes a subscription may hold unread
          MaxPushes     \* bound of the model on the number of pushes

ASSUME SourceAssumption ==
    /\ ElementIds # {} /\ Absent \notin Values
    /\ Nobody \notin Pushers \cup Queries
    /\ Pushers \cap Queries = {}
    /\ KindOf \in [Values -> {"node", "relation"}]
    /\ QueueCap \in Nat \ {0}
    /\ MaxPushes \in Nat

\* An insert or an update carries a body, a delete carries none.
Change == [id : ElementIds, body : Values \cup {Absent}]

VARIABLES
    (* the source *)
    dispatch,   \* holder of the `dispatch' mutex
    snapLock,   \* holder of the `snapshot' mutex while it bootstraps, or Nobody
    snapshot,   \* [ElementIds -> Values \cup {Absent}]: the live elements
    (* its callers *)
    pc,         \* [Pushers -> control point inside push]
    change,     \* [Pushers -> the change being pushed]
    place,      \* [Pushers -> the sequence number the change took]
    (* drasi-lib: the dispatcher and the subscribed queries *)
    sequence,   \* the source's sequence counter
    targets,    \* [Pushers -> subscriptions its dispatch has not reached yet]
    phase,      \* [Queries -> "idle", "subscribed", "boot" or "live"]
    pending,    \* [Queries -> elements the bootstrap has still to send]
    stream,     \* [Queries -> sequence numbers delivered to the subscription]
    read,       \* [Queries -> how many of them the query has applied]
    view,       \* [Queries -> [ElementIds -> Values \cup {Absent}]]
    (* history *)
    log,        \* the change that took each sequence number
    lost        \* sequence numbers whose dispatch reported an error

locks == <<dispatch, snapLock>>
callers == <<pc, change, place>>
subscriptions == <<phase, pending, stream, read, view>>
history == <<log, lost>>
vars == <<dispatch, snapLock, snapshot, pc, change, place, sequence, targets,
          phase, pending, stream, read, view, log, lost>>

PCs == {"idle", "ordering", "ordered", "recorded", "sending"}
Phases == {"idle", "subscribed", "boot", "live"}
Nothing == [id |-> CHOOSE e \in ElementIds : TRUE, body |-> Absent]
NoElements == [e \in ElementIds |-> Absent]

TypeOK ==
    /\ dispatch \in Pushers \cup {Nobody}
    /\ snapLock \in Queries \cup {Nobody}
    /\ snapshot \in [ElementIds -> Values \cup {Absent}]
    /\ pc \in [Pushers -> PCs]
    /\ change \in [Pushers -> Change]
    /\ place \in [Pushers -> Nat]
    /\ sequence \in Nat
    /\ targets \in [Pushers -> SUBSET Queries]
    /\ phase \in [Queries -> Phases]
    /\ pending \in [Queries -> SUBSET ElementIds]
    /\ stream \in [Queries -> Seq(Nat)]
    /\ read \in [Queries -> Nat]
    /\ view \in [Queries -> [ElementIds -> Values \cup {Absent}]]
    /\ log \in Seq(Change)
    /\ lost \in SUBSET Nat

Init ==
    /\ dispatch = Nobody /\ snapLock = Nobody
    /\ snapshot = NoElements
    /\ pc = [p \in Pushers |-> "idle"]
    /\ change = [p \in Pushers |-> Nothing]
    /\ place = [p \in Pushers |-> 0]
    /\ sequence = 0
    /\ targets = [p \in Pushers |-> {}]
    /\ phase = [q \in Queries |-> "idle"]
    /\ pending = [q \in Queries |-> {}]
    /\ stream = [q \in Queries |-> <<>>]
    /\ read = [q \in Queries |-> 0]
    /\ view = [q \in Queries |-> NoElements]
    /\ log = <<>> /\ lost = {}

-----------------------------------------------------------------------------
(* CsharpSource::push *)

InFlight == {p \in Pushers : pc[p] # "idle"}

\* A managed caller has been let through to the source with its change.
Push(p, c) ==
    /\ pc[p] = "idle"
    /\ Len(log) + Cardinality(InFlight) < MaxPushes
    /\ pc' = [pc EXCEPT ![p] = "ordering"]
    /\ change' = [change EXCEPT ![p] = c]
    /\ UNCHANGED <<locks, snapshot, place, sequence, targets, subscriptions, history>>

\* Mutant: push does not take the `dispatch' mutex.
TakeDispatch_Unlocked(p) ==
    /\ pc[p] = "ordering"
    /\ dispatch' = p
    /\ pc' = [pc EXCEPT ![p] = "ordered"]
    /\ UNCHANGED <<snapLock, snapshot, change, place, sequence, targets,
                   subscriptions, history>>

\* self.dispatch.lock().await
TakeDispatch(p) ==
    /\ pc[p] = "ordering" /\ dispatch = Nobody
    /\ dispatch' = p
    /\ pc' = [pc EXCEPT ![p] = "ordered"]
    /\ UNCHANGED <<snapLock, snapshot, change, place, sequence, targets,
                   subscriptions, history>>

\* Mutant: the snapshot is written while a bootstrap iterates over it.
RecordInSnapshot_Unlocked(p) ==
    /\ pc[p] = "ordered"
    /\ snapshot' = [snapshot EXCEPT ![change[p].id] = change[p].body]
    /\ pc' = [pc EXCEPT ![p] = "recorded"]
    /\ UNCHANGED <<locks, change, place, sequence, targets, subscriptions, history>>

\* Mutant: the match has no arm for Delete, so deleted elements are replayed.
RecordInSnapshot_KeepsDeleted(p) ==
    /\ pc[p] = "ordered" /\ snapLock = Nobody
    /\ snapshot' = IF change[p].body = Absent THEN snapshot
                   ELSE [snapshot EXCEPT ![change[p].id] = change[p].body]
    /\ pc' = [pc EXCEPT ![p] = "recorded"]
    /\ UNCHANGED <<locks, change, place, sequence, targets, subscriptions, history>>

\* The snapshot is locked, changed and unlocked with no await in between.
RecordInSnapshot(p) ==
    /\ pc[p] = "ordered" /\ snapLock = Nobody
    /\ snapshot' = [snapshot EXCEPT ![change[p].id] = change[p].body]
    /\ pc' = [pc EXCEPT ![p] = "recorded"]
    /\ UNCHANGED <<locks, change, place, sequence, targets, subscriptions, history>>

Subscribed == {q \in Queries : phase[q] # "idle"}

\* Mutant: a query is put on the list of subscribers when its bootstrap has ended.
TakeSequence_SkipsJoiners(p) ==
    /\ pc[p] = "recorded"
    /\ sequence' = sequence + 1
    /\ place' = [place EXCEPT ![p] = sequence + 1]
    /\ targets' = [targets EXCEPT ![p] = {q \in Subscribed : phase[q] = "live"}]
    /\ log' = Append(log, change[p])
    /\ pc' = [pc EXCEPT ![p] = "sending"]
    /\ UNCHANGED <<locks, snapshot, change, subscriptions, lost>>

\* dispatch_source_change takes a sequence number and the list of subscribers.
TakeSequence(p) ==
    /\ pc[p] = "recorded"
    /\ sequence' = sequence + 1
    /\ place' = [place EXCEPT ![p] = sequence + 1]
    /\ targets' = [targets EXCEPT ![p] = Subscribed]
    /\ log' = Append(log, change[p])
    /\ pc' = [pc EXCEPT ![p] = "sending"]
    /\ UNCHANGED <<locks, snapshot, change, subscriptions, lost>>

Unread(q) == Len(stream[q]) - read[q]

\* It then awaits its way to each subscriber, which may make it wait.
Deliver(p, q) ==
    /\ pc[p] = "sending" /\ q \in targets[p]
    /\ Unread(q) < QueueCap
    /\ stream' = [stream EXCEPT ![q] = Append(@, place[p])]
    /\ targets' = [targets EXCEPT ![p] = @ \ {q}]
    /\ UNCHANGED <<locks, snapshot, callers, sequence, phase, pending, read, view, history>>

\* The guard of `dispatch' is dropped on every way out of push.
Leave(p) ==
    /\ pc' = [pc EXCEPT ![p] = "idle"]
    /\ change' = [change EXCEPT ![p] = Nothing]
    /\ place' = [place EXCEPT ![p] = 0]
    /\ dispatch' = Nobody
    /\ targets' = [targets EXCEPT ![p] = {}]
    /\ UNCHANGED <<snapLock, snapshot, sequence, subscriptions, log>>

\* Mutant: push reports success before every subscriber has the change.
PushDone_Early(p) ==
    /\ pc[p] = "sending"
    /\ Leave(p)
    /\ UNCHANGED lost

PushDone(p) ==
    /\ pc[p] = "sending" /\ targets[p] = {}
    /\ Leave(p)
    /\ UNCHANGED lost

\* The dispatch reports an error; the snapshot keeps the change regardless.
PushFails(p) ==
    /\ pc[p] = "sending"
    /\ Leave(p)
    /\ lost' = lost \cup {place[p]}

-----------------------------------------------------------------------------
(* Subscribing with a bootstrap *)

\* labels_match, on the label list that fits the kind of the element
Wanted(q, v) ==
    /\ v # Absent
    /\ LET requested == Requested[q][KindOf[v]]
       IN  requested = {} \/ LabelsOf[v] \cap requested # {}

\* subscribe_with_bootstrap opens the stream before the bootstrap begins.
Subscribe(q) ==
    /\ phase[q] = "idle"
    /\ phase' = [phase EXCEPT ![q] = "subscribed"]
    /\ UNCHANGED <<locks, snapshot, callers, sequence, targets, pending, stream, read,
                   view, history>>

\* SnapshotBootstrap::bootstrap holds the snapshot lock until it returns.
BeginBootstrap(q) ==
    /\ phase[q] = "subscribed" /\ snapLock = Nobody
    /\ snapLock' = q
    /\ phase' = [phase EXCEPT ![q] = "boot"]
    /\ pending' = [pending EXCEPT ![q] = {e \in ElementIds : Wanted(q, snapshot[e])}]
    /\ UNCHANGED <<dispatch, snapshot, callers, sequence, targets, stream, read, view,
                   history>>

SendElement(q, e) ==
    /\ phase[q] = "boot" /\ e \in pending[q]
    /\ pending' = [pending EXCEPT ![q] = @ \ {e}]
    /\ view' = [view EXCEPT ![q][e] = snapshot[e]]
    /\ UNCHANGED <<locks, snapshot, callers, sequence, targets, phase, stream, read, history>>

\* Mutant: the snapshot lock is not given back at the end of a bootstrap.
EndBootstrap_KeepsLock(q) ==
    /\ phase[q] = "boot" /\ pending[q] = {}
    /\ phase' = [phase EXCEPT ![q] = "live"]
    /\ UNCHANGED <<locks, snapshot, callers, sequence, targets, pending, stream, read,
                   view, history>>

EndBootstrap(q) ==
    /\ phase[q] = "boot" /\ pending[q] = {}
    /\ snapLock' = Nobody
    /\ phase' = [phase EXCEPT ![q] = "live"]
    /\ UNCHANGED <<dispatch, snapshot, callers, sequence, targets, pending, stream, read,
                   view, history>>

\* A live query applies its stream in the order in which it was delivered.
Apply(q) ==
    /\ phase[q] = "live" /\ Unread(q) > 0
    /\ LET c == log[stream[q][read[q] + 1]]
       IN  view' = [view EXCEPT ![q][c.id] = c.body]
    /\ read' = [read EXCEPT ![q] = @ + 1]
    /\ UNCHANGED <<locks, snapshot, callers, sequence, targets, phase, pending, stream,
                   history>>

\* Mutant: the error path of a failed bootstrap keeps the snapshot lock.
Unsubscribe_KeepsLock(q) ==
    /\ phase[q] # "idle"
    /\ phase' = [phase EXCEPT ![q] = "idle"]
    /\ targets' = [p \in Pushers |-> targets[p] \ {q}]
    /\ pending' = [pending EXCEPT ![q] = {}]
    /\ stream' = [stream EXCEPT ![q] = <<>>]
    /\ read' = [read EXCEPT ![q] = 0]
    /\ view' = [view EXCEPT ![q] = NoElements]
    /\ UNCHANGED <<locks, snapshot, callers, sequence, history>>

\* The query stops: its channels close, and a bootstrap that was sending to it
\* fails at its next send and drops the snapshot lock.
Unsubscribe(q) ==
    /\ phase[q] # "idle"
    /\ phase' = [phase EXCEPT ![q] = "idle"]
    /\ snapLock' = IF snapLock = q THEN Nobody ELSE snapLock
    /\ targets' = [p \in Pushers |-> targets[p] \ {q}]
    /\ pending' = [pending EXCEPT ![q] = {}]
    /\ stream' = [stream EXCEPT ![q] = <<>>]
    /\ read' = [read EXCEPT ![q] = 0]
    /\ view' = [view EXCEPT ![q] = NoElements]
    /\ UNCHANGED <<dispatch, snapshot, callers, sequence, history>>

PushStep(p) ==
    \/ TakeDispatch(p) \/ RecordInSnapshot(p) \/ TakeSequence(p)
    \/ \E q \in Queries : Deliver(p, q)
    \/ PushDone(p) \/ PushFails(p)

QueryStep(q) ==
    \/ BeginBootstrap(q) \/ EndBootstrap(q) \/ Apply(q)
    \/ \E e \in ElementIds : SendElement(q, e)

Next ==
    \/ \E p \in Pushers : PushStep(p) \/ \E c \in Change : Push(p, c)
    \/ \E q \in Queries : QueryStep(q) \/ Subscribe(q) \/ Unsubscribe(q)

\* tokio runs every task, and its mutexes are granted in arrival order; pushes,
\* subscriptions and failures are not promised to happen.
Fairness ==
    /\ \A p \in Pushers :
          /\ SF_vars(TakeDispatch(p)) /\ SF_vars(RecordInSnapshot(p))
          /\ WF_vars(TakeSequence(p)) /\ WF_vars(PushDone(p))
          /\ SF_vars(\E q \in Queries : Deliver(p, q))
    /\ \A q \in Queries :
          /\ SF_vars(BeginBootstrap(q)) /\ WF_vars(EndBootstrap(q)) /\ WF_vars(Apply(q))
          /\ WF_vars(\E e \in ElementIds : SendElement(q, e))

Spec == Init /\ [][Next]_vars
FairSpec == Spec /\ Fairness

-----------------------------------------------------------------------------
(* Properties *)

\* At most one push is between taking its sequence number and the end of its
\* delivery, and it is the one that holds the dispatch lock.
DispatchSerialised ==
    /\ \A p \in Pushers : pc[p] \in {"ordered", "recorded", "sending"} => dispatch = p
    /\ \A p \in Pushers : pc[p] = "sending" => place[p] = sequence
    /\ \A p \in Pushers : targets[p] # {} => pc[p] = "sending"

\* Sequence order is delivery order (the comment on `dispatch'): a subscription
\* never receives a sequence number that is not above all it received before.
DeliveredInOrder ==
    \A q \in Queries : \A i, j \in 1..Len(stream[q]) :
        i < j => stream[q][i] < stream[q][j]

\* A subscription has no hole: a number missing between two that it received
\* belongs to a push whose dispatch reported an error.
NoSilentGap ==
    \A q \in Queries : \A i \in 1..Len(stream[q]) - 1 :
        (stream[q][i] + 1)..(stream[q][i + 1] - 1) \subseteq lost

\* A bootstrap replays one state of the source: what it has sent and what it
\* has still to send are together the wanted part of the present snapshot.
BootstrapIsOneState ==
    \A q \in Queries : phase[q] = "boot" =>
        \A e \in ElementIds :
            IF e \in pending[q] THEN Wanted(q, snapshot[e]) /\ view[q][e] = Absent
            ELSE view[q][e] = IF Wanted(q, snapshot[e]) THEN snapshot[e] ELSE Absent

\* Positions of q's unread changes to e
UnreadAbout(q, e) ==
    {i \in read[q] + 1..Len(stream[q]) : log[stream[q][i]].id = e}

\* What q will hold for e once it has read all that was sent to it
Settled(q, e) ==
    LET about == UnreadAbout(q, e)
    IN  IF about # {}
        THEN log[stream[q][CHOOSE i \in about : \A j \in about : j <= i]].body
        ELSE IF phase[q] = "subscribed" \/ e \in pending[q] THEN snapshot[e] ELSE view[q][e]

\* A recorded change to e is on its way to q, or its dispatch failed and no
\* later change to e was recorded.
OnItsWay(q, e) ==
    \E p \in Pushers : change[p].id = e /\
        \/ pc[p] = "recorded"
        \/ pc[p] = "sending" /\ q \in targets[p]

Abandoned(e) ==
    \E n \in lost : log[n].id = e /\ \A m \in n + 1..Len(log) : log[m].id # e

Visible(q, v) == IF Wanted(q, v) THEN v ELSE Absent

\* Wherever its subscription fell between the snapshot write and the dispatch
\* of a concurrent push, a query ends up with the source's elements: none is
\* lost, none survives its deletion, whatever the labels it asked for.
LateJoinerConverges ==
    \A q \in Subscribed, e \in ElementIds :
        \/ OnItsWay(q, e) \/ Abandoned(e)
        \/ Visible(q, Settled(q, e)) = Visible(q, snapshot[e])

\* Two locks and bounded queues never stop a push for ever.
PushReturns == \A p \in Pushers : pc[p] = "ordering" ~> pc[p] = "idle"

\* Every query that stays subscribed finishes its bootstrap.
BootstrapEnds ==
    \A q \in Queries : phase[q] = "subscribed" ~> phase[q] \in {"live", "idle"}

Owed == UNION {targets[p] : p \in Pushers}
Feed == INSTANCE ChangeFeed
            WITH Subscribers <- Queries, Changes <- Change, subscribed <- Subscribed,
                 owed <- Owed

\* The locks and channels implement the abstract feed: a change is owed to every
\* query that is subscribed when it takes its number, however far its bootstrap has
\* come, and reaches each of them before the next is numbered, unless its push
\* reports an error (CsharpSource::push against ChangeFeed).
FeedSpec == Feed!Spec
=============================================================================
