-------------------------- MODULE CsharpSourceProofs --------------------------
(***************************************************************************)
(* What CsharpSource guarantees for any number of pushers, queries,        *)
(* elements and pushes: pushes are serialised, every subscription receives *)
(* them in order and without a silent gap, a bootstrap replays one state,  *)
(* a late joiner ends up with the source's elements, and the source        *)
(* implements ChangeFeed.                                                  *)
(***************************************************************************)
EXTENDS CsharpSource, WellFoundedInduction, TLAPS

\* Sequence numbers are positions of the log, in the streams and in `lost'.
Counted ==
    /\ sequence = Len(log)
    /\ lost \subseteq 1..sequence
    /\ \A q \in Queries : \A i \in 1..Len(stream[q]) : stream[q][i] \in 1..sequence

\* Whoever is owed a change has received only older ones; the change being sent
\* is the newest and has not been given up.
Fresh ==
    /\ \A p \in Pushers : \A q \in targets[p] : \A i \in 1..Len(stream[q]) :
           stream[q][i] < sequence
    /\ \A p \in Pushers : pc[p] = "sending" => sequence > 0 /\ sequence \notin lost

\* Only a subscribed query is owed a change.
Owing == \A p \in Pushers : \A q \in targets[p] : q \in Queries /\ phase[q] # "idle"

\* Everything after the last number a subscription received is lost or owed to it.
UpToDate(q) ==
    \A n \in 1..sequence :
        stream[q][Len(stream[q])] < n =>
            n \in lost \/ (n = sequence /\ \E p \in Pushers : q \in targets[p])

Gaps == \A q \in Queries : stream[q] # <<>> => phase[q] # "idle" /\ UpToDate(q)

\* The query that bootstraps holds the snapshot lock; before it, nothing is held.
SnapshotHeld ==
    \A q \in Queries :
        /\ phase[q] = "boot" => snapLock = q
        /\ phase[q] \in {"idle", "subscribed"} => view[q] = NoElements

-----------------------------------------------------------------------------
(* Facts about sequences *)

LEMMA AppendFacts ==
    ASSUME NEW S, NEW s \in Seq(S), NEW n \in S
    PROVE  /\ Append(s, n) \in Seq(S)
           /\ Len(Append(s, n)) = Len(s) + 1
           /\ \A i \in 1..Len(s) : Append(s, n)[i] = s[i]
           /\ Append(s, n)[Len(s) + 1] = n
           /\ Append(s, n) # <<>>
OBVIOUS

LEMMA NothingType == Nothing \in Change
BY SourceAssumption DEF Nothing, Change

-----------------------------------------------------------------------------
(* TypeOK *)

CallerTypes ==
    /\ dispatch \in Pushers \cup {Nobody}
    /\ pc \in [Pushers -> PCs]
    /\ change \in [Pushers -> Change]
    /\ place \in [Pushers -> Nat]
    /\ sequence \in Nat
    /\ targets \in [Pushers -> SUBSET Queries]
    /\ log \in Seq(Change)
    /\ lost \in SUBSET Nat

QueryTypes ==
    /\ snapLock \in Queries \cup {Nobody}
    /\ snapshot \in [ElementIds -> Values \cup {Absent}]
    /\ phase \in [Queries -> Phases]
    /\ pending \in [Queries -> SUBSET ElementIds]
    /\ stream \in [Queries -> Seq(Nat)]
    /\ read \in [Queries -> Nat]
    /\ view \in [Queries -> [ElementIds -> Values \cup {Absent}]]

LEMMA TypeParts == TypeOK <=> CallerTypes /\ QueryTypes
BY DEF TypeOK, CallerTypes, QueryTypes

LEMMA InitTypes == Init => TypeOK
<1> SUFFICES ASSUME Init PROVE TypeOK
  OBVIOUS
<1>1. CallerTypes
  BY NothingType DEF Init, CallerTypes, PCs
<1>2. QueryTypes
  BY DEF Init, QueryTypes, NoElements, Phases
<1> QED
  BY <1>1, <1>2, TypeParts

LEMMA CallerTypesStep ==
    ASSUME CallerTypes, [Next]_vars
    PROVE  CallerTypes'
<1> USE DEF CallerTypes, PCs, locks, callers, subscriptions, history
<1>1. ASSUME NEW p \in Pushers, PushStep(p)
      PROVE  CallerTypes'
  <2>1. CASE TakeDispatch(p)
    BY <2>1 DEF TakeDispatch
  <2>2. CASE RecordInSnapshot(p)
    BY <2>2 DEF RecordInSnapshot
  <2>3. CASE TakeSequence(p)
    <3>1. log' \in Seq(Change)
      BY <2>3, AppendFacts DEF TakeSequence
    <3>2. Subscribed \in SUBSET Queries
      BY DEF Subscribed
    <3> QED
      BY <2>3, <3>1, <3>2 DEF TakeSequence
  <2>4. ASSUME NEW q \in Queries, Deliver(p, q)
        PROVE  CallerTypes'
    BY <2>4 DEF Deliver
  <2>5. CASE PushDone(p)
    BY <2>5, NothingType DEF PushDone, Leave
  <2>6. CASE PushFails(p)
    BY <2>6, NothingType DEF PushFails, Leave
  <2> QED
    BY <1>1, <2>1, <2>2, <2>3, <2>4, <2>5, <2>6 DEF PushStep
<1>2. ASSUME NEW p \in Pushers, NEW c \in Change, Push(p, c)
      PROVE  CallerTypes'
  BY <1>2 DEF Push
<1>3. ASSUME NEW q \in Queries, QueryStep(q) \/ Subscribe(q)
      PROVE  CallerTypes'
  BY <1>3 DEF QueryStep, BeginBootstrap, SendElement, EndBootstrap, Apply, Subscribe
<1>4. ASSUME NEW q \in Queries, Unsubscribe(q)
      PROVE  CallerTypes'
  BY <1>4 DEF Unsubscribe
<1>5. CASE UNCHANGED vars
  BY <1>5 DEF vars
<1> QED
  BY <1>1, <1>2, <1>3, <1>4, <1>5 DEF Next

LEMMA QueryTypesStep ==
    ASSUME TypeOK, Counted, [Next]_vars
    PROVE  QueryTypes'
<1> USE DEF TypeOK, QueryTypes, Phases, locks, callers, subscriptions, history
<1>1. ASSUME NEW p \in Pushers, PushStep(p)
      PROVE  QueryTypes'
  <2>1. CASE RecordInSnapshot(p)
    BY <2>1 DEF RecordInSnapshot, Change
  <2>2. ASSUME NEW q \in Queries, Deliver(p, q)
        PROVE  QueryTypes'
    BY <2>2, AppendFacts DEF Deliver
  <2>3. CASE TakeDispatch(p) \/ TakeSequence(p) \/ PushDone(p) \/ PushFails(p)
    BY <2>3 DEF TakeDispatch, TakeSequence, PushDone, PushFails, Leave
  <2> QED
    BY <1>1, <2>1, <2>2, <2>3 DEF PushStep
<1>2. ASSUME NEW p \in Pushers, NEW c \in Change, Push(p, c)
      PROVE  QueryTypes'
  BY <1>2 DEF Push
<1>3. ASSUME NEW q \in Queries, BeginBootstrap(q) \/ EndBootstrap(q) \/ Subscribe(q)
      PROVE  QueryTypes'
  BY <1>3 DEF BeginBootstrap, EndBootstrap, Subscribe
<1>4. ASSUME NEW q \in Queries, NEW e \in ElementIds, SendElement(q, e)
      PROVE  QueryTypes'
  BY <1>4 DEF SendElement
<1>5. ASSUME NEW q \in Queries, Apply(q)
      PROVE  QueryTypes'
  <2>1. stream[q][read[q] + 1] \in 1..Len(log)
    BY <1>5 DEF Apply, Unread, Counted
  <2>2. log[stream[q][read[q] + 1]] \in Change
    BY <2>1
  <2>3. view' \in [Queries -> [ElementIds -> Values \cup {Absent}]]
    BY <1>5, <2>2 DEF Apply, Change
  <2> QED
    BY <1>5, <2>3 DEF Apply
<1>6. ASSUME NEW q \in Queries, Unsubscribe(q)
      PROVE  QueryTypes'
  BY <1>6, SourceAssumption DEF Unsubscribe, NoElements
<1>7. CASE UNCHANGED vars
  BY <1>7 DEF vars
<1> QED
  BY <1>1, <1>2, <1>3, <1>4, <1>5, <1>6, <1>7 DEF Next, QueryStep

LEMMA TypeStep ==
    ASSUME TypeOK, Counted, [Next]_vars
    PROVE  TypeOK'
<1>1. CallerTypes' /\ QueryTypes'
  BY CallerTypesStep, QueryTypesStep, TypeParts
<1> QED
  BY <1>1 DEF TypeOK, CallerTypes, QueryTypes

-----------------------------------------------------------------------------
(* The steps that matter to the order of the stream, and those that do not *)

Line == <<dispatch, pc, place, sequence, targets, stream, log, lost>>

\* A query's own steps leave the pushes and the streams alone.
LEMMA QueryStepFrame ==
    ASSUME NEW q \in Queries, QueryStep(q) \/ Subscribe(q)
    PROVE  UNCHANGED Line
BY DEF QueryStep, BeginBootstrap, EndBootstrap, Apply, SendElement, Subscribe, Line,
       locks, callers, subscriptions, history

\* So do a push before it takes its number, apart from its own control point.
LEMMA EarlyPushFrame ==
    ASSUME TypeOK, NEW p \in Pushers,
           TakeDispatch(p) \/ RecordInSnapshot(p) \/ (\E c \in Change : Push(p, c))
    PROVE  /\ UNCHANGED <<place, sequence, targets, phase, stream, log, lost>>
           /\ \A r \in Pushers \ {p} : pc'[r] = pc[r]
           /\ pc[p] # "sending" /\ pc'[p] # "sending"
BY DEF TypeOK, TakeDispatch, RecordInSnapshot, Push, locks, callers, subscriptions, history

LEMMA CountedStep ==
    ASSUME TypeOK, Counted, DispatchSerialised, Fresh, [Next]_vars
    PROVE  Counted'
<1> USE DEF Counted, locks, callers, subscriptions, history
<1>1. ASSUME NEW p \in Pushers, TakeSequence(p)
      PROVE  Counted'
  <2>1. Len(log') = Len(log) + 1
    BY <1>1, AppendFacts DEF TakeSequence, TypeOK
  <2> QED
    BY <1>1, <2>1 DEF TakeSequence, TypeOK
<1>2. ASSUME NEW p \in Pushers, NEW q \in Queries, Deliver(p, q)
      PROVE  Counted'
  <2>1. place[p] \in 1..sequence /\ place[p] \in Nat
    BY <1>2 DEF Deliver, DispatchSerialised, Fresh, TypeOK
  <2>2. \A r \in Queries :
            stream'[r] = IF r = q THEN Append(stream[q], place[p]) ELSE stream[r]
    BY <1>2 DEF Deliver, TypeOK
  <2>3. \A i \in 1..Len(stream'[q]) : stream'[q][i] \in 1..sequence
    <3>1. stream'[q] = Append(stream[q], place[p]) /\ stream[q] \in Seq(Nat)
      BY <2>2 DEF TypeOK
    <3>2. \A i \in 1..Len(stream[q]) : stream'[q][i] \in 1..sequence
      BY <2>1, <3>1, AppendFacts
    <3>3. Len(stream'[q]) = Len(stream[q]) + 1 /\ stream'[q][Len(stream[q]) + 1] = place[p]
      BY <2>1, <3>1, AppendFacts
    <3> QED
      BY <2>1, <3>1, <3>2, <3>3
  <2> QED
    BY <1>2, <2>2, <2>3 DEF Deliver
<1>3. ASSUME NEW p \in Pushers, PushDone(p) \/ PushFails(p)
      PROVE  Counted'
  <2>1. place[p] \in 1..sequence
    BY <1>3 DEF PushDone, PushFails, DispatchSerialised, Fresh, TypeOK
  <2>2. lost' \subseteq lost \cup {place[p]} /\ UNCHANGED <<sequence, stream, log>>
    BY <1>3 DEF PushDone, PushFails, Leave
  <2> QED
    BY <2>1, <2>2
<1>4. ASSUME NEW q \in Queries, Unsubscribe(q)
      PROVE  Counted'
  BY <1>4 DEF Unsubscribe, TypeOK
<1>5. ASSUME NEW p \in Pushers,
             TakeDispatch(p) \/ RecordInSnapshot(p) \/ (\E c \in Change : Push(p, c))
      PROVE  Counted'
  BY <1>5, EarlyPushFrame
<1>6. ASSUME NEW q \in Queries, QueryStep(q) \/ Subscribe(q)
      PROVE  Counted'
  BY <1>6, QueryStepFrame DEF Line
<1>7. CASE UNCHANGED vars
  BY <1>7 DEF vars
<1> QED
  BY <1>1, <1>2, <1>3, <1>4, <1>5, <1>6, <1>7 DEF Next, PushStep

\* Only the holder of the dispatch lock is past it, so only it is sending.
LEMMA OneSender ==
    ASSUME TypeOK, DispatchSerialised, NEW p \in Pushers, dispatch = p
    PROVE  \A r \in Pushers \ {p} : pc[r] # "sending" /\ targets[r] = {}
BY SourceAssumption DEF DispatchSerialised, TypeOK

LEMMA SerialStep ==
    ASSUME TypeOK, DispatchSerialised, [Next]_vars
    PROVE  DispatchSerialised'
<1> USE SourceAssumption DEF DispatchSerialised, TypeOK, locks, callers, subscriptions, history
<1>1. ASSUME NEW p \in Pushers, PushStep(p)
      PROVE  DispatchSerialised'
  <2>1. CASE TakeDispatch(p)
    BY <2>1 DEF TakeDispatch
  <2>2. CASE RecordInSnapshot(p)
    BY <2>2 DEF RecordInSnapshot
  <2>3. CASE TakeSequence(p)
    BY <2>3, OneSender DEF TakeSequence
  <2>4. ASSUME NEW q \in Queries, Deliver(p, q)
        PROVE  DispatchSerialised'
    BY <2>4 DEF Deliver
  <2>5. CASE PushDone(p) \/ PushFails(p)
    <3>1. dispatch = p /\ UNCHANGED sequence
      BY <2>5 DEF PushDone, PushFails, Leave
    <3>2. \A r \in Pushers : pc'[r] \in {"idle", "ordering"} /\ targets'[r] = {}
      <4>1. pc' = [pc EXCEPT ![p] = "idle"] /\ targets' = [targets EXCEPT ![p] = {}]
        BY <2>5 DEF PushDone, PushFails, Leave
      <4>2. \A r \in Pushers \ {p} : pc[r] \in {"idle", "ordering"} /\ targets[r] = {}
        BY <3>1 DEF PCs
      <4> QED
        BY <4>1, <4>2
    <3> QED
      BY <3>1, <3>2
  <2> QED
    BY <1>1, <2>1, <2>2, <2>3, <2>4, <2>5 DEF PushStep
<1>2. ASSUME NEW p \in Pushers, NEW c \in Change, Push(p, c)
      PROVE  DispatchSerialised'
  BY <1>2 DEF Push
<1>3. ASSUME NEW q \in Queries, QueryStep(q) \/ Subscribe(q)
      PROVE  DispatchSerialised'
  BY <1>3, QueryStepFrame DEF Line
<1>4. ASSUME NEW q \in Queries, Unsubscribe(q)
      PROVE  DispatchSerialised'
  BY <1>4 DEF Unsubscribe
<1>5. CASE UNCHANGED vars
  BY <1>5 DEF vars
<1> QED
  BY <1>1, <1>2, <1>3, <1>4, <1>5 DEF Next

LEMMA FreshStep ==
    ASSUME TypeOK, Counted, DispatchSerialised, Fresh, [Next]_vars
    PROVE  Fresh'
<1> USE DEF Fresh, locks, callers, subscriptions, history
<1>1. ASSUME NEW p \in Pushers, TakeSequence(p)
      PROVE  Fresh'
  <2>1. dispatch = p /\ sequence' = sequence + 1 /\ stream' = stream /\ lost' = lost
    BY <1>1 DEF TakeSequence, DispatchSerialised
  <2>2. \A q \in Queries : \A i \in 1..Len(stream[q]) : stream[q][i] < sequence'
    BY <2>1 DEF Counted, TypeOK
  <2>3. sequence' > 0 /\ sequence' \notin lost'
    BY <2>1 DEF Counted, TypeOK
  <2>4. \A r \in Pushers : targets'[r] \subseteq Queries
    BY <1>1 DEF TakeSequence, TypeOK, Subscribed
  <2> QED
    BY <2>1, <2>2, <2>3, <2>4
<1>2. ASSUME NEW p \in Pushers, NEW q \in Queries, Deliver(p, q)
      PROVE  Fresh'
  <2>1. dispatch = p /\ UNCHANGED <<pc, sequence, lost>>
    BY <1>2 DEF Deliver, DispatchSerialised
  <2>2. \A r \in Pushers : q \notin targets'[r]
    BY <1>2, <2>1, OneSender DEF Deliver, TypeOK
  <2>3. \A s \in Queries \ {q} : stream'[s] = stream[s]
    BY <1>2 DEF Deliver, TypeOK
  <2>4. \A r \in Pushers : targets'[r] \subseteq targets[r] /\ targets'[r] \subseteq Queries
    BY <1>2 DEF Deliver, TypeOK
  <2> QED
    BY <2>1, <2>2, <2>3, <2>4
<1>3. ASSUME NEW p \in Pushers, PushDone(p) \/ PushFails(p)
      PROVE  Fresh'
  <2>1. dispatch = p /\ UNCHANGED <<sequence, stream>>
    BY <1>3 DEF PushDone, PushFails, Leave, DispatchSerialised, subscriptions
  <2>2. \A r \in Pushers : pc'[r] # "sending" /\ targets'[r] = {}
    BY <1>3, <2>1, OneSender DEF PushDone, PushFails, Leave, TypeOK
  <2> QED
    BY <2>2
<1>4. ASSUME NEW q \in Queries, Unsubscribe(q)
      PROVE  Fresh'
  BY <1>4 DEF Unsubscribe, TypeOK
<1>5. ASSUME NEW p \in Pushers,
             TakeDispatch(p) \/ RecordInSnapshot(p) \/ (\E c \in Change : Push(p, c))
      PROVE  Fresh'
  BY <1>5, EarlyPushFrame
<1>6. ASSUME NEW q \in Queries, QueryStep(q) \/ Subscribe(q)
      PROVE  Fresh'
  BY <1>6, QueryStepFrame DEF Line
<1>7. CASE UNCHANGED vars
  BY <1>7 DEF vars
<1> QED
  BY <1>1, <1>2, <1>3, <1>4, <1>5, <1>6, <1>7 DEF Next, PushStep

\* A step that does not touch a stream leaves it in order and without a gap.
LEMMA StreamFrame ==
    ASSUME DeliveredInOrder, NoSilentGap, UNCHANGED stream, lost \subseteq lost'
    PROVE  DeliveredInOrder' /\ NoSilentGap'
BY DEF DeliveredInOrder, NoSilentGap

LEMMA StreamStep ==
    ASSUME TypeOK, Counted, DispatchSerialised, Fresh, Gaps,
           DeliveredInOrder, NoSilentGap, [Next]_vars
    PROVE  DeliveredInOrder' /\ NoSilentGap'
<1> USE DEF locks, callers, subscriptions, history
<1>1. ASSUME NEW p \in Pushers, NEW q \in Queries, Deliver(p, q)
      PROVE  DeliveredInOrder' /\ NoSilentGap'
  <2> DEFINE s == stream[q]
  <2> DEFINE t == Append(s, place[p])
  <2>1. s \in Seq(Nat) /\ place[p] \in Nat /\ place[p] = sequence /\ q \in targets[p]
    BY <1>1 DEF Deliver, TypeOK, DispatchSerialised
  <2>2. /\ Len(t) = Len(s) + 1 /\ t[Len(s) + 1] = sequence
        /\ \A i \in 1..Len(s) : t[i] = s[i]
    BY <2>1, AppendFacts
  <2>3. stream' = [stream EXCEPT ![q] = t] /\ lost' = lost
    BY <1>1 DEF Deliver
  <2>4. \A i \in 1..Len(s) : s[i] \in Nat /\ s[i] < sequence
    BY <1>1, <2>1 DEF Fresh
  <2>5. \A i, j \in 1..Len(t) : i < j => t[i] < t[j]
    BY <2>1, <2>2, <2>4 DEF DeliveredInOrder
  <2>6. ASSUME NEW i \in 1..Len(t) - 1
        PROVE  (t[i] + 1)..(t[i + 1] - 1) \subseteq lost
    <3>1. CASE i < Len(s)
      BY <2>1, <2>2, <3>1 DEF NoSilentGap
    <3>2. CASE i = Len(s)
      <4>1. t[i] = s[Len(s)] /\ t[i + 1] = sequence /\ s # <<>>
        BY <2>1, <2>2, <3>2
      <4>2. UpToDate(q)
        BY <4>1 DEF Gaps
      <4>3. ASSUME NEW n \in (t[i] + 1)..(sequence - 1)
            PROVE  n \in lost
        <5>1. n \in 1..sequence /\ s[Len(s)] < n /\ n # sequence
          BY <2>1, <2>4, <4>1, <3>2 DEF TypeOK
        <5> QED
          BY <5>1, <4>2 DEF UpToDate
      <4> QED
        BY <4>1, <4>3
    <3> QED
      BY <2>1, <2>2, <3>1, <3>2
  <2>7. \A r \in Queries : stream'[r] = IF r = q THEN t ELSE stream[r]
    BY <2>3 DEF TypeOK
  <2>8. DeliveredInOrder'
    BY <2>5, <2>7 DEF DeliveredInOrder
  <2>9. NoSilentGap'
    BY <2>3, <2>6, <2>7 DEF NoSilentGap
  <2> QED
    BY <2>8, <2>9
<1>2. ASSUME NEW q \in Queries, Unsubscribe(q)
      PROVE  DeliveredInOrder' /\ NoSilentGap'
  <2>1. \A r \in Queries : stream'[r] = IF r = q THEN <<>> ELSE stream[r]
    BY <1>2 DEF Unsubscribe, TypeOK
  <2>2. lost' = lost
    BY <1>2 DEF Unsubscribe
  <2> QED
    BY <2>1, <2>2 DEF DeliveredInOrder, NoSilentGap
<1>3. ASSUME NEW p \in Pushers,
             \/ TakeSequence(p) \/ PushDone(p) \/ PushFails(p)
             \/ TakeDispatch(p) \/ RecordInSnapshot(p) \/ (\E c \in Change : Push(p, c))
      PROVE  DeliveredInOrder' /\ NoSilentGap'
  <2>1. UNCHANGED stream /\ lost \subseteq lost'
    BY <1>3 DEF TakeSequence, PushDone, PushFails, Leave, TakeDispatch, RecordInSnapshot, Push
  <2> QED
    BY <2>1, StreamFrame
<1>4. ASSUME NEW q \in Queries, QueryStep(q) \/ Subscribe(q)
      PROVE  DeliveredInOrder' /\ NoSilentGap'
  BY <1>4, QueryStepFrame, StreamFrame DEF Line
<1>5. CASE UNCHANGED vars
  BY <1>5, StreamFrame DEF vars
<1> QED
  BY <1>1, <1>2, <1>3, <1>4, <1>5 DEF Next, PushStep

LEMMA OwingStep ==
    ASSUME TypeOK, Owing, [Next]_vars
    PROVE  Owing'
<1> USE DEF Owing, locks, callers, subscriptions, history
<1>1. ASSUME NEW p \in Pushers, PushStep(p) \/ (\E c \in Change : Push(p, c))
      PROVE  Owing'
  <2>1. phase' = phase
    BY <1>1 DEF PushStep, TakeDispatch, RecordInSnapshot, TakeSequence, Deliver, PushDone,
                PushFails, Leave, Push
  <2>2. \A r \in Pushers : targets'[r] \subseteq targets[r] \cup Subscribed
    BY <1>1 DEF PushStep, TakeDispatch, RecordInSnapshot, TakeSequence, Deliver, PushDone,
                PushFails, Leave, Push, TypeOK
  <2> QED
    BY <2>1, <2>2 DEF Subscribed
<1>2. ASSUME NEW q \in Queries, QueryStep(q) \/ Subscribe(q)
      PROVE  Owing'
  <2>1. targets' = targets
    BY <1>2, QueryStepFrame DEF Line
  <2>2. \A r \in Queries : phase[r] # "idle" => phase'[r] # "idle"
    BY <1>2 DEF QueryStep, BeginBootstrap, EndBootstrap, Apply, SendElement, Subscribe, TypeOK
  <2> QED
    BY <2>1, <2>2
<1>3. ASSUME NEW q \in Queries, Unsubscribe(q)
      PROVE  Owing'
  BY <1>3 DEF Unsubscribe, TypeOK
<1>4. CASE UNCHANGED vars
  BY <1>4 DEF vars
<1> QED
  BY <1>1, <1>2, <1>3, <1>4 DEF Next

\* A step that keeps the log's length and the streams, and takes nobody off the
\* list of those who are owed a change, opens no gap.
LEMMA GapsFrame ==
    ASSUME Gaps, UNCHANGED <<sequence, stream, targets>>, lost \subseteq lost',
           \A q \in Queries : phase[q] # "idle" => phase'[q] # "idle"
    PROVE  Gaps'
BY DEF Gaps, UpToDate

LEMMA GapsStep ==
    ASSUME TypeOK, Counted, DispatchSerialised, Fresh, Owing, Gaps, [Next]_vars
    PROVE  Gaps'
<1> USE DEF locks, callers, subscriptions, history
<1>1. ASSUME NEW p \in Pushers, TakeSequence(p)
      PROVE  Gaps'
  <2>1. dispatch = p /\ sequence' = sequence + 1 /\ targets' = [targets EXCEPT ![p] = Subscribed]
        /\ UNCHANGED <<stream, lost, phase>>
    BY <1>1 DEF TakeSequence, DispatchSerialised
  <2>2. \A r \in Pushers : targets[r] = {}
    BY <1>1, <2>1, OneSender DEF TakeSequence, DispatchSerialised
  <2>3. ASSUME NEW q \in Queries, stream[q] # <<>>
        PROVE  phase[q] # "idle" /\ UpToDate(q)'
    <3>1. phase[q] # "idle" /\ UpToDate(q)
      BY <2>3 DEF Gaps
    <3>2. q \in targets'[p]
      BY <2>1, <3>1 DEF Subscribed, TypeOK
    <3>3. ASSUME NEW n \in 1..sequence + 1, stream[q][Len(stream[q])] < n
          PROVE  n \in lost \/ (n = sequence + 1 /\ \E r \in Pushers : q \in targets'[r])
      <4>1. CASE n \in 1..sequence
        BY <2>2, <3>1, <3>3, <4>1 DEF UpToDate
      <4>2. CASE n = sequence + 1
        BY <3>2, <4>2
      <4> QED
        BY <4>1, <4>2 DEF TypeOK
    <3> QED
      BY <2>1, <3>1, <3>3 DEF UpToDate
  <2> QED
    BY <2>1, <2>3 DEF Gaps
<1>2. ASSUME NEW p \in Pushers, NEW q \in Queries, Deliver(p, q)
      PROVE  Gaps'
  <2>1. place[p] = sequence /\ q \in targets[p] /\ sequence \in Nat
        /\ UNCHANGED <<sequence, lost, phase>> /\ dispatch = p
    BY <1>2 DEF Deliver, DispatchSerialised, TypeOK
  <2>2. /\ stream'[q] = Append(stream[q], sequence) /\ stream[q] \in Seq(Nat)
        /\ \A r \in Queries \ {q} : stream'[r] = stream[r]
    BY <1>2, <2>1 DEF Deliver, TypeOK
  <2>3. stream'[q][Len(stream'[q])] = sequence
    BY <2>1, <2>2, AppendFacts
  <2>4. phase[q] # "idle"
    BY <2>1 DEF Owing
  <2>5. phase'[q] # "idle" /\ UpToDate(q)'
    BY <2>1, <2>3, <2>4 DEF UpToDate
  <2>6. ASSUME NEW r \in Queries \ {q}, stream'[r] # <<>>
        PROVE  phase'[r] # "idle" /\ UpToDate(r)'
    <3>1. \A s \in Pushers : r \in targets[s] => r \in targets'[s]
      BY <1>2 DEF Deliver, TypeOK
    <3> QED
      BY <2>1, <2>2, <2>6, <3>1 DEF Gaps, UpToDate
  <2> QED
    BY <2>5, <2>6 DEF Gaps
<1>3. ASSUME NEW p \in Pushers, PushDone(p)
      PROVE  Gaps'
  <2>1. targets' = targets
    BY <1>3 DEF PushDone, Leave, TypeOK
  <2> QED
    BY <1>3, <2>1, GapsFrame DEF PushDone, Leave
<1>4. ASSUME NEW p \in Pushers, PushFails(p)
      PROVE  Gaps'
  <2>1. dispatch = p /\ lost' = lost \cup {sequence} /\ UNCHANGED <<sequence, stream, phase>>
    BY <1>4 DEF PushFails, Leave, DispatchSerialised
  <2> QED
    BY <2>1 DEF Gaps, UpToDate
<1>5. ASSUME NEW q \in Queries, Unsubscribe(q)
      PROVE  Gaps'
  <2>1. /\ stream'[q] = <<>>
        /\ \A r \in Queries \ {q} : stream'[r] = stream[r] /\ phase'[r] = phase[r]
        /\ UNCHANGED <<sequence, lost>>
    BY <1>5 DEF Unsubscribe, TypeOK
  <2>2. \A r \in Queries \ {q}, p \in Pushers : r \in targets[p] => r \in targets'[p]
    BY <1>5 DEF Unsubscribe
  <2> QED
    BY <2>1, <2>2 DEF Gaps, UpToDate
<1>6. ASSUME NEW p \in Pushers,
             TakeDispatch(p) \/ RecordInSnapshot(p) \/ (\E c \in Change : Push(p, c))
      PROVE  Gaps'
  BY <1>6, EarlyPushFrame, GapsFrame
<1>7. ASSUME NEW q \in Queries, QueryStep(q) \/ Subscribe(q)
      PROVE  Gaps'
  <2>1. \A r \in Queries : phase[r] # "idle" => phase'[r] # "idle"
    BY <1>7 DEF QueryStep, BeginBootstrap, EndBootstrap, Apply, SendElement, Subscribe, TypeOK
  <2> QED
    BY <1>7, <2>1, QueryStepFrame, GapsFrame DEF Line
<1>8. CASE UNCHANGED vars
  BY <1>8, GapsFrame DEF vars
<1> QED
  BY <1>1, <1>2, <1>3, <1>4, <1>5, <1>6, <1>7, <1>8 DEF Next, PushStep

-----------------------------------------------------------------------------
(* The bootstrap *)

LEMMA HeldStep ==
    ASSUME TypeOK, SnapshotHeld, [Next]_vars
    PROVE  SnapshotHeld'
<1> USE SourceAssumption DEF SnapshotHeld, TypeOK, locks, callers, subscriptions, history
<1>1. ASSUME NEW p \in Pushers, PushStep(p) \/ (\E c \in Change : Push(p, c))
      PROVE  SnapshotHeld'
  <2>1. UNCHANGED <<phase, snapLock, view>>
    BY <1>1 DEF PushStep, TakeDispatch, RecordInSnapshot, TakeSequence, Deliver, PushDone,
                PushFails, Leave, Push
  <2> QED
    BY <2>1
<1>2. ASSUME NEW q \in Queries, QueryStep(q) \/ Subscribe(q) \/ Unsubscribe(q)
      PROVE  SnapshotHeld'
  <2>1. CASE BeginBootstrap(q) \/ EndBootstrap(q)
    BY <2>1 DEF BeginBootstrap, EndBootstrap
  <2>2. CASE Apply(q) \/ \E e \in ElementIds : SendElement(q, e)
    <3>1. phase[q] \in {"boot", "live"} /\ UNCHANGED <<phase, snapLock>>
          /\ \A r \in Queries \ {q} : view'[r] = view[r]
      BY <2>2 DEF Apply, SendElement
    <3> QED
      BY <3>1
  <2>3. CASE Subscribe(q)
    BY <2>3 DEF Subscribe
  <2>4. CASE Unsubscribe(q)
    <3>1. /\ \A r \in Queries \ {q} : phase'[r] = phase[r] /\ view'[r] = view[r]
          /\ phase'[q] = "idle" /\ view'[q] = NoElements
          /\ snapLock' = IF snapLock = q THEN Nobody ELSE snapLock
      BY <2>4 DEF Unsubscribe
    <3> QED
      BY <3>1
  <2> QED
    BY <1>2, <2>1, <2>2, <2>3, <2>4 DEF QueryStep
<1>3. CASE UNCHANGED vars
  BY <1>3 DEF vars
<1> QED
  BY <1>1, <1>2, <1>3 DEF Next

OneState(q) ==
    phase[q] = "boot" =>
        \A e \in ElementIds :
            IF e \in pending[q] THEN Wanted(q, snapshot[e]) /\ view[q][e] = Absent
            ELSE view[q][e] = IF Wanted(q, snapshot[e]) THEN snapshot[e] ELSE Absent

\* A bootstrap of another query goes on as it was.
LEMMA BootstrapFrame ==
    ASSUME BootstrapIsOneState, UNCHANGED snapshot, NEW q \in Queries, OneState(q)',
           \A r \in Queries \ {q} : /\ phase'[r] = phase[r] /\ pending'[r] = pending[r]
                                    /\ view'[r] = view[r]
    PROVE  BootstrapIsOneState'
<1>1. ASSUME NEW r \in Queries
      PROVE  OneState(r)'
  <2>1. OneState(r)
    BY DEF BootstrapIsOneState, OneState
  <2> QED
    BY <2>1 DEF OneState
<1> QED
  BY <1>1 DEF BootstrapIsOneState, OneState

LEMMA BootstrapStep ==
    ASSUME TypeOK, SnapshotHeld, BootstrapIsOneState, [Next]_vars
    PROVE  BootstrapIsOneState'
<1> USE DEF locks, callers, subscriptions, history
<1>1. ASSUME NEW p \in Pushers, RecordInSnapshot(p)
      PROVE  BootstrapIsOneState'
  <2>1. \A q \in Queries : phase'[q] # "boot"
    BY <1>1, SourceAssumption DEF RecordInSnapshot, SnapshotHeld
  <2> QED
    BY <2>1 DEF BootstrapIsOneState
<1>2. ASSUME NEW p \in Pushers,
             (PushStep(p) /\ ~RecordInSnapshot(p)) \/ (\E c \in Change : Push(p, c))
      PROVE  BootstrapIsOneState'
  <2>1. UNCHANGED <<snapshot, phase, pending, view>>
    BY <1>2 DEF PushStep, TakeDispatch, TakeSequence, Deliver, PushDone, PushFails, Leave, Push
  <2> QED
    BY <2>1 DEF BootstrapIsOneState
<1>3. ASSUME NEW q \in Queries, BeginBootstrap(q)
      PROVE  BootstrapIsOneState'
  <2>1. /\ \A r \in Queries \ {q} : phase'[r] = phase[r] /\ pending'[r] = pending[r]
        /\ pending'[q] = {e \in ElementIds : Wanted(q, snapshot[e])}
        /\ UNCHANGED <<view, snapshot>>
    BY <1>3 DEF BeginBootstrap, TypeOK
  <2>2. view[q] = NoElements
    BY <1>3 DEF BeginBootstrap, SnapshotHeld
  <2>3. OneState(q)'
    BY <2>1, <2>2, SourceAssumption DEF OneState, NoElements
  <2> QED
    BY <1>3, <2>1, <2>3, BootstrapFrame
<1>4. ASSUME NEW q \in Queries, NEW e \in ElementIds, SendElement(q, e)
      PROVE  BootstrapIsOneState'
  <2>1. /\ \A r \in Queries \ {q} : pending'[r] = pending[r] /\ view'[r] = view[r]
        /\ pending'[q] = pending[q] \ {e} /\ phase[q] = "boot" /\ e \in pending[q]
        /\ view'[q] = [view[q] EXCEPT ![e] = snapshot[e]]
        /\ UNCHANGED <<phase, snapshot>>
    BY <1>4 DEF SendElement, TypeOK
  <2>2. \A d \in ElementIds \ {e} : view'[q][d] = view[q][d]
    BY <2>1 DEF TypeOK
  <2>3. view'[q][e] = snapshot[e]
    BY <2>1 DEF TypeOK
  <2>4. OneState(q)'
    BY <2>1, <2>2, <2>3 DEF OneState, BootstrapIsOneState
  <2> QED
    BY <2>1, <2>4, BootstrapFrame
<1>5. ASSUME NEW q \in Queries, EndBootstrap(q) \/ Apply(q) \/ Subscribe(q) \/ Unsubscribe(q)
      PROVE  BootstrapIsOneState'
  <2>1. /\ \A r \in Queries \ {q} : /\ phase'[r] = phase[r] /\ pending'[r] = pending[r]
                                    /\ view'[r] = view[r]
        /\ phase'[q] # "boot" /\ UNCHANGED snapshot
    BY <1>5 DEF EndBootstrap, Apply, Subscribe, Unsubscribe, TypeOK
  <2>2. OneState(q)'
    BY <2>1 DEF OneState
  <2> QED
    BY <2>1, <2>2, BootstrapFrame
<1>6. CASE UNCHANGED vars
  BY <1>6 DEF vars, BootstrapIsOneState
<1> QED
  BY <1>1, <1>2, <1>3, <1>4, <1>5, <1>6 DEF Next, QueryStep

-----------------------------------------------------------------------------
(* A late joiner ends up with the source's elements *)

\* What is recorded is what is pushed, and what took a number is in the log; only
\* a bootstrap has elements to send.
Recorded ==
    /\ \A p \in Pushers : pc[p] \in {"recorded", "sending"} =>
                            snapshot[change[p].id] = change[p].body
    /\ \A p \in Pushers : pc[p] = "sending" => log[place[p]] = change[p]
    /\ \A q \in Queries : phase[q] # "boot" => pending[q] = {}

LEMMA RecordedStep ==
    ASSUME TypeOK, DispatchSerialised, Counted, Fresh, Recorded, [Next]_vars
    PROVE  Recorded'
<1> USE DEF Recorded, locks, callers, subscriptions, history
<1>1. ASSUME NEW p \in Pushers, RecordInSnapshot(p)
      PROVE  Recorded'
  <2>1. dispatch = p /\ pc[p] = "ordered"
    BY <1>1 DEF RecordInSnapshot, DispatchSerialised
  <2>2. \A r \in Pushers \ {p} : pc'[r] = pc[r] /\ pc[r] \notin {"recorded", "sending"}
    BY <1>1, <2>1 DEF RecordInSnapshot, DispatchSerialised, TypeOK
  <2>3. snapshot'[change[p].id] = change[p].body /\ pc'[p] = "recorded"
    BY <1>1 DEF RecordInSnapshot, TypeOK, Change
  <2> QED
    BY <1>1, <2>2, <2>3 DEF RecordInSnapshot
<1>2. ASSUME NEW p \in Pushers, TakeSequence(p)
      PROVE  Recorded'
  <2>1. dispatch = p /\ pc[p] = "recorded" /\ pc'[p] = "sending" /\ place'[p] = Len(log) + 1
    BY <1>2 DEF TakeSequence, DispatchSerialised, Counted, TypeOK
  <2>2. \A r \in Pushers \ {p} : pc'[r] = pc[r] /\ pc[r] # "sending"
    BY <1>2, <2>1, OneSender DEF TakeSequence, TypeOK
  <2>3. log'[Len(log) + 1] = change[p]
    BY <1>2, AppendFacts DEF TakeSequence, TypeOK
  <2> QED
    BY <1>2, <2>1, <2>2, <2>3 DEF TakeSequence
<1>3. ASSUME NEW p \in Pushers, PushDone(p) \/ PushFails(p)
      PROVE  Recorded'
  <2>1. /\ pc'[p] = "idle" /\ UNCHANGED <<snapshot, log, phase, pending>>
        /\ \A r \in Pushers \ {p} : /\ pc'[r] = pc[r] /\ change'[r] = change[r]
                                     /\ place'[r] = place[r]
    BY <1>3 DEF PushDone, PushFails, Leave, TypeOK
  <2> QED
    BY <2>1
<1>4. ASSUME NEW p \in Pushers, TakeDispatch(p) \/ (\E c \in Change : Push(p, c))
      PROVE  Recorded'
  <2>1. /\ pc'[p] \notin {"recorded", "sending"}
        /\ UNCHANGED <<snapshot, log, phase, pending, place>>
        /\ \A r \in Pushers \ {p} : pc'[r] = pc[r] /\ change'[r] = change[r]
    BY <1>4 DEF TakeDispatch, Push, TypeOK
  <2> QED
    BY <2>1
<1>5. ASSUME NEW p \in Pushers, NEW q \in Queries, Deliver(p, q)
      PROVE  Recorded'
  BY <1>5 DEF Deliver
<1>6. ASSUME NEW q \in Queries, QueryStep(q) \/ Subscribe(q) \/ Unsubscribe(q)
      PROVE  Recorded'
  <2>1. UNCHANGED <<pc, change, place, snapshot, log>>
    BY <1>6 DEF QueryStep, BeginBootstrap, EndBootstrap, Apply, SendElement, Subscribe, Unsubscribe
  <2>2. \A r \in Queries : phase'[r] # "boot" => pending'[r] = {}
    BY <1>6 DEF QueryStep, BeginBootstrap, EndBootstrap, Apply, SendElement, Subscribe,
                Unsubscribe, TypeOK
  <2> QED
    BY <2>1, <2>2
<1>7. CASE UNCHANGED vars
  BY <1>7 DEF vars
<1> QED
  BY <1>1, <1>2, <1>3, <1>4, <1>5, <1>6, <1>7 DEF Next, PushStep

\* A query has not read more than it was sent.
ReadInBounds == \A q \in Queries : read[q] <= Len(stream[q])

LEMMA ReadStep ==
    ASSUME TypeOK, ReadInBounds, [Next]_vars
    PROVE  ReadInBounds'
<1> USE DEF ReadInBounds, locks, callers, subscriptions, history
<1>1. ASSUME NEW p \in Pushers, NEW q \in Queries, Deliver(p, q)
      PROVE  ReadInBounds'
  <2>1. /\ stream'[q] = Append(stream[q], place[p]) /\ stream[q] \in Seq(Nat)
        /\ place[p] \in Nat /\ read' = read
        /\ \A r \in Queries \ {q} : stream'[r] = stream[r]
    BY <1>1 DEF Deliver, TypeOK
  <2>2. read[q] <= Len(stream'[q])
    <3>1. Len(stream'[q]) = Len(stream[q]) + 1
      BY <2>1, AppendFacts
    <3> QED
      BY <2>1, <3>1 DEF TypeOK
  <2> QED
    BY <2>1, <2>2
<1>2. ASSUME NEW q \in Queries, Apply(q)
      PROVE  ReadInBounds'
  BY <1>2 DEF Apply, Unread, TypeOK
<1>3. ASSUME NEW q \in Queries, Unsubscribe(q)
      PROVE  ReadInBounds'
  BY <1>3 DEF Unsubscribe, TypeOK
<1>4. CASE UNCHANGED <<stream, read>>
  BY <1>4
<1> QED
  BY <1>1, <1>2, <1>3, <1>4
     DEF Next, PushStep, QueryStep, TakeDispatch, RecordInSnapshot, TakeSequence, PushDone,
         PushFails, Leave, Push, BeginBootstrap, SendElement, EndBootstrap, Subscribe, vars

\* Settled, with the parts of the state it looks at as arguments
Latest(S) == CHOOSE i \in S : \A j \in S : j <= i

About(received, applied, changes, e) ==
    {i \in applied + 1..Len(received) : changes[received[i]].id = e}

SettledAs(received, applied, changes, e, otherwise) ==
    LET about == About(received, applied, changes, e)
    IN  IF about # {} THEN changes[received[Latest(about)]].body ELSE otherwise

Held(q, e) ==
    IF phase[q] = "subscribed" \/ e \in pending[q] THEN snapshot[e] ELSE view[q][e]

LEMMA SettledForm ==
    ASSUME NEW q \in Queries, NEW e \in ElementIds
    PROVE  /\ Settled(q, e) = SettledAs(stream[q], read[q], log, e, Held(q, e))
           /\ Settled(q, e)' = SettledAs(stream'[q], read'[q], log', e, Held(q, e)')
BY DEF Settled, SettledAs, UnreadAbout, About, Latest, Held

LEMMA LatestIs ==
    ASSUME NEW S \in SUBSET Nat, NEW m \in S, \A j \in S : j <= m
    PROVE  Latest(S) = m
<1>1. Latest(S) \in S /\ \A j \in S : j <= Latest(S)
  BY DEF Latest
<1>2. Latest(S) <= m /\ m <= Latest(S) /\ Latest(S) \in Nat /\ m \in Nat
  BY <1>1
<1> QED
  BY <1>2

LEMMA LatestSame ==
    ASSUME NEW S, NEW T,
           \A i : (i \in S /\ \A j \in S : j <= i) <=> (i \in T /\ \A j \in T : j <= i)
    PROVE  Latest(S) = Latest(T)
BY Zenon DEF Latest

\* A set of positions that is not empty has a last one.
LEMMA LeastExists ==
    ASSUME NEW T \in SUBSET Nat, T # {}
    PROVE  \E i \in T : \A j \in T : i <= j
<1>1. \E i \in T : \A j \in T : <<j, i>> \notin OpToRel(<, Nat)
  BY NatLessThanWellFounded, WFMin
<1>2. PICK i \in T : \A j \in T : <<j, i>> \notin OpToRel(<, Nat)
  BY <1>1
<1>3. \A j \in T : ~(j < i)
  BY <1>2 DEF OpToRel
<1>4. \A j \in T : i <= j
  BY <1>3
<1> QED
  BY <1>4

LEMMA LatestIn ==
    ASSUME NEW n \in Nat, NEW S \in SUBSET (1..n), S # {}
    PROVE  Latest(S) \in S
<1> DEFINE T == {n - i : i \in S}
<1>1. \A i \in S : n - i \in Nat
  OBVIOUS
<1>2. T \in SUBSET Nat /\ T # {}
  BY <1>1
<1>3. PICK m \in T : \A j \in T : m <= j
  BY <1>2, LeastExists
<1>4. PICK i \in S : m = n - i
  OBVIOUS
<1>5. ASSUME NEW j \in S
      PROVE  j <= i
  <2>1. n - j \in T
    OBVIOUS
  <2>2. n - i <= n - j
    BY <1>3, <1>4, <2>1
  <2> QED
    BY <2>2
<1> QED
  BY <1>5 DEF Latest

\* Where neither the subscription, nor what the query holds, nor the past of the
\* log changes, it settles on the same element.
LEMMA SettledKept ==
    ASSUME TypeOK, Counted, NEW q \in Queries, NEW e \in ElementIds,
           stream'[q] = stream[q], read'[q] = read[q], Held(q, e)' = Held(q, e),
           \A n \in 1..Len(log) : log'[n] = log[n]
    PROVE  Settled(q, e)' = Settled(q, e)
<1> DEFINE A == About(stream[q], read[q], log, e)
<1>1. \A i \in read[q] + 1..Len(stream[q]) :
          i \in 1..Len(stream[q]) /\ stream[q][i] \in 1..Len(log)
  BY DEF TypeOK, Counted
<1>2. About(stream'[q], read'[q], log', e) = A
  BY <1>1 DEF About
<1>3. A \in SUBSET (1..Len(stream[q])) /\ Len(stream[q]) \in Nat
  BY <1>1 DEF About, TypeOK
<1>4. ASSUME A # {}
      PROVE  log'[stream[q][Latest(A)]] = log[stream[q][Latest(A)]]
  <2>1. Latest(A) \in A
    BY <1>3, <1>4, LatestIn
  <2> QED
    BY <1>1, <2>1 DEF About
<1> QED
  BY <1>2, <1>4, SettledForm DEF SettledAs

Converged(q, e) == Visible(q, Settled(q, e)) = Visible(q, snapshot[e])

Conv(q, e) == OnItsWay(q, e) \/ Abandoned(e) \/ Converged(q, e)

StreamInv == DispatchSerialised /\ Counted /\ Fresh /\ Owing /\ Gaps

LateInv == \A q \in Queries : phase[q] # "idle" => \A e \in ElementIds : Conv(q, e)

LEMMA ConvFrame ==
    ASSUME TypeOK, Counted, NEW q \in Queries, NEW e \in ElementIds, Conv(q, e),
           stream'[q] = stream[q], read'[q] = read[q], Held(q, e)' = Held(q, e),
           \A n \in 1..Len(log) : log'[n] = log[n], snapshot'[e] = snapshot[e],
           OnItsWay(q, e) => Conv(q, e)', Abandoned(e) => Conv(q, e)'
    PROVE  Conv(q, e)'
<1>1. Settled(q, e)' = Settled(q, e)
  BY SettledKept
<1>2. Converged(q, e) => Converged(q, e)'
  BY <1>1 DEF Converged
<1> QED
  BY <1>2 DEF Conv

-----------------------------------------------------------------------------
(* Each step keeps every query converging. *)

LEMMA LatePush ==
    ASSUME TypeOK, DispatchSerialised, Counted, LateInv, NEW p \in Pushers,
           TakeDispatch(p) \/ PushDone(p) \/ (\E c \in Change : Push(p, c))
    PROVE  LateInv'
<1> USE DEF locks, callers, subscriptions, history
<1>1. UNCHANGED <<stream, read, phase, pending, view, snapshot, log, lost>>
  BY DEF TakeDispatch, PushDone, Leave, Push
<1>2. ASSUME NEW q \in Queries, NEW e \in ElementIds, OnItsWay(q, e)
      PROVE  OnItsWay(q, e)'
  <2>1. PICK r \in Pushers : change[r].id = e /\ (pc[r] = "recorded"
                                 \/ (pc[r] = "sending" /\ q \in targets[r]))
    BY <1>2 DEF OnItsWay
  <2>2. r # p
    BY <2>1 DEF TakeDispatch, PushDone, Push
  <2>3. pc'[r] = pc[r] /\ change'[r] = change[r] /\ targets'[r] = targets[r]
    BY <2>2 DEF TakeDispatch, PushDone, Leave, Push, TypeOK
  <2> QED
    BY <2>1, <2>3 DEF OnItsWay
<1>3. ASSUME NEW q \in Queries, NEW e \in ElementIds, Conv(q, e)
      PROVE  Conv(q, e)'
  <2>1. Abandoned(e) => Abandoned(e)'
    BY <1>1 DEF Abandoned
  <2>2. Held(q, e)' = Held(q, e)
    BY <1>1 DEF Held
  <2>3. (OnItsWay(q, e) => Conv(q, e)') /\ (Abandoned(e) => Conv(q, e)')
    BY <1>2, <2>1 DEF Conv
  <2> QED
    BY <1>1, <1>3, <2>2, <2>3, ConvFrame
<1> QED
  BY <1>1, <1>3 DEF LateInv

LEMMA LateRecord ==
    ASSUME TypeOK, Counted, LateInv, NEW p \in Pushers, RecordInSnapshot(p)
    PROVE  LateInv'
<1> USE DEF locks, callers, subscriptions, history
<1>1. UNCHANGED <<stream, read, phase, pending, view, log, lost, change, targets>>
      /\ pc[p] = "ordered" /\ pc'[p] = "recorded"
      /\ \A r \in Pushers \ {p} : pc'[r] = pc[r]
  BY DEF RecordInSnapshot, TypeOK
<1>2. ASSUME NEW q \in Queries, NEW e \in ElementIds, Conv(q, e)
      PROVE  Conv(q, e)'
  <2>1. CASE e = change[p].id
    BY <1>1, <2>1 DEF Conv, OnItsWay
  <2>2. CASE e # change[p].id
    <3>1. snapshot'[e] = snapshot[e]
      BY <2>2 DEF RecordInSnapshot, TypeOK
    <3>2. Held(q, e)' = Held(q, e)
      BY <1>1, <3>1 DEF Held
    <3>3. OnItsWay(q, e) => OnItsWay(q, e)'
      BY <1>1 DEF OnItsWay
    <3>4. Abandoned(e) => Abandoned(e)'
      BY <1>1 DEF Abandoned
    <3>5. (OnItsWay(q, e) => Conv(q, e)') /\ (Abandoned(e) => Conv(q, e)')
      BY <3>3, <3>4 DEF Conv
    <3> QED
      BY <1>1, <1>2, <3>1, <3>2, <3>5, ConvFrame
  <2> QED
    BY <2>1, <2>2
<1> QED
  BY <1>1, <1>2 DEF LateInv

LEMMA LateTake ==
    ASSUME TypeOK, DispatchSerialised, Counted, LateInv, NEW p \in Pushers, TakeSequence(p)
    PROVE  LateInv'
<1> USE DEF locks, callers, subscriptions, history
<1>1. /\ UNCHANGED <<stream, read, phase, pending, view, snapshot, lost, change>>
      /\ pc'[p] = "sending" /\ targets'[p] = Subscribed /\ log' = Append(log, change[p])
      /\ \A r \in Pushers \ {p} : pc'[r] = pc[r] /\ targets'[r] = targets[r]
  BY DEF TakeSequence, TypeOK
<1>2. /\ Len(log') = Len(log) + 1 /\ log'[Len(log) + 1] = change[p]
      /\ \A n \in 1..Len(log) : log'[n] = log[n]
  BY <1>1, AppendFacts DEF TypeOK
<1>3. ASSUME NEW q \in Queries, NEW e \in ElementIds, phase[q] # "idle", Conv(q, e)
      PROVE  Conv(q, e)'
  <2>1. q \in targets'[p]
    BY <1>1, <1>3 DEF Subscribed
  <2>2. CASE e = change[p].id
    BY <1>1, <2>1, <2>2 DEF Conv, OnItsWay
  <2>3. CASE e # change[p].id
    <3>1. OnItsWay(q, e) => OnItsWay(q, e)'
      BY <1>1, <2>3 DEF OnItsWay
    <3>2. ASSUME Abandoned(e) PROVE Abandoned(e)'
      <4>1. PICK n \in lost : log[n].id = e /\ \A m \in n + 1..Len(log) : log[m].id # e
        BY <3>2 DEF Abandoned
      <4>2. n \in 1..Len(log)
        BY DEF Counted
      <4>3. \A m \in n + 1..Len(log') : log'[m].id # e
        <5>1. SUFFICES ASSUME NEW m \in n + 1..Len(log') PROVE log'[m].id # e
          OBVIOUS
        <5>2. Len(log) \in Nat /\ Len(log') = Len(log) + 1
          BY <1>2 DEF TypeOK
        <5>3. (m \in n + 1..Len(log) /\ m \in 1..Len(log)) \/ m = Len(log) + 1
          BY <4>2, <5>2
        <5> QED
          BY <1>2, <2>3, <4>1, <5>3
      <4> QED
        BY <1>1, <1>2, <4>1, <4>2, <4>3 DEF Abandoned
    <3>3. Held(q, e)' = Held(q, e)
      BY <1>1 DEF Held
    <3>4. (OnItsWay(q, e) => Conv(q, e)') /\ (Abandoned(e) => Conv(q, e)')
      BY <3>1, <3>2 DEF Conv
    <3> QED
      BY <1>1, <1>2, <1>3, <3>3, <3>4, ConvFrame
  <2> QED
    BY <2>2, <2>3
<1> QED
  BY <1>1, <1>3 DEF LateInv

LEMMA LateFail ==
    ASSUME TypeOK, DispatchSerialised, Counted, Recorded, LateInv,
           NEW p \in Pushers, PushFails(p)
    PROVE  LateInv'
<1> USE DEF locks, callers, subscriptions, history
<1>1. /\ UNCHANGED <<stream, read, phase, pending, view, snapshot, log>>
      /\ lost' = lost \cup {Len(log)} /\ log[Len(log)] = change[p]
      /\ \A r \in Pushers \ {p} : /\ pc'[r] = pc[r] /\ targets'[r] = targets[r]
                                   /\ change'[r] = change[r]
  BY DEF PushFails, Leave, TypeOK, DispatchSerialised, Counted, Recorded
<1>2. ASSUME NEW q \in Queries, NEW e \in ElementIds, Conv(q, e)
      PROVE  Conv(q, e)'
  <2>1. Abandoned(e) => Abandoned(e)'
    BY <1>1 DEF Abandoned
  <2>2. ASSUME OnItsWay(q, e) PROVE Conv(q, e)'
    <3>1. PICK r \in Pushers : change[r].id = e /\ (pc[r] = "recorded"
                                   \/ (pc[r] = "sending" /\ q \in targets[r]))
      BY <2>2 DEF OnItsWay
    <3>2. CASE r = p
      <4>1. \A m \in Len(log) + 1..Len(log) : FALSE
        BY DEF TypeOK
      <4>2. Abandoned(e)'
        BY <1>1, <3>1, <3>2, <4>1 DEF Abandoned
      <4> QED
        BY <4>2 DEF Conv
    <3>3. CASE r # p
      BY <1>1, <3>1, <3>3 DEF Conv, OnItsWay
    <3> QED
      BY <3>2, <3>3
  <2>3. Held(q, e)' = Held(q, e)
    BY <1>1 DEF Held
  <2>4. Abandoned(e) => Conv(q, e)'
    BY <2>1 DEF Conv
  <2> QED
    BY <1>1, <1>2, <2>2, <2>3, <2>4, ConvFrame
<1> QED
  BY <1>1, <1>2 DEF LateInv

LEMMA LateDeliver ==
    ASSUME TypeOK, DispatchSerialised, Counted, Recorded, ReadInBounds, LateInv,
           NEW p \in Pushers, NEW q \in Queries, Deliver(p, q)
    PROVE  LateInv'
<1> DEFINE n == Len(stream[q]) + 1
<1> USE DEF locks, callers, subscriptions, history
<1>1. /\ UNCHANGED <<read, phase, pending, view, snapshot, log, lost, pc, change>>
      /\ place[p] = Len(log) /\ log[Len(log)] = change[p] /\ pc[p] = "sending"
      /\ snapshot[change[p].id] = change[p].body /\ place[p] \in Nat
      /\ \A r \in Queries \ {q} : stream'[r] = stream[r]
      /\ \A r \in Pushers \ {p} : targets'[r] = targets[r]
      /\ targets'[p] = targets[p] \ {q}
  BY DEF Deliver, TypeOK, DispatchSerialised, Counted, Recorded
<1>2. /\ stream'[q] = Append(stream[q], place[p]) /\ Len(stream[q]) \in Nat
      /\ Len(stream'[q]) = n /\ stream'[q][n] = place[p]
      /\ \A i \in 1..Len(stream[q]) : stream'[q][i] = stream[q][i]
  <2>1. stream'[q] = Append(stream[q], place[p]) /\ stream[q] \in Seq(Nat)
    BY DEF Deliver, TypeOK
  <2> QED
    BY <1>1, <2>1, AppendFacts
<1>3. \A r \in Queries, e \in ElementIds :
          (Abandoned(e) => Abandoned(e)') /\ (Held(r, e)' = Held(r, e))
  BY <1>1 DEF Abandoned, Held
<1>4. ASSUME NEW r \in Queries \ {q}, NEW e \in ElementIds, Conv(r, e)
      PROVE  Conv(r, e)'
  <2>1. OnItsWay(r, e) => OnItsWay(r, e)'
    BY <1>1 DEF OnItsWay
  <2>2. (OnItsWay(r, e) => Conv(r, e)') /\ (Abandoned(e) => Conv(r, e)')
    BY <1>3, <2>1 DEF Conv
  <2> QED
    BY <1>1, <1>3, <1>4, <2>2, ConvFrame
<1>5. ASSUME NEW e \in ElementIds, Conv(q, e)
      PROVE  Conv(q, e)'
  <2> DEFINE A == About(stream[q], read[q], log, e)
  <2> DEFINE B == About(stream'[q], read'[q], log', e)
  <2>0. Settled(q, e) = SettledAs(stream[q], read[q], log, e, Held(q, e))
        /\ Settled(q, e)' = SettledAs(stream'[q], read'[q], log', e, Held(q, e)')
    BY SettledForm
  <2>1. CASE e = change[p].id
    <3>1. n \in B
      <4>1. n \in read[q] + 1..n
        BY <1>2 DEF ReadInBounds, TypeOK
      <4> QED
        BY <1>1, <1>2, <2>1, <4>1 DEF About
    <3>2. B \in SUBSET Nat /\ \A i \in B : i <= n
      BY <1>1, <1>2 DEF About, TypeOK
    <3>3. Latest(B) = n
      BY <3>1, <3>2, LatestIs
    <3>4. Settled(q, e)' = log[Len(log)].body
      BY <1>1, <1>2, <2>0, <3>1, <3>3 DEF SettledAs
    <3>5. Converged(q, e)'
      BY <1>1, <2>1, <3>4 DEF Converged
    <3> QED
      BY <3>5 DEF Conv
  <2>2. CASE e # change[p].id
    <3>1. OnItsWay(q, e) => OnItsWay(q, e)'
      BY <1>1, <2>2 DEF OnItsWay
    <3>2. ASSUME NEW i \in read[q] + 1..Len(stream[q])
          PROVE  i \in 1..Len(stream[q])
      BY <1>2 DEF TypeOK
    <3>3. A \in SUBSET (1..Len(stream[q]))
      BY <3>2 DEF About
    <3>4. ASSUME NEW i \in read[q] + 1..n
          PROVE  i = n \/ i \in read[q] + 1..Len(stream[q])
      BY <1>2 DEF TypeOK
    <3>5. \A i : i \in B <=> i \in A
      <4>1. \A i \in A : i \in B
        <5>1. read[q] \in Nat
          BY DEF TypeOK
        <5>2. \A i \in read[q] + 1..Len(stream[q]) : i \in read[q] + 1..n
          BY <1>2, <5>1
        <5> QED
          BY <1>1, <1>2, <3>2, <5>2 DEF About
      <4>2. \A i \in B : i \in A
        BY <1>1, <1>2, <2>2, <3>2, <3>4 DEF About
      <4> QED
        BY <4>1, <4>2
    <3>6. A = B
      BY <3>5
    <3>7. A # {} => Latest(A) \in 1..Len(stream[q])
      BY <1>2, <3>3, LatestIn
    <3>8. Settled(q, e)' = Settled(q, e)
      BY <1>1, <1>2, <1>3, <2>0, <3>6, <3>7 DEF SettledAs
    <3>9. Converged(q, e) => Converged(q, e)'
      BY <1>1, <3>8 DEF Converged
    <3> QED
      BY <1>3, <1>5, <3>1, <3>9 DEF Conv
  <2> QED
    BY <2>1, <2>2
<1> QED
  BY <1>1, <1>4, <1>5 DEF LateInv

\* A query's step concerns no other query.
LEMMA LateOthers ==
    ASSUME TypeOK, Counted, LateInv, NEW q \in Queries,
           UNCHANGED <<pc, change, snapshot, log, lost>>,
           \A r \in Queries \ {q} : /\ phase'[r] = phase[r] /\ pending'[r] = pending[r]
                                    /\ stream'[r] = stream[r] /\ read'[r] = read[r]
                                    /\ view'[r] = view[r],
           \A r \in Queries \ {q}, p \in Pushers : r \in targets[p] => r \in targets'[p],
           phase'[q] # "idle" => \A e \in ElementIds : Conv(q, e)'
    PROVE  LateInv'
<1>1. ASSUME NEW r \in Queries \ {q}, NEW e \in ElementIds, Conv(r, e)
      PROVE  Conv(r, e)'
  <2>1. OnItsWay(r, e) => OnItsWay(r, e)'
    BY DEF OnItsWay
  <2>2. Abandoned(e) => Abandoned(e)'
    BY DEF Abandoned
  <2>3. Held(r, e)' = Held(r, e)
    BY DEF Held
  <2>4. (OnItsWay(r, e) => Conv(r, e)') /\ (Abandoned(e) => Conv(r, e)')
    BY <2>1, <2>2 DEF Conv
  <2> QED
    BY <1>1, <2>3, <2>4, ConvFrame
<1> QED
  BY <1>1 DEF LateInv

LEMMA LateJoin ==
    ASSUME TypeOK, Counted, Gaps, LateInv, NEW q \in Queries, Subscribe(q) \/ Unsubscribe(q)
    PROVE  LateInv'
<1> USE DEF locks, callers, subscriptions, history
<1>1. /\ UNCHANGED <<pc, change, snapshot, log, lost>>
      /\ \A r \in Queries \ {q} : /\ phase'[r] = phase[r] /\ pending'[r] = pending[r]
                                   /\ stream'[r] = stream[r] /\ read'[r] = read[r]
                                   /\ view'[r] = view[r]
      /\ \A r \in Queries \ {q}, p \in Pushers : r \in targets[p] => r \in targets'[p]
  BY DEF Subscribe, Unsubscribe, TypeOK
<1>2. ASSUME phase'[q] # "idle", NEW e \in ElementIds
      PROVE  Conv(q, e)'
  <2>1. /\ phase[q] = "idle" /\ phase'[q] = "subscribed"
        /\ UNCHANGED <<stream, read, pending, view>>
    BY <1>2 DEF Subscribe, Unsubscribe, TypeOK
  <2>2. stream[q] = <<>>
    BY <2>1 DEF Gaps
  <2>3. About(stream'[q], read'[q], log', e) = {}
    <3>1. Len(stream'[q]) = 0 /\ read'[q] \in Nat
      BY <2>1, <2>2 DEF TypeOK
    <3>2. \A i : i \notin read'[q] + 1..Len(stream'[q])
      BY <3>1
    <3> QED
      BY <3>2 DEF About
  <2>4. Held(q, e)' = snapshot'[e]
    BY <2>1 DEF Held
  <2>5. Settled(q, e)' = snapshot'[e]
    BY <2>3, <2>4, SettledForm DEF SettledAs
  <2> QED
    BY <2>5 DEF Conv, Converged
<1> QED
  BY <1>1, <1>2, LateOthers

LEMMA LateBootstrap ==
    ASSUME TypeOK, Counted, SnapshotHeld, LateInv, NEW q \in Queries,
           BeginBootstrap(q) \/ EndBootstrap(q) \/ (\E e \in ElementIds : SendElement(q, e))
    PROVE  LateInv'
<1> USE DEF locks, callers, subscriptions, history
<1>1. /\ UNCHANGED <<pc, change, targets, snapshot, log, lost, stream, read>>
      /\ \A r \in Queries \ {q} : /\ phase'[r] = phase[r] /\ pending'[r] = pending[r]
                                   /\ view'[r] = view[r]
      /\ phase[q] # "idle"
  BY DEF BeginBootstrap, EndBootstrap, SendElement, TypeOK
<1>2. ASSUME NEW e \in ElementIds
      PROVE  Conv(q, e)'
  <2>1. Conv(q, e)
    BY <1>1 DEF LateInv
  <2>2. (OnItsWay(q, e) => OnItsWay(q, e)') /\ (Abandoned(e) => Abandoned(e)')
    BY <1>1 DEF OnItsWay, Abandoned
  <2>3. (OnItsWay(q, e) => Conv(q, e)') /\ (Abandoned(e) => Conv(q, e)')
    BY <2>2 DEF Conv
  <2>4. CASE Held(q, e)' = Held(q, e)
    BY <1>1, <2>1, <2>3, <2>4, ConvFrame
  <2>5. CASE BeginBootstrap(q) /\ ~(Held(q, e)' = Held(q, e))
    <3>1. phase[q] = "subscribed" /\ Held(q, e) = snapshot[e] /\ view'[q] = NoElements
      BY <2>5 DEF BeginBootstrap, Held, SnapshotHeld
    <3>2. phase'[q] = "boot" /\ pending'[q] = {d \in ElementIds : Wanted(q, snapshot[d])}
      BY <2>5 DEF BeginBootstrap, TypeOK
    <3>3. ~Wanted(q, snapshot[e]) /\ Held(q, e)' = Absent
      BY <1>1, <2>5, <3>1, <3>2 DEF Held, NoElements
    <3>4. Visible(q, Absent) = Absent /\ Visible(q, snapshot[e]) = Absent
      BY <3>3 DEF Visible, Wanted
    <3> DEFINE A == About(stream[q], read[q], log, e)
    <3>5. CASE A = {}
      <4>1. Settled(q, e)' = Absent
        BY <1>1, <3>3, <3>5, SettledForm DEF SettledAs
      <4>2. Converged(q, e)'
        BY <1>1, <3>4, <4>1 DEF Converged
      <4> QED
        BY <4>2 DEF Conv
    <3>6. CASE A # {}
      <4>1. Settled(q, e)' = Settled(q, e)
        BY <1>1, <3>6, SettledForm DEF SettledAs
      <4>2. Converged(q, e) => Converged(q, e)'
        BY <1>1, <4>1 DEF Converged
      <4> QED
        BY <2>1, <2>3, <4>2 DEF Conv
    <3> QED
      BY <3>5, <3>6
  <2>6. CASE EndBootstrap(q)
    <3>1. phase[q] = "boot" /\ phase'[q] = "live" /\ UNCHANGED <<pending, view>>
      BY <2>6 DEF EndBootstrap, TypeOK
    <3>2. Held(q, e)' = Held(q, e)
      BY <1>1, <3>1 DEF Held
    <3> QED
      BY <3>2, <2>4
  <2>7. ASSUME NEW d \in ElementIds, SendElement(q, d)
        PROVE  Conv(q, e)'
    <3>1. /\ phase[q] = "boot" /\ phase' = phase /\ d \in pending[q]
          /\ pending'[q] = pending[q] \ {d} /\ view'[q] = [view[q] EXCEPT ![d] = snapshot[d]]
      BY <2>7 DEF SendElement, TypeOK
    <3>2. view'[q][d] = snapshot[d] /\ \A c \in ElementIds \ {d} : view'[q][c] = view[q][c]
      BY <3>1 DEF TypeOK
    <3>3. Held(q, e)' = Held(q, e)
      BY <1>1, <3>1, <3>2 DEF Held
    <3> QED
      BY <3>3, <2>4
  <2> QED
    BY <2>4, <2>5, <2>6, <2>7
<1> QED
  BY <1>1, <1>2, LateOthers

LEMMA LateApply ==
    ASSUME TypeOK, Counted, Recorded, LateInv, NEW q \in Queries, Apply(q)
    PROVE  LateInv'
<1> DEFINE n == read[q] + 1
<1> DEFINE c == log[stream[q][n]]
<1> USE DEF locks, callers, subscriptions, history
<1>1. /\ UNCHANGED <<pc, change, targets, snapshot, log, lost, stream, phase, pending>>
      /\ \A r \in Queries \ {q} : read'[r] = read[r] /\ view'[r] = view[r]
      /\ phase[q] = "live" /\ pending[q] = {} /\ read'[q] = n
      /\ view'[q] = [view[q] EXCEPT ![c.id] = c.body]
  BY DEF Apply, TypeOK, Recorded
<1>2. n \in Nat /\ Len(stream[q]) \in Nat /\ n \in 1..Len(stream[q])
  BY DEF Apply, Unread, TypeOK
<1>3. c \in Change
  <2>1. stream[q][n] \in 1..Len(log)
    BY <1>2 DEF Counted
  <2> QED
    BY <2>1 DEF TypeOK
<1>4. view'[q][c.id] = c.body /\ \A d \in ElementIds \ {c.id} : view'[q][d] = view[q][d]
  BY <1>1, <1>3 DEF TypeOK, Change
<1>5. ASSUME NEW e \in ElementIds
      PROVE  Conv(q, e)'
  <2> DEFINE A == About(stream[q], n - 1, log, e)
  <2> DEFINE B == About(stream[q], n, log, e)
  <2>0. read[q] = n - 1
    BY DEF TypeOK
  <2>1. Conv(q, e)
    BY <1>1 DEF LateInv
  <2>2. (OnItsWay(q, e) => Conv(q, e)') /\ (Abandoned(e) => Conv(q, e)')
    BY <1>1 DEF OnItsWay, Abandoned, Conv
  <2>3. Settled(q, e) = SettledAs(stream[q], n - 1, log, e, view[q][e])
        /\ Settled(q, e)' = SettledAs(stream[q], n, log, e, view'[q][e])
    BY <1>1, <2>0, SettledForm DEF Held
  <2>4. \A i : i \in B <=> i \in A /\ i # n
    <3>1. \A i : i \in n + 1..Len(stream[q]) <=> i \in (n - 1) + 1..Len(stream[q]) /\ i # n
      BY <1>2
    <3> QED
      BY <3>1 DEF About
  <2>5. n \in A <=> c.id = e
    BY <1>2 DEF About
  <2>6. \A i \in A : i \in Nat /\ n <= i
    BY <1>2 DEF About
  <2>7. Settled(q, e)' = Settled(q, e)
    <3>1. CASE c.id # e
      <4>1. A = B
        BY <2>4, <2>5, <3>1
      <4> QED
        BY <1>4, <2>3, <3>1, <4>1 DEF SettledAs
    <3>2. CASE c.id = e /\ B = {}
      <4>1. A = {n}
        BY <2>4, <2>5, <3>2
      <4>2. Latest(A) = n
        BY <1>2, <4>1, LatestIs
      <4>3. Settled(q, e) = c.body
        BY <2>3, <4>1, <4>2 DEF SettledAs
      <4>4. Settled(q, e)' = view'[q][e]
        BY <2>3, <3>2 DEF SettledAs
      <4> QED
        BY <1>4, <3>2, <4>3, <4>4
    <3>3. CASE c.id = e /\ B # {}
      <4>1. PICK b \in B : TRUE
        BY <3>3
      <4>2. b \in A /\ b \in Nat /\ n < b
        BY <1>2, <2>4, <2>6, <4>1
      <4>3. \A i : (i \in A /\ \A j \in A : j <= i) <=> (i \in B /\ \A j \in B : j <= i)
        <5>1. ASSUME NEW i, i \in A, \A j \in A : j <= i
              PROVE  i \in B /\ \A j \in B : j <= i
          <6>1. b <= i /\ i \in Nat
            BY <2>6, <4>2, <5>1
          <6>2. i # n
            BY <1>2, <4>2, <6>1
          <6> QED
            BY <2>4, <5>1, <6>2
        <5>2. ASSUME NEW i, i \in B, \A j \in B : j <= i
              PROVE  i \in A /\ \A j \in A : j <= i
          <6>1. i \in A /\ n <= i
            BY <2>4, <2>6, <5>2
          <6>2. \A j \in A : j = n \/ j \in B
            BY <2>4
          <6> QED
            BY <5>2, <6>1, <6>2
        <5> QED
          BY <5>1, <5>2
      <4>4. Latest(A) = Latest(B)
        BY <4>3, LatestSame
      <4> QED
        BY <2>3, <3>3, <4>2, <4>4 DEF SettledAs
    <3> QED
      BY <3>1, <3>2, <3>3
  <2>8. Converged(q, e) => Converged(q, e)'
    BY <1>1, <2>7 DEF Converged
  <2> QED
    BY <2>1, <2>2, <2>8 DEF Conv
<1> QED
  BY <1>1, <1>5, LateOthers

LEMMA LateStep ==
    ASSUME TypeOK, StreamInv, SnapshotHeld, Recorded, ReadInBounds, LateInv, [Next]_vars
    PROVE  LateInv'
<1> USE DEF StreamInv
<1>1. ASSUME NEW p \in Pushers, PushStep(p) \/ (\E c \in Change : Push(p, c))
      PROVE  LateInv'
  BY <1>1, LatePush, LateRecord, LateTake, LateDeliver, LateFail DEF PushStep
<1>2. ASSUME NEW q \in Queries, QueryStep(q) \/ Subscribe(q) \/ Unsubscribe(q)
      PROVE  LateInv'
  BY <1>2, LateBootstrap, LateApply, LateJoin DEF QueryStep
<1>3. CASE UNCHANGED vars
  <2>1. UNCHANGED <<stream, read, phase, pending, view, snapshot, log, lost, pc, change, targets>>
    BY <1>3 DEF vars
  <2>2. ASSUME NEW q \in Queries, NEW e \in ElementIds, Conv(q, e)
        PROVE  Conv(q, e)'
    <3>1. (OnItsWay(q, e) => Conv(q, e)') /\ (Abandoned(e) => Conv(q, e)')
      BY <2>1 DEF OnItsWay, Abandoned, Conv
    <3>2. Held(q, e)' = Held(q, e)
      BY <2>1 DEF Held
    <3> QED
      BY <2>1, <2>2, <3>1, <3>2, ConvFrame
  <2> QED
    BY <2>1, <2>2 DEF LateInv
<1> QED
  BY <1>1, <1>2, <1>3 DEF Next

-----------------------------------------------------------------------------
(* The inductive invariant *)

Promises == DeliveredInOrder /\ NoSilentGap /\ BootstrapIsOneState
Joining == Recorded /\ ReadInBounds /\ LateInv
IInv == TypeOK /\ StreamInv /\ SnapshotHeld /\ Promises /\ Joining

LEMMA InitIInv == Init => IInv
<1> SUFFICES ASSUME Init PROVE IInv
  OBVIOUS
<1>1. DispatchSerialised /\ Counted /\ Fresh /\ Owing /\ Gaps
  BY DEF Init, DispatchSerialised, Counted, Fresh, Owing, Gaps
<1>2. SnapshotHeld /\ BootstrapIsOneState
  BY DEF Init, SnapshotHeld, BootstrapIsOneState
<1>3. DeliveredInOrder /\ NoSilentGap
  BY DEF Init, DeliveredInOrder, NoSilentGap
<1>4. Recorded /\ ReadInBounds /\ LateInv
  BY DEF Init, Recorded, ReadInBounds, LateInv
<1> QED
  BY <1>1, <1>2, <1>3, <1>4, InitTypes DEF IInv, StreamInv, Promises, Joining

LEMMA IInvStep == IInv /\ [Next]_vars => IInv'
<1> SUFFICES ASSUME IInv, [Next]_vars
             PROVE  IInv'
  OBVIOUS
<1> USE DEF IInv, StreamInv, Promises, Joining
<1>1. TypeOK'
  BY TypeStep
<1>2. DispatchSerialised' /\ Counted' /\ Fresh' /\ Owing' /\ Gaps'
  BY SerialStep, CountedStep, FreshStep, OwingStep, GapsStep
<1>3. SnapshotHeld' /\ BootstrapIsOneState'
  BY HeldStep, BootstrapStep
<1>4. DeliveredInOrder' /\ NoSilentGap'
  BY StreamStep
<1>5. Recorded' /\ ReadInBounds' /\ LateInv'
  BY RecordedStep, ReadStep, LateStep
<1> QED
  BY <1>1, <1>2, <1>3, <1>4, <1>5

LEMMA Invariance == Spec => []IInv
BY InitIInv, IInvStep, PTL DEF Spec

-----------------------------------------------------------------------------
(* The theorems *)

\* Every variable of the source keeps its type (CsharpSource of
\* native/src/components.rs).
THEOREM TypeCorrect == Spec => []TypeOK
<1>1. IInv => TypeOK
  BY DEF IInv
<1> QED
  BY <1>1, Invariance, PTL

\* Never are two pushes past the dispatch lock together (CsharpSource::push).
THEOREM PushesSerialised == Spec => []DispatchSerialised
<1>1. IInv => DispatchSerialised
  BY DEF IInv, StreamInv
<1> QED
  BY <1>1, Invariance, PTL

\* Every subscription receives sequence numbers in increasing order, however
\* pushes overlap (the comment on `dispatch' in components.rs).
THEOREM OrderKept == Spec => []DeliveredInOrder
<1>1. IInv => DeliveredInOrder
  BY DEF IInv, Promises
<1> QED
  BY <1>1, Invariance, PTL

\* No change is missing from a subscription unless its push reported an error
\* (CsharpSource::push and the subscriber list of dispatch_source_change).
THEOREM GapsAreReported == Spec => []NoSilentGap
<1>1. IInv => NoSilentGap
  BY DEF IInv, Promises
<1> QED
  BY <1>1, Invariance, PTL

\* A bootstrap replays one state of the source though pushes go on meanwhile
\* (SnapshotBootstrap::bootstrap holds the snapshot lock).
THEOREM BootstrapReplaysOneState == Spec => []BootstrapIsOneState
<1>1. IInv => BootstrapIsOneState
  BY DEF IInv, Promises
<1> QED
  BY <1>1, Invariance, PTL

\* Wherever a subscription falls between a snapshot write and its dispatch, the
\* query ends up with the source's elements (CsharpSource::push writes the
\* snapshot first, SnapshotBootstrap::bootstrap reads it after the stream opened).
THEOREM LateJoinersConverge == Spec => []LateJoinerConverges
<1>1. LateInv => LateJoinerConverges
  BY DEF LateInv, Conv, Converged, LateJoinerConverges, Subscribed
<1>2. IInv => LateInv
  BY DEF IInv, Joining
<1> QED
  BY <1>1, <1>2, Invariance, PTL

-----------------------------------------------------------------------------
(* Refinement: every step of the source is a step of ChangeFeed or a stutter. *)

LEMMA InitFeed == Init => Feed!Init
BY DEF Init, Feed!Init, Owed, Subscribed

LEMMA FeedStep == IInv /\ [Next]_vars => [Feed!Next]_(Feed!feed)
<1> SUFFICES ASSUME IInv, [Next]_vars
             PROVE  [Feed!Next]_(Feed!feed)
  OBVIOUS
<1> USE DEF IInv, StreamInv, Feed!feed, locks, callers, subscriptions, history
<1>1. ASSUME NEW p \in Pushers, TakeSequence(p)
      PROVE  Feed!Next
  <2>1. dispatch = p /\ pc[p] # "sending"
    BY <1>1 DEF TakeSequence, DispatchSerialised
  <2>2. \A r \in Pushers : targets[r] = {}
    BY <2>1, OneSender DEF DispatchSerialised
  <2>3. targets' = [targets EXCEPT ![p] = Subscribed]
    BY <1>1 DEF TakeSequence
  <2>4. Owed = {} /\ Owed' = Subscribed /\ Subscribed \in SUBSET Queries
    BY <2>2, <2>3 DEF Owed, Subscribed, TypeOK
  <2>5. change[p] \in Change
    BY DEF TypeOK
  <2>6. Feed!Publish(change[p])
    BY <1>1, <2>4 DEF TakeSequence, Feed!Publish, Subscribed
  <2> QED
    BY <2>5, <2>6 DEF Feed!Next
<1>2. ASSUME NEW p \in Pushers, NEW q \in Queries, Deliver(p, q)
      PROVE  Feed!Next
  <2>1. dispatch = p /\ place[p] = Len(log) /\ q \in targets[p]
    BY <1>2 DEF Deliver, DispatchSerialised, Counted
  <2>2. \A r \in Pushers \ {p} : targets[r] = {}
    BY <2>1, OneSender
  <2>3. targets' = [targets EXCEPT ![p] = @ \ {q}]
    BY <1>2 DEF Deliver
  <2>4. Owed = targets[p] /\ Owed' = targets[p] \ {q}
    <3>1. targets'[p] = targets[p] \ {q}
      BY <2>3 DEF TypeOK
    <3>2. \A r \in Pushers \ {p} : targets'[r] = {}
      BY <2>2, <2>3 DEF TypeOK
    <3>3. \A x : x \in Owed' <=> \E r \in Pushers : x \in targets'[r]
      BY DEF Owed
    <3>4. \A x : x \in Owed <=> \E r \in Pushers : x \in targets[r]
      BY DEF Owed
    <3>5. \A x : x \in Owed <=> x \in targets[p]
      BY <2>2, <3>4
    <3>6. \A x : x \in Owed' <=> x \in targets'[p]
      BY <3>2, <3>3
    <3>7. Owed = targets[p] /\ Owed' = targets'[p]
      BY <3>5, <3>6
    <3> QED
      BY <3>1, <3>7
  <2>5. Feed!Receive(q)
    BY <1>2, <2>1, <2>4 DEF Deliver, Feed!Receive, Subscribed
  <2> QED
    BY <2>5 DEF Feed!Next
<1>3. ASSUME NEW p \in Pushers, PushDone(p)
      PROVE  UNCHANGED Feed!feed
  <2>1. targets' = targets
    BY <1>3 DEF PushDone, Leave, TypeOK
  <2> QED
    BY <1>3, <2>1 DEF PushDone, Leave, Owed, Subscribed
<1>4. ASSUME NEW p \in Pushers, PushFails(p)
      PROVE  Feed!Next
  <2>1. dispatch = p /\ place[p] = Len(log) /\ Len(log) > 0 /\ Len(log) \notin lost
    BY <1>4 DEF PushFails, DispatchSerialised, Counted, Fresh
  <2>2. \A r \in Pushers \ {p} : targets[r] = {}
    BY <2>1, OneSender
  <2>3. targets' = [targets EXCEPT ![p] = {}]
    BY <1>4 DEF PushFails, Leave
  <2>4. Owed' = {}
    BY <2>2, <2>3 DEF Owed, TypeOK
  <2>5. log # <<>>
    BY <2>1
  <2>6. Feed!GiveUp
    <3>1. lost' = lost \cup {Len(log)} /\ UNCHANGED <<log, stream, Subscribed>>
      BY <1>4, <2>1 DEF PushFails, Leave, Subscribed
    <3> QED
      BY <2>1, <2>4, <2>5, <3>1 DEF Feed!GiveUp
  <2> QED
    BY <2>6 DEF Feed!Next
<1>5. ASSUME NEW q \in Queries, Unsubscribe(q)
      PROVE  Feed!Next
  <2>1. targets' = [p \in Pushers |-> targets[p] \ {q}]
    BY <1>5 DEF Unsubscribe
  <2>2. Owed' = Owed \ {q}
    BY <2>1 DEF Owed
  <2>3. q \in Subscribed /\ Subscribed' = Subscribed \ {q}
    BY <1>5 DEF Unsubscribe, Subscribed, TypeOK
  <2>4. Feed!Quit(q)
    BY <1>5, <2>2, <2>3 DEF Unsubscribe, Feed!Quit
  <2> QED
    BY <2>4 DEF Feed!Next
<1>6. ASSUME NEW p \in Pushers,
             TakeDispatch(p) \/ RecordInSnapshot(p) \/ (\E c \in Change : Push(p, c))
      PROVE  UNCHANGED Feed!feed
  BY <1>6, EarlyPushFrame DEF Owed, Subscribed
<1>7. ASSUME NEW q \in Queries, Subscribe(q)
      PROVE  Feed!Next
  <2>1. UNCHANGED <<log, lost, Owed, stream>>
    BY <1>7, QueryStepFrame DEF Owed, Line
  <2>2. q \notin Subscribed /\ Subscribed' = Subscribed \cup {q}
    BY <1>7 DEF Subscribe, Subscribed, TypeOK
  <2>3. stream[q] = <<>>
    BY <1>7 DEF Subscribe, Gaps
  <2>4. Feed!Join(q)
    BY <2>1, <2>2, <2>3 DEF Feed!Join
  <2> QED
    BY <2>4 DEF Feed!Next
<1>8. ASSUME NEW q \in Queries, QueryStep(q)
      PROVE  UNCHANGED Feed!feed
  <2>1. UNCHANGED <<log, lost, Owed, stream>>
    BY <1>8, QueryStepFrame DEF Owed, Line
  <2>2. Subscribed' = Subscribed
    BY <1>8 DEF QueryStep, BeginBootstrap, EndBootstrap, Apply, SendElement, Subscribed,
                TypeOK
  <2> QED
    BY <2>1, <2>2
<1>9. CASE UNCHANGED vars
  BY <1>9 DEF vars, Owed, Subscribed
<1> QED
  BY <1>1, <1>2, <1>3, <1>4, <1>5, <1>6, <1>7, <1>8, <1>9 DEF Next, PushStep

\* The source with its locks, sequence counter and channels implements the
\* abstract feed: every query subscribed when a change takes its number receives it
\* before the next, unless its push reports an error (CsharpSource of
\* components.rs against ChangeFeed).
THEOREM ImplementsFeed == Spec => FeedSpec
BY Invariance, InitFeed, FeedStep, PTL DEF Spec, FeedSpec, Feed!Spec
=============================================================================
