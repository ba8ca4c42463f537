------------------------- MODULE SharedStateProofs ---------------------------
(***************************************************************************)
(* Proofs about what outlives an engine and meets the next one.  In a      *)
(* process (SharedProcess), for any number of engines, loggers, threads    *)
(* and tasks: the log sink first, then the write-ahead log.  From one      *)
(* process to the next (DurableReaction), for any number of results, any   *)
(* capacity of the outbox and any sequence of starts, failures and         *)
(* crashes: the checkpoint of a durable reaction.                          *)
(***************************************************************************)
EXTENDS SharedProcess, DurableReaction, TLAPS

-----------------------------------------------------------------------------
(* The log sink: its invariant *)

\* The engine that counts as configured last configures alone.
Alone ==
    last # Overlapped =>
        \A e \in Configuring : conf[e].options = last /\ \A d \in Configuring : d = e

Before(places) == \E e \in Engines : conf[e].at \in places

\* The four places a configuration has passed are those of the last engine.
Fields ==
    last # Overlapped =>
        /\ Before({"factory"}) \/ factory = last.factory
        /\ Before({"factory", "fallback"}) \/ fallback = Own(last)
        /\ Before({"factory", "fallback", "sink"}) \/ sink = (last # Neither)
        /\ \/ Before({"factory", "fallback", "sink", "filter"}) \/ last = Neither
           \/ filter = FilterFor(Own(last))

\* Whose logger OnNativeLog ends up with under the options.
WriterOf(options) ==
    IF options.factory # NoLogger THEN options.factory ELSE options.logger

\* An event past the filter is one that the filter in force lets pass.
Passes(level, options) ==
    IF options = Neither THEN level \in filter ELSE level \in FilterFor(Own(options))

\* What the place of event v says of what was written, o being the last options.
OnItsWay(v, o) ==
    /\ v.at # "done" => Passes(v.level, o)
    /\ v.at = "fmt" => v.out = {}
    /\ v.at = "callback" => v.out = IF o = Neither THEN {Stderr} ELSE {}
    /\ v.at \in {"managed", "fallback", "log"} => o # Neither /\ v.out = {}
    /\ v.at = "fallback" => o.factory = NoLogger
    /\ v.at = "log" => v.target = WriterOf(o)
    /\ v.at = "done" => v.out = Due(v.level, o)

\* An event that no configuration overlapped sees the last one complete.
Events ==
    \A t \in Threads :
        event[t].at # "idle" /\ event[t].last # Overlapped =>
            event[t].last = last /\ Configuring = {} /\ OnItsWay(event[t], last)

\* The types of one event and one configuration, as LogTypeOK has them.
EventType ==
    [at : {"idle", "fmt", "callback", "managed", "fallback", "log", "done"}, level : Levels,
     target : Writers \cup {NoLogger}, out : SUBSET (Writers \cup {Stderr}),
     last : Options \cup {Overlapped}]

ConfType ==
    [at : {"none", "factory", "fallback", "sink", "filter", "done"}, options : Options]

LogInv == LogTypeOK /\ Alone /\ Fields /\ Events

\* With a logger or a factory, the two names of its writer and of its own logger
\* stand for something.
LEMMA OptionsFacts ==
    ASSUME NEW o \in Options
    PROVE  /\ Neither \in Options
           /\ Own(o) \in Writers \cup {NoLogger}
           /\ o # Neither => Own(o) \in Writers /\ WriterOf(o) \in Writers
           /\ o = Neither <=> o.factory = NoLogger /\ o.logger = NoLogger
BY SinkAssumption DEF Options, Neither, Own, WriterOf, Writers

LEMMA FilterTyped ==
    ASSUME NEW logger
    PROVE  FilterFor(logger) \in SUBSET Levels
BY DEF FilterFor

LEMMA LogInitially == LogInit => LogInv
<1> SUFFICES ASSUME LogInit
             PROVE  LogInv
  OBVIOUS
<1> USE SinkAssumption DEF LogInit
<1>1. LogTypeOK
  <2>1. Neither \in Options /\ NoConf.at = "none"
    BY DEF Options, Neither, NoConf
  <2>2. NoEvent \in EventType
    BY DEF EventType, NoEvent, Levels
  <2>3. NoConf \in ConfType
    BY <2>1 DEF ConfType, NoConf
  <2>4. filter \in SUBSET Levels
    BY DEF Levels
  <2> QED
    BY <2>1, <2>2, <2>3, <2>4 DEF LogTypeOK, EventType, ConfType
<1>2. Alone
  BY DEF Alone, Configuring, NoConf
<1>3. Fields
  BY DEF Fields, Neither, Own
<1>4. Events
  BY DEF Events, NoEvent
<1> QED
  BY <1>1, <1>2, <1>3, <1>4 DEF LogInv

-----------------------------------------------------------------------------
(* Steps of Configure *)

LEMMA ConfigureBegins ==
    ASSUME LogInv, NEW e \in Engines, NEW options \in Options, Configure(e, options)
    PROVE  LogInv'
<1> USE DEF LogInv
<1>1. LogTypeOK'
  <2>1. event' \in [Threads -> EventType]
    <3>1. event \in [Threads -> EventType]
      BY DEF LogTypeOK, EventType
    <3>2. ASSUME NEW t \in Threads, NEW l \in Options \cup {Overlapped}
          PROVE  [event[t] EXCEPT !.last = l] \in EventType
      BY <3>1 DEF EventType
    <3>3. ASSUME NEW t \in Threads
          PROVE  [event[t] EXCEPT !.last = IF event[t].at = "idle" THEN @ ELSE Overlapped] \in EventType
      BY <3>1, <3>2 DEF EventType
    <3> QED
      BY <3>3 DEF Configure, Unsettled
  <2>2. conf' \in [Engines -> [at : {"none", "factory", "fallback", "sink", "filter", "done"},
                               options : Options]]
    BY DEF LogTypeOK, Configure
  <2>3. last' \in Options \cup {Overlapped} /\ UNCHANGED <<factory, fallback, sink, sinkLock, filter>>
    BY DEF Configure
  <2> QED
    BY <2>1, <2>2, <2>3 DEF LogTypeOK, EventType
<1>2. Alone'
  <2> SUFFICES ASSUME last' # Overlapped
               PROVE  Configuring' = {e} /\ conf'[e].options = last'
    BY DEF Alone
  <2>1. Configuring = {} /\ last' = options
    BY DEF Configure
  <2> QED
    BY <2>1 DEF Configure, Configuring, LogTypeOK
<1>3. Fields'
  <2>1. conf'[e].at = "factory"
    BY DEF Configure, LogTypeOK
  <2> QED
    BY <2>1 DEF Fields, Before
<1>4. Events'
  BY DEF Events, Configure, Unsettled, LogTypeOK
<1> QED
  BY <1>1, <1>2, <1>3, <1>4

\* What the four steps of a configuration have in common.
LEMMA ConfigureGoesOn ==
    ASSUME LogInv, NEW e \in Engines, ConfigureStep(e)
    PROVE  /\ e \in Configuring
           /\ \A d \in Engines : d # e => conf'[d] = conf[d]
           /\ conf'[e].options = conf[e].options
           /\ conf'[e].at \in {"fallback", "sink", "filter", "done"}
           /\ conf' \in [Engines -> ConfType]
           /\ event' = event /\ last' = last
BY DEF LogInv, LogTypeOK, ConfigureStep, SetFactory, SetFallback, SetSink, SetFilter,
       ConfigureGoesTo, Configuring, ConfType

LEMMA ConfigureKeeps ==
    ASSUME LogInv, NEW e \in Engines, ConfigureStep(e)
    PROVE  LogInv'
<1> USE DEF LogInv
<1>0. /\ e \in Configuring
      /\ \A d \in Engines : d # e => conf'[d] = conf[d]
      /\ conf'[e].options = conf[e].options
      /\ conf'[e].at \in {"fallback", "sink", "filter", "done"}
      /\ event' = event /\ last' = last
  BY ConfigureGoesOn
<1>1. LogTypeOK'
  <2>1. conf' \in [Engines -> ConfType]
    BY ConfigureGoesOn
  <2>2. conf[e].options \in Options
    BY DEF LogTypeOK
  <2>3. /\ conf[e].options.factory \in Factories \cup {NoLogger}
        /\ Own(conf[e].options) \in Writers \cup {NoLogger}
        /\ FilterFor(Own(conf[e].options)) \in SUBSET Levels
    BY <2>2, OptionsFacts, FilterTyped DEF Options
  <2> QED
    BY <1>0, <2>1, <2>3 DEF LogTypeOK, ConfigureStep, SetFactory, SetFallback, SetSink, SetFilter,
       ConfType
<1>2. Configuring' \subseteq Configuring
  BY <1>0 DEF Configuring
<1>3. Alone'
  BY <1>0, <1>2 DEF Alone
<1>4. Events'
  BY <1>0, <1>2 DEF Events
<1>5. Fields'
  <2> SUFFICES ASSUME last # Overlapped
               PROVE  Fields'
    BY <1>0 DEF Fields
  <2>1. conf[e].options = last /\ \A d \in Engines \ {e} : conf[d].at \in {"none", "done"}
    BY <1>0 DEF Alone, Configuring
  <2>2. \A d \in Engines \ {e} : conf'[d].at \in {"none", "done"}
    BY <1>0, <2>1
  <2>3. CASE SetFactory(e)
    <3>1. conf'[e].at = "fallback"
      BY <2>3 DEF SetFactory, ConfigureGoesTo, LogTypeOK
    <3> QED
      BY <1>0, <2>1, <2>3, <3>1 DEF SetFactory, Fields, Before
  <2>4. CASE SetFallback(e)
    <3>1. conf[e].at = "fallback" /\ conf'[e].at = "sink"
      BY <2>4 DEF SetFallback, ConfigureGoesTo, LogTypeOK
    <3>2. ~Before({"factory"})
      BY <2>1, <3>1 DEF Before
    <3> QED
      BY <1>0, <2>1, <2>4, <3>1, <3>2 DEF SetFallback, Fields, Before
  <2>5. CASE SetSink(e)
    <3>1. /\ conf[e].at = "sink"
          /\ conf'[e].at = IF last = Neither THEN "done" ELSE "filter"
      BY <2>1, <2>5 DEF SetSink, ConfigureGoesTo, LogTypeOK
    <3>2. ~Before({"factory"}) /\ ~Before({"factory", "fallback"})
      BY <2>1, <3>1 DEF Before
    <3>3. last = Neither \/ Before({"factory", "fallback", "sink", "filter"})'
      BY <3>1 DEF Before
    <3>4. sink' = (last # Neither) /\ UNCHANGED <<factory, fallback, filter>>
      BY <2>1, <2>5 DEF SetSink
    <3> HIDE DEF Before
    <3> QED
      BY <1>0, <3>2, <3>3, <3>4 DEF Fields
  <2>6. CASE SetFilter(e)
    <3>1. conf[e].at = "filter" /\ conf'[e].at = "done"
      BY <2>6 DEF SetFilter, ConfigureGoesTo, LogTypeOK
    <3>2. ~Before({"factory"}) /\ ~Before({"factory", "fallback"}) /\ ~Before({"factory", "fallback", "sink"})
      BY <2>1, <3>1 DEF Before
    <3>3. /\ filter' = FilterFor(Own(last))
          /\ UNCHANGED <<factory, fallback, sink>>
      BY <2>1, <2>6 DEF SetFilter
    <3> HIDE DEF Before
    <3> QED
      BY <1>0, <3>2, <3>3 DEF Fields
  <2> QED
    BY <2>3, <2>4, <2>5, <2>6 DEF ConfigureStep
<1> QED
  BY <1>1, <1>3, <1>4, <1>5

-----------------------------------------------------------------------------
(* Steps of an event *)

\* A step that moves one event and leaves the configuration alone.
LEMMA EventMoves ==
    ASSUME LogInv, NEW t \in Threads,
           UNCHANGED <<factory, fallback, sink, filter, conf, last>>,
           \A u \in Threads : u # t => event'[u] = event[u],
           event'[t].at # "idle" /\ event'[t].last # Overlapped =>
               event'[t].last = last /\ Configuring = {} /\ OnItsWay(event'[t], last)
    PROVE  (Alone /\ Fields /\ Events)'
<1> USE DEF LogInv
<1>1. Configuring' = Configuring /\ \A places : Before(places)' = Before(places)
  BY DEF Configuring, Before
<1>2. Alone'
  BY <1>1 DEF Alone
<1>3. Fields'
  BY DEF Fields, Before
<1>4. ASSUME NEW u \in Threads
      PROVE  (event[u].at # "idle" /\ event[u].last # Overlapped =>
                  event[u].last = last /\ Configuring = {} /\ OnItsWay(event[u], last))'
  <2>1. CASE u = t
    BY <1>1, <2>1 DEF OnItsWay, Due, Passes
  <2>2. CASE u # t
    BY <1>1, <2>2 DEF Events, OnItsWay, Due, Passes
  <2> QED
    BY <2>1, <2>2
<1>5. Events'
  BY <1>4 DEF Events
<1> QED
  BY <1>2, <1>3, <1>5

LEMMA EventTyped ==
    ASSUME LogTypeOK, NEW t \in Threads, LogNext(t)
    PROVE  LogTypeOK'
<1>1. NoEvent \in EventType
  BY DEF EventType, NoEvent, Levels
<1>0. event \in [Threads -> EventType]
  BY DEF LogTypeOK, EventType
<1> USE <1>0 DEF LogTypeOK, EventGoesTo, EventType
<1>2. ASSUME NEW level \in Levels, Emit(t, level)
      PROVE  LogTypeOK'
  BY <1>1, <1>2 DEF Emit
<1>3. CASE FmtLayer(t)
  <2>1. [event[t] EXCEPT !.at = "callback", !.out = IF sink THEN {} ELSE {Stderr}] \in EventType
    OBVIOUS
  <2>2. event' \in [Threads -> EventType]
    BY <1>3, <2>1 DEF FmtLayer
  <2> QED
    BY <1>3, <2>2 DEF FmtLayer
<1>4. CASE CallbackLayer(t)
  BY <1>4 DEF CallbackLayer
<1>5. CASE OnNativeLog(t)
  <2>1. [event[t] EXCEPT !.at = IF factory = NoLogger THEN "fallback" ELSE "log",
                         !.target = factory] \in EventType
    BY DEF Writers
  <2>2. event' \in [Threads -> EventType]
    BY <1>5, <2>1 DEF OnNativeLog
  <2>3. UNCHANGED <<factory, fallback, sink, sinkLock, filter, conf, last>>
    BY <1>5 DEF OnNativeLog
  <2> QED
    BY <2>2, <2>3
<1>6. CASE UseFallback(t)
  <2>1. [event[t] EXCEPT !.at = "log", !.target = fallback] \in EventType
    OBVIOUS
  <2>2. event' \in [Threads -> EventType]
    BY <1>6, <2>1 DEF UseFallback
  <2>3. UNCHANGED <<factory, fallback, sink, sinkLock, filter, conf, last>>
    BY <1>6 DEF UseFallback
  <2> QED
    BY <2>2, <2>3
<1>7. CASE Log(t)
  <2>1. Written(event[t]) \in SUBSET (Writers \cup {Stderr})
    BY DEF Written
  <2>2. [event[t] EXCEPT !.at = "done", !.out = event[t].out \cup Written(event[t])] \in EventType
    BY <2>1
  <2>3. event' \in [Threads -> EventType]
    BY <1>7, <2>2 DEF Log
  <2> QED
    BY <1>7, <2>3 DEF Log
<1>8. CASE Emitted(t)
  BY <1>1, <1>8 DEF Emitted
<1> QED
  BY <1>2, <1>3, <1>4, <1>5, <1>6, <1>7, <1>8 DEF LogNext, EventStep

\* While nobody configures, the four places are those of the last engine.
LEMMA Settled ==
    ASSUME LogInv, Configuring = {}, last # Overlapped
    PROVE  /\ last \in Options
           /\ factory = last.factory /\ fallback = Own(last) /\ sink = (last # Neither)
           /\ last = Neither \/ filter = FilterFor(Own(last))
<1>1. \A e \in Engines : conf[e].at \in {"none", "done"}
  BY DEF Configuring
<1> QED
  BY <1>1 DEF LogInv, LogTypeOK, Fields, Before

LEMMA EventKeeps ==
    ASSUME LogInv, NEW t \in Threads, LogNext(t)
    PROVE  LogInv'
<1>1. LogTypeOK'
  BY EventTyped DEF LogInv
<1>2. UNCHANGED <<factory, fallback, sink, filter, conf, last>>
  BY DEF LogNext, EventStep, Emit, FmtLayer, CallbackLayer, OnNativeLog, UseFallback, Log, Emitted
<1>3. \A u \in Threads : u # t => event'[u] = event[u]
  BY DEF LogNext, EventStep, Emit, FmtLayer, CallbackLayer, OnNativeLog, UseFallback, Log,
         Emitted, EventGoesTo, LogInv, LogTypeOK
<1>4. ASSUME event'[t].at # "idle", event'[t].last # Overlapped
      PROVE  event'[t].last = last /\ Configuring = {} /\ OnItsWay(event'[t], last)
  <2>1. ASSUME NEW level \in Levels, Emit(t, level)
        PROVE  event'[t].last = last /\ Configuring = {} /\ OnItsWay(event'[t], last)
    <3>1. event'[t] = [NoEvent EXCEPT
                          !.at = IF level \in filter THEN "fmt" ELSE "done",
                          !.level = level,
                          !.last = IF Configuring = {} THEN last ELSE Overlapped]
      BY <2>1 DEF Emit, LogInv, LogTypeOK
    <3>2. event'[t].last = last /\ Configuring = {} /\ last # Overlapped
      BY <1>4, <3>1 DEF NoEvent
    <3>3. last # Neither => filter = FilterFor(Own(last))
      BY <3>2, Settled
    <3>4. /\ event'[t].at = IF level \in filter THEN "fmt" ELSE "done"
          /\ event'[t].level = level /\ event'[t].out = {}
      BY <3>1 DEF NoEvent
    <3>5. level \in filter <=> Passes(level, last)
      BY <3>3 DEF Passes
    <3>6. level \notin filter => Due(level, last) = {}
      BY <3>3 DEF Due
    <3> QED
      BY <3>2, <3>4, <3>5, <3>6 DEF OnItsWay
  <2>2. ASSUME EventStep(t)
        PROVE  event'[t].last = last /\ Configuring = {} /\ OnItsWay(event'[t], last)
    <3>0. event \in [Threads -> EventType] /\ event[t] \in EventType
      BY DEF LogInv, LogTypeOK, EventType
    <3>1. /\ event[t].at \notin {"idle", "done"} /\ event'[t].last = event[t].last
          /\ event'[t].level = event[t].level
      <4>1. ~Emitted(t)
        BY <1>4, <3>0 DEF Emitted, NoEvent
      <4>2. CASE FmtLayer(t)
        BY <3>0, <4>2 DEF FmtLayer, EventType
      <4>3. CASE CallbackLayer(t)
        BY <3>0, <4>3 DEF CallbackLayer, EventGoesTo, EventType
      <4>4. CASE OnNativeLog(t)
        BY <3>0, <4>4 DEF OnNativeLog, EventType
      <4>5. CASE UseFallback(t)
        BY <3>0, <4>5 DEF UseFallback, EventType
      <4>6. CASE Log(t)
        BY <3>0, <4>6 DEF Log, EventType
      <4> QED
        BY <2>2, <4>1, <4>2, <4>3, <4>4, <4>5, <4>6 DEF EventStep
    <3>2. event'[t].last = last /\ Configuring = {} /\ OnItsWay(event[t], last) /\ last # Overlapped
      BY <1>4, <3>1 DEF LogInv, Events
    <3>3. /\ last \in Options
          /\ factory = last.factory /\ fallback = Own(last) /\ sink = (last # Neither)
      BY <3>2, Settled
    <3>4. Passes(event[t].level, last)
      BY <3>2, <3>1 DEF OnItsWay
    <3>5. CASE FmtLayer(t)
      <4>1. /\ event[t].at = "fmt" /\ event'[t].at = "callback"
            /\ event'[t].out = IF sink THEN {} ELSE {Stderr}
        BY <3>0, <3>5 DEF FmtLayer, EventType
      <4> QED
        BY <3>2, <3>3, <3>1, <3>4, <4>1 DEF OnItsWay
    <3>6. CASE CallbackLayer(t)
      <4>1. /\ event[t].at = "callback" /\ event'[t].at = IF sink THEN "managed" ELSE "done"
            /\ event'[t].out = event[t].out
        BY <3>0, <3>6 DEF CallbackLayer, EventGoesTo, EventType
      <4>2. event[t].out = IF last = Neither THEN {Stderr} ELSE {}
        BY <3>2, <4>1 DEF OnItsWay
      <4>3. last = Neither => Due(event[t].level, last) = {Stderr}
        BY <3>4 DEF Due, Passes
      <4> QED
        BY <3>2, <3>3, <3>1, <3>4, <4>1, <4>2, <4>3 DEF OnItsWay
    <3>7. CASE OnNativeLog(t)
      <4>1. /\ event[t].at = "managed" /\ event'[t].target = factory
            /\ event'[t].at = IF factory = NoLogger THEN "fallback" ELSE "log"
            /\ event'[t].out = event[t].out
        BY <3>0, <3>7 DEF OnNativeLog, EventType
      <4>2. last # Neither /\ event[t].out = {}
        BY <3>2, <4>1 DEF OnItsWay
      <4> QED
        BY <3>2, <3>3, <3>1, <3>4, <4>1, <4>2 DEF OnItsWay, WriterOf
    <3>8. CASE UseFallback(t)
      <4>1. /\ event[t].at = "fallback" /\ event'[t].target = fallback
            /\ event'[t].at = "log" /\ event'[t].out = event[t].out
        BY <3>0, <3>8 DEF UseFallback, EventType
      <4>2. last # Neither /\ event[t].out = {} /\ last.factory = NoLogger
        BY <3>2, <4>1 DEF OnItsWay
      <4>3. Own(last) = WriterOf(last)
        BY <3>3, <4>2, OptionsFacts DEF Own, WriterOf
      <4> QED
        BY <3>2, <3>3, <3>1, <3>4, <4>1, <4>2, <4>3 DEF OnItsWay
    <3>9. CASE Log(t)
      <4>1. /\ event[t].at = "log" /\ event'[t].at = "done"
            /\ event'[t].out = event[t].out \cup Written(event[t])
        BY <3>0, <3>9 DEF Log, EventType
      <4>2. event[t].target = WriterOf(last) /\ last # Neither /\ event[t].out = {}
        BY <3>2, <4>1 DEF OnItsWay
      <4>3. event[t].level \in FilterFor(Own(last)) /\ WriterOf(last) # NoLogger
        BY <3>3, <3>4, <4>2, OptionsFacts, SinkAssumption DEF Passes
      <4>4. Written(event[t]) = Due(event[t].level, last)
        BY <4>2, <4>3 DEF Written, Due, WriterOf
      <4> QED
        BY <3>2, <3>1, <4>1, <4>2, <4>4 DEF OnItsWay
    <3> QED
      BY <2>2, <3>1, <3>5, <3>6, <3>7, <3>8, <3>9 DEF EventStep, Emitted
  <2> QED
    BY <2>1, <2>2 DEF LogNext
<1>5. (Alone /\ Fields /\ Events)'
  BY <1>2, <1>3, <1>4, EventMoves
<1> QED
  BY <1>1, <1>5 DEF LogInv

\* create gives the options back.
LEMMA ForgetsOptions ==
    ASSUME LogInv, NEW e \in Engines, conf[e].at = "done",
           conf' = [conf EXCEPT ![e] = NoConf],
           UNCHANGED <<factory, fallback, sink, sinkLock, filter, event, last>>
    PROVE  LogInv'
<1> USE DEF LogInv
<1>1. NoConf.at = "none" /\ NoConf \in ConfType
  BY OptionsFacts DEF NoConf, ConfType, Options, Neither
<1>2. LogTypeOK'
  BY <1>1 DEF LogTypeOK, ConfType
<1>3. \A d \in Engines : conf'[d] = IF d = e THEN NoConf ELSE conf[d]
  BY DEF LogTypeOK
<1>4. Configuring' = Configuring /\ e \notin Configuring
  BY <1>1, <1>3 DEF Configuring
<1>5. Alone'
  BY <1>3, <1>4 DEF Alone
<1>6. Events'
  BY <1>4 DEF Events, OnItsWay, Due, Passes
<1>7. Before({"factory"})' = Before({"factory"})
      /\ Before({"factory", "fallback"})' = Before({"factory", "fallback"})
      /\ Before({"factory", "fallback", "sink"})' = Before({"factory", "fallback", "sink"})
      /\ Before({"factory", "fallback", "sink", "filter"})' = Before({"factory", "fallback", "sink", "filter"})
  BY <1>1, <1>3 DEF Before
<1>8. Fields'
  <2> HIDE DEF Before
  <2> QED
    BY <1>7 DEF Fields
<1> QED
  BY <1>2, <1>5, <1>6, <1>8

LEMMA LogUntouched ==
    ASSUME LogInv, UNCHANGED logVars
    PROVE  LogInv'
<1> USE DEF LogInv, logVars
<1>1. LogTypeOK' /\ Alone' /\ Fields'
  BY DEF LogTypeOK, Alone, Fields, Configuring, Before
<1>2. Events'
  BY DEF Events, Configuring, OnItsWay, Due, Passes
<1> QED
  BY <1>1, <1>2

-----------------------------------------------------------------------------
(* The write-ahead log *)

\* A provider is held, and a log open, only while its engine has not closed.
Held ==
    /\ file \in provided \cup {NoEngine}
    /\ \A e \in provided : life[e] \in {"open", "stopping", "releasing"}

IInv == TypeOK /\ LogInv /\ Held

LEMMA Initially == Init => IInv
<1> SUFFICES ASSUME Init
             PROVE  IInv
  OBVIOUS
<1>1. LogInv
  BY LogInitially DEF Init
<1>2. WalTypeOK
  BY DEF Init, WalInit, WalTypeOK, NoOp, Kinds
<1>3. life \in [Engines -> Lives] /\ Held
  BY DEF Init, WalInit, LifeInit, Lives, Held
<1> QED
  BY <1>1, <1>2, <1>3 DEF IInv, TypeOK, LogInv

\* An operation opens the log for its own engine only, and only if it is provided.
LEMMA OperationKeeps ==
    ASSUME WalTypeOK, Held, NEW t \in Tasks, OpStep(t), UNCHANGED life
    PROVE  WalTypeOK' /\ Held'
<1> USE DEF WalTypeOK, Held
<1>1. NoOp.at = "idle" /\ NoOp \in [at : {"idle", "waiting", "inside"},
                                   engine : Engines \cup {NoEngine}, kind : Kinds]
  BY DEF NoOp, Kinds
<1>2. CASE GetGuard(t)
  BY <1>2 DEF GetGuard
<1>3. CASE Register(t)
  BY <1>1, <1>3 DEF Register, Answered
<1>4. CASE UseLog(t)
  BY <1>1, <1>4 DEF UseLog, Answered
<1>5. CASE DeleteWal(t)
  BY <1>1, <1>5 DEF DeleteWal, Answered
<1>6. CASE Released(t)
  BY <1>1, <1>6 DEF Released, Answered
<1> QED
  BY <1>2, <1>3, <1>4, <1>5, <1>6 DEF OpStep

LEMMA BeginKeeps ==
    ASSUME WalTypeOK, Held, NEW t \in Tasks, NEW e \in Engines, NEW kind \in Kinds,
           Begin(t, e, kind), UNCHANGED life
    PROVE  WalTypeOK' /\ Held'
<1>1. op' \in [Tasks -> [at : {"idle", "waiting", "inside"}, engine : Engines \cup {NoEngine},
                         kind : Kinds]]
  BY DEF WalTypeOK, Begin, NoOp
<1>2. op'[t].engine = e /\ \A u \in Tasks : u # t => op'[u] = op[u]
  BY DEF WalTypeOK, Begin, NoOp
<1> QED
  BY <1>1, <1>2 DEF WalTypeOK, Held, Begin

\* What becomes of one engine as a whole.
LEMMA LifeKeeps ==
    ASSUME IInv, NEW e \in Engines,
           CreateAsync(e) \/ Create(e) \/ Shutdown(e) \/ CoreShutdown(e) \/ Release(e) \/ Free(e)
    PROVE  IInv'
<1> USE DEF IInv, LifeGoesTo
<1>1. life \in [Engines -> Lives] /\ WalTypeOK /\ Held /\ LogInv
  BY DEF TypeOK
<1>2. life' \in [Engines -> Lives]
  BY <1>1 DEF CreateAsync, Create, Shutdown, CoreShutdown, Release, Free, Lives
<1>3. WalTypeOK'
  BY <1>1 DEF CreateAsync, Create, Shutdown, CoreShutdown, Release, Free, WalTypeOK, walVars,
              NewProvider, AskToRelease, TakeProvider
<1>4. Held'
  <2> USE <1>1 DEF Held, walVars
  <2>1. CASE CreateAsync(e)
    BY <2>1 DEF CreateAsync
  <2>2. CASE Create(e)
    <3>1. life[e] = "creating" /\ e \notin provided
      BY <2>2 DEF Create
    <3>2. CASE NewProvider(e) /\ LifeGoesTo(e, "open")
      <4>1. /\ provided' = provided \cup {e} /\ file' = file
            /\ life' = [life EXCEPT ![e] = "open"]
        BY <3>2 DEF NewProvider
      <4>2. \A d \in provided : d \in Engines /\ life'[d] = life[d]
        BY <3>1, <4>1 DEF WalTypeOK
      <4> QED
        BY <4>1, <4>2
    <3>3. CASE LifeGoesTo(e, "none") /\ UNCHANGED walVars
      BY <3>1, <3>3 DEF WalTypeOK
    <3> QED
      BY <2>2, <3>2, <3>3 DEF Create
  <2>3. CASE Shutdown(e)
    BY <2>3 DEF Shutdown
  <2>4. CASE CoreShutdown(e)
    BY <2>4 DEF CoreShutdown, AskToRelease
  <2>5. CASE Release(e)
    BY <2>5 DEF Release, TakeProvider
  <2>6. CASE Free(e)
    BY <2>6 DEF Free
  <2> QED
    BY <2>1, <2>2, <2>3, <2>4, <2>5, <2>6
<1>5. LogInv'
  <2>1. CASE CreateAsync(e)
    BY <1>1, <2>1, ConfigureBegins DEF CreateAsync
  <2>2. CASE Create(e)
    BY <1>1, <2>2, ForgetsOptions DEF Create
  <2>3. CASE Shutdown(e) \/ CoreShutdown(e) \/ Release(e) \/ Free(e)
    BY <1>1, <2>3, LogUntouched DEF Shutdown, CoreShutdown, Release, Free
  <2> QED
    BY <2>1, <2>2, <2>3
<1> QED
  BY <1>2, <1>3, <1>4, <1>5 DEF TypeOK, LogInv

LEMMA ShareKeeps ==
    ASSUME IInv,
           \/ \E e \in Engines : ConfigureNext(e)
           \/ \E t \in Tasks : BeginOperation(t) \/ OperationStep(t)
           \/ \E t \in Threads : EventNext(t)
           \/ UNCHANGED vars
    PROVE  IInv'
<1>1. life \in [Engines -> Lives] /\ WalTypeOK /\ Held /\ LogInv
  BY DEF IInv, TypeOK
<1>2. ASSUME UNCHANGED life, LogInv', WalTypeOK', Held'
      PROVE  IInv'
  BY <1>1, <1>2 DEF IInv, TypeOK, LogInv
<1>3. UNCHANGED <<walVars, life>> => WalTypeOK' /\ Held'
  BY <1>1 DEF walVars, WalTypeOK, Held
<1>4. ASSUME NEW e \in Engines, ConfigureNext(e)
      PROVE  IInv'
  BY <1>1, <1>2, <1>3, <1>4, ConfigureKeeps DEF ConfigureNext
<1>5. ASSUME NEW t \in Threads, EventNext(t)
      PROVE  IInv'
  BY <1>1, <1>2, <1>3, <1>5, EventKeeps DEF EventNext
<1>6. ASSUME NEW t \in Tasks, BeginOperation(t)
      PROVE  IInv'
  BY <1>1, <1>2, <1>6, BeginKeeps, LogUntouched DEF BeginOperation
<1>7. ASSUME NEW t \in Tasks, OperationStep(t)
      PROVE  IInv'
  BY <1>1, <1>2, <1>7, OperationKeeps, LogUntouched DEF OperationStep
<1>8. CASE UNCHANGED vars
  <2>1. UNCHANGED logVars /\ UNCHANGED <<walVars, life>>
    BY <1>8 DEF vars, logVars, walVars
  <2> QED
    BY <1>1, <1>2, <1>3, <2>1, LogUntouched
<1> QED
  BY <1>4, <1>5, <1>6, <1>7, <1>8

LEMMA StepKeeps == IInv /\ [Next]_vars => IInv'
BY LifeKeeps, ShareKeeps DEF Next, EngineStep

LEMMA Invariant == Spec => []IInv
<1>1. Init => IInv
  BY Initially
<1>2. IInv /\ [Next]_vars => IInv'
  BY StepKeeps
<1> QED
  BY <1>1, <1>2, PTL DEF Spec

-----------------------------------------------------------------------------
(* Theorems *)

\* Type correctness of the sink, of the provider and of the engines' lives.
THEOREM TypeCorrect == Spec => []TypeOK
<1>1. IInv => TypeOK
  BY DEF IInv
<1> QED
  BY <1>1, Invariant, PTL

\* When the shutdown of an engine is over its log is closed, and no task that
\* still uses the engine can open it again (shutdown, release).
THEOREM LogIsFree == Spec => []ShutdownFreesLog
<1>1. IInv => ShutdownFreesLog
  <2> SUFFICES ASSUME IInv, NEW e \in Engines, life[e] = "closed"
               PROVE  file # e /\ e \notin provided
    BY DEF ShutdownFreesLog
  <2> QED
    BY WalAssumption DEF IInv, Held
<1> QED
  BY <1>1, Invariant, PTL

\* An event that no configuration overlapped is written once and where the options
\* of the engine configured last put it, whatever levels the loggers and factories
\* enable (Logging.Configure, FilterFor, CallbackLayer).
THEOREM EventsReachLogger == Spec => []EventReachesLastConfigured
<1>1. IInv => EventReachesLastConfigured
  BY DEF IInv, LogInv, Events, OnItsWay, EventReachesLastConfigured
<1> QED
  BY <1>1, Invariant, PTL

-----------------------------------------------------------------------------
(* The durable reaction: its invariant *)

\* What a running loop is done with was delivered or passed over.
Behind == loop # "off" => \A n \in 1..pos : n \in delivered \cup passed

\* What the place of the loop says of the result in hand.
InHand ==
    /\ loop = "taking" => ~worked
    /\ loop = "saving" => worked
    /\ loop # "off" /\ worked => pos + 1 \in delivered

\* A loop never is behind the checkpoint, unless a start could not read it.
Ahead == ~blind /\ loop # "off" => pos >= checkpoint

\* Where a delivered result is: saved, in doubt or in hand.
Accounted ==
    ~blind => \A n \in delivered :
                 n <= checkpoint \/ n \in doubt \/ (loop # "off" /\ worked /\ n = pos + 1)

ReactionInv == ReactionTypeOK /\ CheckpointedWasDelivered /\ Behind /\ InHand /\ Ahead /\ Accounted

-----------------------------------------------------------------------------
(* The durable reaction: its start *)

\* A start finds the checkpoint or nothing, and knows which unless it is blind.
LEMMA CheckpointRead ==
    ASSUME ReactionTypeOK, NEW readable \in BOOLEAN
    PROVE  /\ ReadCheckpoints(readable) \in 0..checkpoint
           /\ readable \/ checkpoint = 0 => ReadCheckpoints(readable) = checkpoint
BY DEF ReactionTypeOK, ReadCheckpoints

\* A loop starts at a result that exists, and not before its checkpoint.
LEMMA StartPosition ==
    ASSUME ReactionTypeOK, NEW c \in 0..checkpoint, NEW p \in Positions(c)
    PROVE  p \in 0..produced /\ p >= c
<1> USE ReactionAssumption DEF ReactionTypeOK
<1>1. Oldest \in Int /\ Oldest >= 1 /\ Oldest <= produced + 1
  BY DEF Oldest
<1>2. CASE c = 0
  BY <1>2 DEF Positions
<1>3. CASE c # 0 /\ Oldest <= c + 1
  BY <1>3 DEF Positions
<1>4. CASE c # 0 /\ ~(Oldest <= c + 1)
  BY <1>1, <1>4 DEF Positions
<1> QED
  BY <1>1, <1>2, <1>3, <1>4

-----------------------------------------------------------------------------
(* The durable reaction: every step keeps the invariant *)

LEMMA ReactionBegins == ReactionInit => ReactionInv
<1> SUFFICES ASSUME ReactionInit
             PROVE  ReactionInv
  OBVIOUS
<1> USE ReactionAssumption DEF ReactionInit
<1>1. ReactionTypeOK
  <2>1. 0 \in 0..MaxResults /\ 0 \in 0..0
    OBVIOUS
  <2> QED
    BY <2>1 DEF ReactionTypeOK
<1>2. CheckpointedWasDelivered
  BY DEF CheckpointedWasDelivered
<1>3. Behind /\ InHand /\ Ahead /\ Accounted
  BY DEF Behind, InHand, Ahead, Accounted
<1> QED
  BY <1>1, <1>2, <1>3 DEF ReactionInv

\* The steps of the stores and of the facade around the loop.
LEMMA OutsideKeeps ==
    ASSUME ReactionInv, Produce \/ AddDurableReaction \/ Stop \/ EngineEnds \/ UNCHANGED reactionVars
    PROVE  ReactionInv'
<1> USE ReactionAssumption
    DEF ReactionInv, ReactionTypeOK, CheckpointedWasDelivered, Behind, InHand, Ahead, Accounted,
        Results, stores, reactionHistory
<1>1. CASE Produce
  BY <1>1 DEF Produce
<1>2. CASE AddDurableReaction
  BY <1>2 DEF AddDurableReaction
<1>3. CASE Stop
  BY <1>3 DEF Stop, InDoubt
<1>4. CASE EngineEnds
  BY <1>4 DEF EngineEnds, InDoubt
<1>5. CASE UNCHANGED reactionVars
  BY <1>5 DEF reactionVars
<1> QED
  BY <1>1, <1>2, <1>3, <1>4, <1>5

LEMMA StartKeeps ==
    ASSUME ReactionInv, NEW readable \in BOOLEAN, Start(readable)
    PROVE  ReactionInv'
<1> DEFINE c == ReadCheckpoints(readable)
<1>1. ReactionTypeOK
  BY DEF ReactionInv
<1>2. /\ c \in 0..checkpoint
      /\ readable \/ checkpoint = 0 => c = checkpoint
  BY <1>1, CheckpointRead
<1>3. PICK p \in Positions(c) : pos' = p /\ passed' = passed \cup ((c + 1)..p)
  BY DEF Start
<1>4. p \in 0..produced /\ p >= c
  BY <1>1, <1>2, <1>3, StartPosition
<1>5. /\ policy # "none" /\ loop = "off" /\ loop' = "taking" /\ worked' = FALSE
      /\ blind' = (blind \/ (~readable /\ checkpoint # 0))
      /\ UNCHANGED <<produced, checkpoint, policy, delivered, doubt>>
  BY DEF Start, stores
<1> HIDE DEF c
<1> USE ReactionAssumption, <1>1, <1>2, <1>3, <1>4, <1>5
<1>6. ReactionTypeOK'
  <2>1. (c + 1)..p \subseteq Results
    BY DEF ReactionTypeOK, Results
  <2> QED
    BY <2>1 DEF ReactionTypeOK
<1>7. CheckpointedWasDelivered'
  BY DEF ReactionInv, CheckpointedWasDelivered
<1>8. Behind'
  <2> SUFFICES ASSUME NEW n \in 1..p
               PROVE  n \in delivered \cup passed'
    BY DEF Behind
  <2>1. CASE n <= c
    BY <2>1 DEF ReactionInv, CheckpointedWasDelivered, ReactionTypeOK
  <2>2. CASE ~(n <= c)
    BY <2>2 DEF ReactionTypeOK
  <2> QED
    BY <2>1, <2>2
<1>9. InHand' /\ Accounted'
  BY DEF ReactionInv, InHand, Accounted
<1>10. Ahead'
  BY DEF Ahead, ReactionTypeOK
<1> QED
  BY <1>6, <1>7, <1>8, <1>9, <1>10 DEF ReactionInv

LEMMA LoopKeeps ==
    ASSUME ReactionInv, LoopStep
    PROVE  ReactionInv'
<1> USE ReactionAssumption
    DEF ReactionInv, ReactionTypeOK, CheckpointedWasDelivered, Behind, InHand, Ahead, Accounted,
        Results, stores, reactionHistory
<1>1. CASE TakeResult
  BY <1>1 DEF TakeResult
<1>2. CASE CallbackWorks
  BY <1>2 DEF CallbackWorks
<1>3. CASE OnNativeCallback
  <2>1. CASE worked /\ Dispatch(0)
    BY <1>3, <2>1 DEF OnNativeCallback, Dispatch
  <2>2. CASE Dispatch(-1)
    <3>1. loop' = "off" /\ doubt' = doubt \cup InDoubt
      BY <2>2 DEF Dispatch
    <3>2. InDoubt \subseteq Results /\ (worked => pos + 1 \in InDoubt)
      BY <1>3 DEF InDoubt, OnNativeCallback
    <3> QED
      BY <1>3, <3>1, <3>2 DEF OnNativeCallback
  <2> QED
    BY <1>3, <2>1, <2>2 DEF OnNativeCallback
<1>4. CASE SaveCheckpoint
  <2>1. /\ loop = "saving" /\ worked /\ pos + 1 \in 1..produced
        /\ UNCHANGED <<produced, policy, delivered, passed, blind>>
    BY <1>4 DEF SaveCheckpoint
  <2>2. CASE /\ checkpoint' = pos + 1 /\ pos' = pos + 1
             /\ loop' = "taking" /\ worked' = FALSE /\ UNCHANGED doubt
    <3>1. ReactionTypeOK'
      <4>1. checkpoint' \in 0..produced' /\ pos' \in 0..produced'
        BY <2>1, <2>2
      <4>2. worked' \in BOOLEAN /\ loop' \notin {"off", "calling", "saving"}
        BY <2>2
      <4>3. policy # "none"
        BY <2>1
      <4> HIDE DEF Behind, InHand, Ahead, Accounted, CheckpointedWasDelivered
      <4> QED
        BY <2>1, <2>2, <4>1, <4>2, <4>3
    <3>2. \A n \in 1..(pos + 1) : n \in delivered \cup passed
      BY <2>1
    <3>3. CheckpointedWasDelivered' /\ Behind'
      BY <2>1, <2>2, <3>2
    <3>4. InHand' /\ Ahead'
      BY <2>1, <2>2
    <3>5. Accounted'
      BY <2>1, <2>2
    <3> QED
      BY <3>1, <3>3, <3>4, <3>5
  <2>3. CASE /\ loop' = "off" /\ doubt' = doubt \cup InDoubt
             /\ UNCHANGED <<checkpoint, pos, worked>>
    BY <2>1, <2>3 DEF InDoubt
  <2> QED
    BY <1>4, <2>2, <2>3 DEF SaveCheckpoint
<1> QED
  BY <1>1, <1>2, <1>3, <1>4 DEF LoopStep

LEMMA ReactionStepKeeps == ReactionInv /\ [ReactionNext]_reactionVars => ReactionInv'
BY OutsideKeeps, StartKeeps, LoopKeeps DEF ReactionNext

LEMMA ReactionInvariant == ReactionSpec => []ReactionInv
<1>1. ReactionInit => ReactionInv
  BY ReactionBegins
<1>2. ReactionInv /\ [ReactionNext]_reactionVars => ReactionInv'
  BY ReactionStepKeeps
<1> QED
  BY <1>1, <1>2, PTL DEF ReactionSpec

-----------------------------------------------------------------------------
(* The durable reaction: theorems *)

\* Type correctness of the reaction's loop and of what the stores keep.
THEOREM ReactionTypeCorrect == ReactionSpec => []ReactionTypeOK
<1>1. ReactionInv => ReactionTypeOK
  BY DEF ReactionInv
<1> QED
  BY <1>1, ReactionInvariant, PTL

\* The checkpoint never is past a result whose callback has not done its work,
\* except for those a start passed over (dispatch, OnNativeCallback).
THEOREM NothingSkipped == ReactionSpec => []CheckpointedWasDelivered
<1>1. ReactionInv => CheckpointedWasDelivered
  BY DEF ReactionInv
<1> QED
  BY <1>1, ReactionInvariant, PTL

\* A callback sees a result again only for a reason: an interruption before the
\* checkpoint was saved, or a checkpoint that could not be read (start).
THEOREM RedeliveredForAReason == ReactionSpec => RedeliveryIsDue
<1> DEFINE Explained == \A n \in delivered : n = pos + 1 /\ ~worked /\ worked' => n \in doubt \/ blind
<1>1. ReactionInv /\ [ReactionNext]_reactionVars => [Explained]_reactionVars
  <2> SUFFICES ASSUME ReactionInv, ReactionNext, NEW n \in delivered, n = pos + 1, ~worked, worked', ~blind
               PROVE  n \in doubt
    OBVIOUS
  <2>1. CallbackWorks
    BY DEF ReactionNext, LoopStep, Produce, AddDurableReaction, Start, TakeResult, OnNativeCallback,
           SaveCheckpoint, Stop, EngineEnds
  <2>2. pos >= checkpoint /\ pos \in Int /\ checkpoint \in Int
    BY <2>1 DEF ReactionInv, Ahead, ReactionTypeOK, CallbackWorks
  <2> QED
    BY <2>2 DEF ReactionInv, Accounted
<1> QED
  BY <1>1, ReactionInvariant, PTL DEF ReactionSpec, RedeliveryIsDue

\* Results are seen for the first time in their order, whatever fails or restarts
\* in between (dispatch, start).
THEOREM SeenInOrder == ReactionSpec => FirstTimeInOrder
<1> DEFINE InOrder ==
              \A n \in delivered' \ delivered : 1..(n - 1) \subseteq delivered \cup passed
<1>1. ReactionInv /\ [ReactionNext]_reactionVars => [InOrder]_reactionVars
  <2> SUFFICES ASSUME ReactionInv, ReactionNext, NEW n \in delivered' \ delivered
               PROVE  1..(n - 1) \subseteq delivered \cup passed
    OBVIOUS
  <2>1. CallbackWorks
    BY DEF ReactionNext, LoopStep, Produce, AddDurableReaction, Start, TakeResult, OnNativeCallback,
           SaveCheckpoint, Stop, EngineEnds, stores, reactionHistory
  <2>2. n = pos + 1 /\ pos \in Int /\ loop # "off"
    BY <2>1 DEF CallbackWorks, ReactionInv, ReactionTypeOK
  <2>3. 1..(n - 1) = 1..pos
    BY <2>2
  <2> QED
    BY <2>2, <2>3 DEF ReactionInv, Behind
<1> QED
  BY <1>1, ReactionInvariant, PTL DEF ReactionSpec, FirstTimeInOrder

-----------------------------------------------------------------------------
(* The durable reaction: the promise it keeps *)

\* What a running loop is done with is settled, and one more with the result that
\* was worked on.
LEMMA LoopSettles ==
    ASSUME ReactionInv, loop # "off"
    PROVE  /\ pos \in 0..produced /\ produced \in Nat /\ checkpoint \in Nat
           /\ ~blind => pos + 1 > checkpoint
           /\ Promise!Settled(pos)
           /\ worked => pos + 1 \in delivered /\ Promise!Settled(pos + 1)
<1>1. /\ pos \in 0..produced /\ produced \in Nat /\ checkpoint \in Nat
      /\ ~blind => pos + 1 > checkpoint
  BY ReactionAssumption DEF ReactionInv, ReactionTypeOK, Ahead
<1>2. Promise!Settled(pos)
  BY DEF ReactionInv, Behind, Promise!Settled
<1>3. worked => pos + 1 \in delivered
  BY DEF ReactionInv, InHand
<1>4. 1..(pos + 1) = 1..pos \cup {pos + 1}
  BY <1>1
<1> QED
  BY <1>1, <1>2, <1>3, <1>4 DEF Promise!Settled

\* A start resumes behind the mark, passes over what it may, or has lost the mark.
LEMMA StartPromised ==
    ASSUME ReactionInv, NEW readable \in BOOLEAN, Start(readable)
    PROVE  [Promise!Next]_(Promise!promise)
<1> DEFINE c == ReadCheckpoints(readable)
<1>1. ReactionTypeOK /\ checkpoint \in Nat /\ produced \in Nat
  BY ReactionAssumption DEF ReactionInv, ReactionTypeOK
<1>2. /\ c \in 0..checkpoint
      /\ readable \/ checkpoint = 0 => c = checkpoint
      /\ ~readable => c = 0
  BY <1>1, CheckpointRead DEF ReadCheckpoints
<1>3. PICK p \in Positions(c) : passed' = passed \cup ((c + 1)..p)
  BY DEF Start
<1>4. p \in 0..produced /\ p >= c
  BY <1>1, <1>2, <1>3, StartPosition
<1>5. /\ blind' = (blind \/ (~readable /\ checkpoint # 0)) /\ blind \in BOOLEAN
      /\ UNCHANGED <<produced, checkpoint, policy, delivered>>
  BY <1>1 DEF Start, stores, ReactionTypeOK
<1> HIDE DEF c
<1>6. CASE ~readable /\ checkpoint # 0
  <2>1. passed' = passed \cup 1..p
    <3>1. c = 0 /\ c + 1 = 1
      BY <1>2, <1>6
    <3> QED
      BY <1>3, <3>1
  <2>2. blind' = TRUE
    BY <1>5, <1>6
  <2>3. Promise!Forget(p)
    BY <1>5, <1>6, <2>1, <2>2 DEF Promise!Forget
  <2> QED
    BY <1>4, <2>3 DEF Promise!Next
<1>7. CASE ~(~readable /\ checkpoint # 0)
  <2>1. c = checkpoint /\ blind' = blind
    BY <1>2, <1>5, <1>7
  <2>2. CASE p = c
    <3>1. passed' = passed
      BY <1>1, <1>3, <2>1, <2>2
    <3> QED
      BY <1>5, <2>1, <3>1 DEF Promise!promise
  <2>3. CASE p # c
    <3>1. checkpoint = 0 \/ (policy \in {"auto_reset", "skip_gap"} /\ ~(Oldest <= c + 1))
      BY <1>3, <2>1, <2>3 DEF Positions
    <3>2. ~(Oldest <= c + 1) => checkpoint + 1 + OutboxCapacity <= produced
      BY <1>1, <2>1, ReactionAssumption DEF Oldest
    <3>3. Promise!PassOver(p)
      BY <1>3, <1>5, <2>1, <3>1, <3>2 DEF Promise!PassOver, Promise!Gap
    <3> QED
      BY <1>4, <3>3 DEF Promise!Next
  <2> QED
    BY <2>2, <2>3
<1> QED
  BY <1>6, <1>7

LEMMA LoopPromised ==
    ASSUME ReactionInv, LoopStep
    PROVE  [Promise!Next]_(Promise!promise)
<1>1. CASE TakeResult
  BY <1>1 DEF TakeResult, stores, reactionHistory, Promise!promise
<1>2. CASE OnNativeCallback
  BY <1>2 DEF OnNativeCallback, stores, Promise!promise
<1>3. CASE CallbackWorks
  <2>1. /\ loop = "calling" /\ delivered' = delivered \cup {pos + 1}
        /\ UNCHANGED <<produced, checkpoint, policy, passed, blind>>
    BY <1>3 DEF CallbackWorks, stores
  <2>2. pos + 1 \in 1..produced /\ pos + 1 - 1 = pos
    <3>1. pos < produced
      BY <2>1 DEF ReactionInv, ReactionTypeOK
    <3> QED
      BY <2>1, <3>1, LoopSettles
  <2>3. Promise!Settled(pos) /\ (~blind => pos + 1 > checkpoint)
    BY <2>1, LoopSettles
  <2>4. Promise!Settled((pos + 1) - 1)
    <3>1. 1..((pos + 1) - 1) = 1..pos
      BY <2>1, LoopSettles
    <3> QED
      BY <2>3, <3>1 DEF Promise!Settled
  <2>5. Promise!See(pos + 1)
    BY <2>1, <2>3, <2>4 DEF Promise!See
  <2> QED
    BY <2>2, <2>5 DEF Promise!Next
<1>4. CASE SaveCheckpoint
  <2>1. loop = "saving" /\ UNCHANGED <<produced, policy, delivered, passed, blind>>
    BY <1>4 DEF SaveCheckpoint
  <2>2. CASE checkpoint' = pos + 1
    <3>1. pos < produced /\ worked
      BY <2>1 DEF ReactionInv, ReactionTypeOK, InHand
    <3>2. pos + 1 \in 1..produced
      BY <2>1, <3>1, LoopSettles
    <3>3. Promise!Mark(pos + 1)
      BY <2>1, <2>2, <3>1, LoopSettles DEF Promise!Mark
    <3> QED
      BY <3>2, <3>3 DEF Promise!Next
  <2>3. CASE checkpoint' = checkpoint
    BY <2>1, <2>3 DEF Promise!promise
  <2> QED
    BY <1>4, <2>2, <2>3 DEF SaveCheckpoint
<1> QED
  BY <1>1, <1>2, <1>3, <1>4 DEF LoopStep

LEMMA OutsidePromised ==
    ASSUME ReactionInv, Produce \/ AddDurableReaction \/ Stop \/ EngineEnds \/ UNCHANGED reactionVars
    PROVE  [Promise!Next]_(Promise!promise)
<1>1. CASE Produce
  <2>1. Promise!Emit
    BY <1>1 DEF Produce, reactionHistory, Promise!Emit
  <2> QED
    BY <2>1 DEF Promise!Next
<1>2. CASE AddDurableReaction \/ EngineEnds
  <2>1. UNCHANGED <<produced, checkpoint, delivered, passed, blind>>
    BY <1>2 DEF AddDurableReaction, EngineEnds, stores, reactionHistory
  <2>2. Promise!Choose
    BY <2>1 DEF Promise!Choose
  <2> QED
    BY <2>2 DEF Promise!Next
<1>3. CASE Stop
  BY <1>3 DEF Stop, stores, Promise!promise
<1>4. CASE UNCHANGED reactionVars
  BY <1>4 DEF reactionVars, Promise!promise
<1> QED
  BY <1>1, <1>2, <1>3, <1>4

\* Whatever fails, stops, crashes or is made anew, a durable reaction delivers at
\* least once and in order (CsharpReaction and OnNativeCallback against
\* AtLeastOnce).
THEOREM KeepsPromise == ReactionSpec => PromiseSpec
<1>1. ReactionInit => Promise!Init
  BY DEF ReactionInit, Promise!Init
<1>2. ReactionInv /\ [ReactionNext]_reactionVars => [Promise!Next]_(Promise!promise)
  BY StartPromised, LoopPromised, OutsidePromised DEF ReactionNext
<1> QED
  BY <1>1, <1>2, ReactionInvariant, PTL DEF ReactionSpec, PromiseSpec, Promise!Spec
==============================================================================
