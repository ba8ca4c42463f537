------------------------------- MODULE LogSink -------------------------------
(***************************************************************************)
(* The log sink of a process: the SINK and FILTER statics of               *)
(* native/src/logging.rs and the two static fields of                      *)
(* src/Drasi/Logging.cs.  Every engine that is created configures them,    *)
(* field by field; every native thread that emits an event reads them, at  *)
(* three different moments.                                                *)
(***************************************************************************)
EXTENDS EngineHandles, Naturals

CONSTANTS Threads,    \* native threads that emit events
          Loggers,    \* what applications pass as Logger
          Factories,  \* what they pass as LoggerFactory: each stands for its loggers
          EnabledBy,  \* [Loggers \cup Factories -> SUBSET Levels]: what IsEnabled answers
          NoLogger,   \* null
          Overlapped, \* stands for the options of configurations that overlapped
          Stderr,     \* the output of the fmt layer
          Nobody      \* no thread

\* From the least to the most severe; trace and info go with debug.
Debug == 1
Warn == 2
Error == 3
Levels == {Debug, Warn, Error}

Writers == Loggers \cup Factories

ASSUME SinkAssumption ==
    /\ EnabledBy \in [Writers -> SUBSET Levels]
    /\ NoLogger \notin Writers /\ Stderr \notin Writers \cup {NoLogger}
    /\ Nobody \notin Threads

VARIABLES
    factory,    \* Logging._factory
    fallback,   \* Logging._fallback
    sink,       \* whether SINK holds the callback
    sinkLock,   \* the thread that holds SINK's mutex
    filter,     \* the levels that FILTER lets pass
    conf,       \* [Engines -> the place its Configure has reached, and its options]
    event,      \* [Threads -> the event the thread emits]
    (* history *)
    last        \* the options of the last Configure, if it overlapped no other

logVars == <<factory, fallback, sink, sinkLock, filter, conf, event, last>>

Options == [factory : Factories \cup {NoLogger}, logger : Loggers \cup {NoLogger}]
Neither == [factory |-> NoLogger, logger |-> NoLogger]

\* options?.Logger ?? factory?.CreateLogger("Drasi")
Own(options) == IF options.logger # NoLogger THEN options.logger ELSE options.factory

\* The first level, from trace on, that the logger enables: "off" if there is none.
FilterFor(logger) == {level \in Levels : \E least \in EnabledBy[logger] : least <= level}

NoConf == [at |-> "none", options |-> Neither]
NoEvent == [at |-> "idle", level |-> Error, target |-> NoLogger, out |-> {}, last |-> Overlapped]

LogTypeOK ==
    /\ factory \in Factories \cup {NoLogger} /\ fallback \in Writers \cup {NoLogger}
    /\ sink \in BOOLEAN /\ sinkLock \in Threads \cup {Nobody}
    /\ filter \in SUBSET Levels
    /\ conf \in [Engines -> [at : {"none", "factory", "fallback", "sink", "filter", "done"},
                             options : Options]]
    /\ event \in [Threads -> [at : {"idle", "fmt", "callback", "managed", "fallback", "log", "done"},
                              level : Levels, target : Writers \cup {NoLogger},
                              out : SUBSET (Writers \cup {Stderr}), last : Options \cup {Overlapped}]]
    /\ last \in Options \cup {Overlapped}

\* LogTracer and the layers are installed with the filter "warn" and no sink.
LogInit ==
    /\ factory = NoLogger /\ fallback = NoLogger
    /\ sink = FALSE /\ sinkLock = Nobody /\ filter = {Warn, Error}
    /\ conf = [e \in Engines |-> NoConf]
    /\ event = [t \in Threads |-> NoEvent]
    /\ last = Neither

-----------------------------------------------------------------------------
(* Logging.Configure *)

Configuring == {e \in Engines : conf[e].at \notin {"none", "done"}}

\* An event in progress when a configuration begins may go either way.
Unsettled ==
    [t \in Threads |-> [event[t] EXCEPT !.last = IF event[t].at = "idle" THEN @ ELSE Overlapped]]

Configure(e, options) ==
    /\ conf[e].at = "none"
    /\ conf' = [conf EXCEPT ![e] = [at |-> "factory", options |-> options]]
    /\ last' = IF Configuring = {} THEN options ELSE Overlapped
    /\ event' = Unsettled
    /\ UNCHANGED <<factory, fallback, sink, sinkLock, filter>>

ConfigureGoesTo(e, place) == conf' = [conf EXCEPT ![e].at = place]

SetFactory(e) ==
    /\ conf[e].at = "factory"
    /\ factory' = conf[e].options.factory
    /\ ConfigureGoesTo(e, "fallback")
    /\ UNCHANGED <<fallback, sink, sinkLock, filter, event, last>>

SetFallback(e) ==
    /\ conf[e].at = "fallback"
    /\ fallback' = Own(conf[e].options)
    /\ ConfigureGoesTo(e, "sink")
    /\ UNCHANGED <<factory, sink, sinkLock, filter, event, last>>

\* drasi_set_log_callback waits for SINK; with neither a logger nor a factory
\* it clears it and Configure returns, leaving the filter as it was.
SetSink(e) ==
    /\ conf[e].at = "sink" /\ sinkLock = Nobody
    /\ sink' = (conf[e].options # Neither)
    /\ ConfigureGoesTo(e, IF conf[e].options = Neither THEN "done" ELSE "filter")
    /\ UNCHANGED <<factory, fallback, sinkLock, filter, event, last>>

\* drasi_set_log_filter
SetFilter(e) ==
    /\ conf[e].at = "filter"
    /\ filter' = FilterFor(Own(conf[e].options))
    /\ ConfigureGoesTo(e, "done")
    /\ UNCHANGED <<factory, fallback, sink, sinkLock, event, last>>

ConfigureStep(e) == SetFactory(e) \/ SetFallback(e) \/ SetSink(e) \/ SetFilter(e)

-----------------------------------------------------------------------------
(* An event on its way through the layers *)

EventGoesTo(t, place) == event' = [event EXCEPT ![t].at = place]

Emit(t, level) ==
    /\ event[t].at = "idle"
    /\ event' = [event EXCEPT ![t] =
                    [NoEvent EXCEPT !.at = IF level \in filter THEN "fmt" ELSE "done",
                                    !.level = level,
                                    !.last = IF Configuring = {} THEN last ELSE Overlapped]]
    /\ UNCHANGED <<factory, fallback, sink, sinkLock, filter, conf, last>>

\* MUTANT of FmtLayer: the writer does not look at the sink.
FmtLayer_Always(t) ==
    /\ event[t].at = "fmt" /\ sinkLock = Nobody
    /\ event' = [event EXCEPT ![t] = [@ EXCEPT !.at = "callback", !.out = {Stderr}]]
    /\ UNCHANGED <<factory, fallback, sink, sinkLock, filter, conf, last>>

\* QuietIfSink discards what the callback will get.
FmtLayer(t) ==
    /\ event[t].at = "fmt" /\ sinkLock = Nobody
    /\ event' = [event EXCEPT ![t] = [@ EXCEPT !.at = "callback",
                                               !.out = IF sink THEN {} ELSE {Stderr}]]
    /\ UNCHANGED <<factory, fallback, sink, sinkLock, filter, conf, last>>

\* The mutex is held from here to the end of the callback.
CallbackLayer(t) ==
    /\ event[t].at = "callback" /\ sinkLock = Nobody
    /\ IF sink THEN sinkLock' = t /\ EventGoesTo(t, "managed")
               ELSE UNCHANGED sinkLock /\ EventGoesTo(t, "done")
    /\ UNCHANGED <<factory, fallback, sink, filter, conf, last>>

\* OnNativeLog: _factory?.CreateLogger(category) ?? _fallback
OnNativeLog(t) ==
    /\ event[t].at = "managed"
    /\ event' = [event EXCEPT ![t] = [@ EXCEPT !.at = IF factory = NoLogger THEN "fallback" ELSE "log",
                                               !.target = factory]]
    /\ UNCHANGED <<factory, fallback, sink, sinkLock, filter, conf, last>>

UseFallback(t) ==
    /\ event[t].at = "fallback"
    /\ event' = [event EXCEPT ![t] = [@ EXCEPT !.at = "log", !.target = fallback]]
    /\ UNCHANGED <<factory, fallback, sink, sinkLock, filter, conf, last>>

\* A logger writes what it enables; an exception of its own is swallowed.
Written(v) ==
    IF v.target # NoLogger /\ v.level \in EnabledBy[v.target] THEN {v.target} ELSE {}

Log(t) ==
    /\ event[t].at = "log"
    /\ event' = [event EXCEPT ![t] = [@ EXCEPT !.at = "done", !.out = event[t].out \cup Written(event[t])]]
    /\ sinkLock' = Nobody
    /\ UNCHANGED <<factory, fallback, sink, filter, conf, last>>

\* The macro that emitted the event returns.
Emitted(t) ==
    /\ event[t].at = "done"
    /\ event' = [event EXCEPT ![t] = NoEvent]
    /\ UNCHANGED <<factory, fallback, sink, sinkLock, filter, conf, last>>

EventStep(t) ==
    \/ FmtLayer(t) \/ CallbackLayer(t) \/ OnNativeLog(t) \/ UseFallback(t) \/ Log(t)
    \/ Emitted(t)

LogNext(t) == EventStep(t) \/ \E level \in Levels : Emit(t, level)

-----------------------------------------------------------------------------
(* Properties *)

\* Where an event of this level belongs under the options: to the factory, or to
\* the logger if there is none, when it enables the level and so does the filter of
\* the engine's own logger; without either to stderr, under the filter in force.
Due(level, options) ==
    IF options = Neither THEN IF level \in filter THEN {Stderr} ELSE {}
    ELSE LET writer == IF options.factory # NoLogger THEN options.factory ELSE options.logger
         IN  IF level \in EnabledBy[writer] \cap FilterFor(Own(options)) THEN {writer} ELSE {}

\* An event that no configuration overlapped is written once and where it
\* belongs under the options of the engine configured last, whatever engines were
\* configured before.  What they leave behind is the filter, for an engine without a
\* logger only: it may be stricter than the "warn" of logging.rs, up to "off".  Left
\* out is what engines whose configurations overlapped make of the sink
\* (CallbackLayer, QuietIfSink, Logging.Configure; Logging.cs: "the last
\* configured factory wins").
EventReachesLastConfigured ==
    \A t \in Threads :
        event[t].at = "done" /\ event[t].last # Overlapped =>
            event[t].out = Due(event[t].level, event[t].last)
=============================================================================
