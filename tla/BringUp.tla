-------------------------------- MODULE BringUp --------------------------------
(* How an engine is brought up: created, or built from a configuration document *)
(* by one native call (engine.rs), and then given the topology of a             *)
(* DrasiBuilder by the hosted service, call by call (DrasiBuilder.cs), while    *)
(* queries start on their own, the host cancels, and the application, which     *)
(* takes the same Engine from the container, stops it or shuts it down.         *)
(* A call is one step: what happens inside one is the subject of the other      *)
(* modules.                                                                     *)
EXTENDS Documents

CONSTANTS
    Setups,     \* what a bring-up can be given: [document, options, builder]
    None        \* no answer yet

Elements(s) == {s[i] : i \in DOMAIN s}
ListOf(s, fields) == s \in Seq(Elements(s)) /\ \A e \in Elements(s) : DOMAIN e = fields

\* Something is to be built, the parsers and the types of the builder's methods
\* leave entries of these shapes, and Absent and None are no values of theirs.
ASSUME SetupAssumption ==
    /\ Absent \notin {"true", "false", "text false", "number", "negative", "text",
                      "without keys"}
    /\ Absent \notin BOOLEAN
    /\ None \notin Codes \union {"ok", "cancelled"}
    /\ \A g \in Setups :
        /\ g.document # Absent \/ g.builder # Absent
        /\ g.document # Absent =>
            /\ ListOf(g.document.sources, {"id", "kind", "autoStart", "bootstrap"})
            /\ ListOf(g.document.queries, {"id", "query", "sources", "autoStart", "capacity",
                                            "language", "joins", "dispatchMode"})
            /\ ListOf(g.document.reactions, {"id", "kind", "queryIds", "autoStart"})
        /\ g.builder # Absent =>
            /\ ListOf(g.builder.plugins, {"kind"})
            /\ ListOf(g.builder.sources, {"id", "kind", "autoStart", "bootstrap"})
            /\ ListOf(g.builder.queries, {"id", "options"})
            /\ \A q \in Elements(g.builder.queries) :
                   q.options.autoStart \in {Absent, TRUE, FALSE}
            /\ ListOf(g.builder.reactions, {"id", "kind", "queryIds", "autoStart"})
            /\ ListOf(g.builder.seeds, {"source", "op", "id", "startId", "endId"})
            /\ \A c \in Elements(g.builder.seeds) : c.startId \in BOOLEAN /\ c.endId \in BOOLEAN

VARIABLES
    given,      \* the setup of this behaviour
    todo,       \* the calls that are left, the next one first
    engine,     \* "none", "stopped", "running", "closed"; "dropped" without a
                \* shutdown; "orphaned": running, and nobody has its handle
    kinds,      \* the plugin kinds that are loaded
    inForce,    \* the create options the engine was made with
    sources,    \* id -> [kind, auto, running]
    queries,    \* id -> [auto, status]
    reactions,  \* id -> [queryIds, auto, running]
    pushed,     \* the changes that reached a source
    result,     \* what the bring-up answered: None, "ok", a code, "cancelled"
    cancelled,  \* the token of the host's StartAsync
    \* History, which no action reads:
    started,    \* the queries that have been Running
    disturbed,  \* the application stopped the engine or shut it down
    refused     \* drasi-lib refused a call, or a wait ran out

topology == << sources, queries, reactions, pushed >>
vars == << given, todo, engine, kinds, inForce, topology, result, cancelled,
           started, disturbed, refused >>

Document == given.document
Builder == given.builder
Form == IF Document = Absent THEN "json" ELSE Document.form

Empty == [x \in {} |-> x]

\* A registry with one more component.
With(registry, id, component) ==
    [i \in DOMAIN registry \union {id} |-> IF i = id THEN component ELSE registry[i]]

--------------------------------------------------------------------------------
(* The calls of a bring-up, in order                                            *)

\* native: made by the one native call FromConfig is. The others are calls of
\* their own, which look at the token first.
Call(op, entry, native) == [op |-> op, entry |-> entry, native |-> native]

CallEach(op, entries, native) ==
    [i \in DOMAIN entries |-> Call(op, entries[i], native)]

DocumentCalls(d) ==
    << Call("create", Absent, TRUE), Call("start", Absent, TRUE) >>
        \o CallEach("source", d.sources, TRUE)
        \o CallEach("query", d.queries, TRUE)
        \o CallEach("reaction", d.reactions, TRUE)
        \o << Call("wrap", Absent, TRUE) >>

ApplyAsync(b) ==
    CallEach("load", b.plugins, FALSE)
        \o << Call("ask", Absent, FALSE) >>
        \o CallEach("source", b.sources, FALSE)
        \o CallEach("query", b.queries, FALSE)
        \o CallEach("reaction", b.reactions, FALSE)
        \o CallEach("push", b.seeds, FALSE)

\* Without a builder it is FromConfigAsync alone.
CallsOf(g) ==
    (IF g.document = Absent
     THEN << Call("create", Absent, TRUE) >> ELSE DocumentCalls(g.document))
        \o (IF g.builder = Absent THEN << >> ELSE ApplyAsync(g.builder))

--------------------------------------------------------------------------------
Next1 == todo[1]

MayCall(op) ==
    /\ result = None
    /\ todo # << >>
    /\ Next1.op = op
    /\ Next1.native \/ ~cancelled

\* The engine can be had from the container once the native part is over.
HandedOut == engine \in {"stopped", "running"} /\ (todo # << >> => ~Next1.native)

DocumentOptions == IF Document = Absent THEN [k \in OptionKeys |-> Absent]
                   ELSE Document.options
Snake == IF Document = Absent THEN {} ELSE Document.snake

\* The query to add: a builder's is put into JSON by the call itself.
QueryOfCall == IF Next1.native THEN Next1.entry ELSE QueryEntry(Next1.entry)

FormOfCall == IF Next1.native THEN Form ELSE "json"

KindsOfCall == kinds \union (IF Next1.native THEN {} ELSE {"callback", "durable"})

CsharpSources == {s \in DOMAIN sources : sources[s].kind \in {Absent, "csharp"}}

\* What ends the next call early, for all that is known beforehand.
Fault ==
    LET open == << Check(engine = "closed", "EngineClosed") >>
        new(ids) == << Check(Next1.entry.id \in ids, "EngineFailure") >>
    IN  FirstFault(
          CASE Next1.op = "create" ->
                 CreateChecks(MergeCreateOptions(DocumentOptions, given.options),
                              SpelledTwice(DocumentOptions, Snake, given.options))
            [] Next1.op = "start" -> open
            [] Next1.op = "load" ->
                 open \o << Check(Next1.entry.kind = Absent, "PluginNotFound") >>
            [] Next1.op = "source" ->
                 open \o SourceChecks(Next1.entry, kinds) \o new(DOMAIN sources)
            [] Next1.op = "query" ->
                 open \o QueryChecks(QueryOfCall, FormOfCall) \o new(DOMAIN queries)
            [] Next1.op = "reaction" ->
                 open
                 \o ReactionChecks(Next1.entry, KindsOfCall, inForce.stateStore # Absent)
                 \o new(DOMAIN reactions)
            [] Next1.op = "push" -> open \o SeedChecks(Next1.entry, CsharpSources)
            [] Next1.op = "wrap" ->
                 << Check(Document.id \notin {Absent, "text"}, "InvalidOperation") >>
            [] Next1.op \in {"ask", "wait"} -> << >>)

Proceed(rest) ==
    /\ todo' = rest
    /\ result' = IF rest = << >> THEN "ok" ELSE None

Passes(op) == MayCall(op) /\ Fault = "ok"
Succeed(op) == Passes(op) /\ Proceed(Tail(todo))

\* No call is undone. A native call that fails drops the handle it was making;
\* a handle that FromConfigAsync fails to wrap is forgotten; otherwise the
\* engine stays as it is.
Throw(code) ==
    /\ result' = code
    /\ todo' = << >>
    /\ engine' = CASE Next1.op = "wrap" -> "orphaned"
                   [] Next1.native /\ Next1.op \notin {"create", "wrap"} -> "dropped"
                   [] OTHER -> engine
    /\ UNCHANGED << given, kinds, inForce, topology, cancelled, started, disturbed >>

--------------------------------------------------------------------------------
(* The calls                                                                    *)

Create ==
    /\ Succeed("create")
    /\ engine' = "stopped"
    /\ inForce' = MergeCreateOptions(DocumentOptions, given.options)
    /\ kinds' = IF inForce'.pluginsDir = "good" THEN {"plugin"} ELSE {}
    /\ UNCHANGED << given, topology, cancelled, started, disturbed, refused >>

\* FromConfigAsync makes the Engine, for which it reads the id once more: the
\* native side takes an id that is no string for a missing one.
Wrap ==
    /\ Succeed("wrap")
    /\ UNCHANGED << given, engine, kinds, inForce, topology, cancelled, started,
                    disturbed, refused >>

\* LoadPluginsAsync, of a directory with plugins of a kind or of one that is not
\* there.
LoadPlugins ==
    /\ Succeed("load")
    /\ kinds' = kinds \union {Next1.entry.kind}
    /\ UNCHANGED << given, engine, inForce, topology, cancelled, started, disturbed,
                    refused >>

\* Mutant: the engine is asked, and not started.
AskRunning_NoStart ==
    /\ MayCall("ask")
    /\ Proceed(Tail(todo))
    /\ UNCHANGED << given, engine, kinds, inForce, topology, cancelled, started,
                    disturbed, refused >>

AskRunning ==
    /\ MayCall("ask")
    /\ IF engine = "running"
       THEN Proceed(Tail(todo))
       ELSE Proceed(<< Call("start", Absent, FALSE) >> \o Tail(todo))
    /\ UNCHANGED << given, engine, kinds, inForce, topology, cancelled, started,
                    disturbed, refused >>

\* drasi-lib starts whatever is to start by itself.
Start ==
    /\ Succeed("start")
    /\ engine' = "running"
    /\ sources' = [s \in DOMAIN sources |->
                      [sources[s] EXCEPT !.running = @ \/ sources[s].auto]]
    /\ queries' = [q \in DOMAIN queries |->
                      [queries[q] EXCEPT !.status =
                          IF queries[q].auto /\ @ = "Stopped" THEN "Starting" ELSE @]]
    /\ reactions' = [r \in DOMAIN reactions |->
                      [reactions[r] EXCEPT !.running = @ \/ reactions[r].auto]]
    /\ UNCHANGED << given, kinds, inForce, pushed, cancelled, started, disturbed,
                    refused >>

\* A component that is added to an engine that does not run waits for a start.
AddSource ==
    LET s == Next1.entry
        auto == AutoStart(Read(FormOfCall, s.autoStart))
    IN  /\ Succeed("source")
        /\ sources' = With(sources, s.id, [kind |-> s.kind, auto |-> auto,
                                             running |-> auto /\ engine = "running"])
        /\ UNCHANGED << given, engine, kinds, inForce, queries, reactions, pushed,
                        cancelled, started, disturbed, refused >>

\* Mutant: nobody waits for a query.
ThenWait_Never(call) == << >>

\* A builder's query that starts by itself is waited for before the next call.
ThenWait(call) ==
    IF call.native \/ call.entry.options.autoStart = FALSE
    THEN << >> ELSE << Call("wait", call.entry, FALSE) >>

AddQuery ==
    LET q == QueryOfCall
        auto == Read(FormOfCall, q.autoStart) # "false"
    IN  /\ Passes("query") /\ Proceed(ThenWait(Next1) \o Tail(todo))
        /\ queries' = With(queries, q.id, [auto |-> auto,
                                             status |-> IF auto /\ engine = "running"
                                                        THEN "Starting" ELSE "Stopped"])
        /\ UNCHANGED << given, engine, kinds, inForce, sources, reactions, pushed,
                        cancelled, started, disturbed, refused >>

AddReaction ==
    LET r == Next1.entry
        auto == AutoStart(Read(FormOfCall, r.autoStart))
    IN  /\ Succeed("reaction")
        /\ reactions' = With(reactions, r.id, [queryIds |-> IF r.queryIds = Absent THEN {}
                                                             ELSE r.queryIds,
                                                 auto |-> auto,
                                                 running |-> auto /\ engine = "running"])
        /\ UNCHANGED << given, engine, kinds, inForce, sources, queries, pushed,
                        cancelled, started, disturbed, refused >>

\* A seed, and its way into the source.
Push ==
    /\ Succeed("push")
    /\ pushed' = Append(pushed, [source |-> Next1.entry.source,
                                 change |-> SourceChangeOf(Next1.entry)])
    /\ UNCHANGED << given, engine, kinds, inForce, sources, queries, reactions,
                    cancelled, started, disturbed, refused >>

WaitRunning ==
    /\ MayCall("wait")
    /\ queries[Next1.entry.id].status = "Running"
    /\ Proceed(Tail(todo))
    /\ UNCHANGED << given, engine, kinds, inForce, topology, cancelled, started,
                    disturbed, refused >>

\* Mutant: only an error ends the wait, for it has no deadline.
WaitFails_NoDeadline ==
    /\ MayCall("wait")
    /\ queries[Next1.entry.id].status = "Error"
    /\ refused' = TRUE
    /\ Throw("EngineFailure")

\* The query is in error, or thirty seconds are over.
WaitFails ==
    /\ MayCall("wait")
    /\ queries[Next1.entry.id].status # "Running"
    /\ refused' = TRUE
    /\ Throw("EngineFailure")

\* A call ends with what is wrong with its arguments, or with the engine.
CallFails ==
    /\ result = None /\ todo # << >>
    /\ MayCall(Next1.op)
    /\ Fault # "ok"
    /\ Throw(Fault)
    /\ UNCHANGED refused

\* drasi-lib, or a plugin, refuses.
CoreRefuses ==
    /\ result = None /\ todo # << >>
    /\ MayCall(Next1.op)
    /\ Next1.op \notin {"ask", "wait", "wrap"}
    /\ Fault = "ok"
    /\ refused' = TRUE
    /\ Throw("EngineFailure")

\* The next call finds the token cancelled and is not made.
ObserveCancel ==
    /\ result = None /\ todo # << >>
    /\ ~Next1.native
    /\ cancelled
    /\ Throw("cancelled")
    /\ UNCHANGED refused

BringUpStep ==
    \/ Create \/ Wrap \/ LoadPlugins \/ AskRunning \/ Start
    \/ AddSource \/ AddQuery \/ AddReaction \/ Push
    \/ WaitRunning \/ WaitFails
    \/ CallFails \/ CoreRefuses \/ ObserveCancel

--------------------------------------------------------------------------------
(* Everybody else                                                               *)

\* drasi-lib's query manager.
QueryRuns(q) ==
    /\ engine = "running"
    /\ queries[q].status = "Starting"
    /\ queries' = [queries EXCEPT ![q].status = "Running"]
    /\ started' = started \union {q}
    /\ UNCHANGED << given, todo, engine, kinds, inForce, sources, reactions, pushed,
                    result, cancelled, disturbed, refused >>

QueryBreaks(q) ==
    /\ engine = "running"
    /\ queries[q].status \in {"Starting", "Running"}
    /\ queries' = [queries EXCEPT ![q].status = "Error"]
    /\ UNCHANGED << given, todo, engine, kinds, inForce, sources, reactions, pushed,
                    result, cancelled, started, disturbed, refused >>

\* The host gives up: its token is cancelled.
Cancel ==
    /\ result = None
    /\ ~cancelled
    /\ cancelled' = TRUE
    /\ UNCHANGED << given, todo, engine, kinds, inForce, topology, result, started,
                    disturbed, refused >>

Halted ==
    /\ sources' = [s \in DOMAIN sources |-> [sources[s] EXCEPT !.running = FALSE]]
    /\ queries' = [q \in DOMAIN queries |-> [queries[q] EXCEPT !.status = "Stopped"]]
    /\ reactions' = [r \in DOMAIN reactions |-> [reactions[r] EXCEPT !.running = FALSE]]
    /\ disturbed' = TRUE
    /\ UNCHANGED << given, todo, kinds, inForce, pushed, result, cancelled, started,
                    refused >>

\* The application stops the engine it got from the container.
AppStops ==
    /\ HandedOut
    /\ engine = "running"
    /\ engine' = "stopped"
    /\ Halted

\* DrasiHostedService.StopAsync, or the application.
Shutdown ==
    /\ HandedOut
    /\ engine' = "closed"
    /\ Halted

--------------------------------------------------------------------------------
Init ==
    /\ given \in Setups
    /\ todo = CallsOf(given)
    /\ engine = "none"
    /\ kinds = {}
    /\ inForce = [k \in OptionKeys |-> Absent]
    /\ sources = Empty /\ queries = Empty /\ reactions = Empty
    /\ pushed = << >>
    /\ result = None
    /\ cancelled = FALSE
    /\ started = {} /\ disturbed = FALSE /\ refused = FALSE

Next ==
    \/ BringUpStep
    \/ \E q \in DOMAIN queries : QueryRuns(q) \/ QueryBreaks(q)
    \/ Cancel \/ AppStops \/ Shutdown

Spec == Init /\ [][Next]_vars

\* The bring-up runs on a thread of its own and a wait has a deadline.
FairSpec == Spec /\ WF_vars(BringUpStep)

--------------------------------------------------------------------------------
(* What is declared                                                             *)

Entries(field) ==
    [document |-> IF Document = Absent THEN {} ELSE Elements(Document[field]),
     builder |-> IF Builder = Absent THEN {} ELSE Elements(Builder[field])]
Ids(entries) == {e.id : e \in entries}
Declared(field) == Entries(field).document \union Entries(field).builder

\* A flag that was written as a boolean, in the form it was written. It is TRUE
\* unless it is written. A builder's query has a boolean, or none.
Says(e, field, flag) ==
    LET configured == e \in Entries(field).document /\ Form = "configuration"
        false == {"false"} \union (IF configured THEN {"text false"} ELSE {})
    IN  IF "options" \in DOMAIN e
        THEN flag <=> e.options.autoStart # FALSE
        ELSE e.autoStart \in (IF flag THEN {Absent, "true"} ELSE false)

Seeds == IF Builder = Absent THEN << >> ELSE Builder.seeds

\* The settings an engine is to have.
Settings ==
    [k \in OptionKeys |-> IF DocumentOptions[k] = Absent THEN given.options[k]
                          ELSE DocumentOptions[k]]

\* The kinds a part of the description can name: those of the engine's plugin
\* directory, and in a builder those of its own too.
Available(native) ==
    (IF Settings.pluginsDir = "good" THEN {"plugin"} ELSE {})
        \union (IF native THEN {} ELSE {p.kind : p \in Elements(Builder.plugins)})

--------------------------------------------------------------------------------
(* What is wrong with it, whatever it is checked by, or in which order           *)

OptionsAreWrong ==
    \/ \E k \in Snake : Absent \notin {DocumentOptions[k], given.options[k]}
    \/ Settings.secrets = "not text"
    \/ \E k \in {"stateStore", "walProvider", "indexStore"} :
           Settings[k] \in {"unknown kind", "no path"}
    \/ \E k \in {"stateStore", "indexStore"} : Settings[k] = "cannot open"
    \/ Settings.identity \in {"no kind", "incomplete"}
    \/ Settings.identity = "of a plugin" /\ Settings.pluginsDir \in {Absent, "empty"}
    \/ Settings.pluginsDir = "not a directory"

SourceIsWrong(s, available) ==
    \/ s.id = Absent
    \/ /\ s.kind \notin {Absent, "csharp"}
       /\ s.kind \notin available \/ s.bootstrap \in {"no kind", "unknown kind"}

\* A query of a document. IConfiguration has no numbers.
QueryIsWrong(q) ==
    LET also(read, kept) == IF Form = "configuration" THEN read ELSE kept
    IN  \/ Absent \in {q.id, q.query}
        \/ q.sources \notin {Absent, "list", "text"} \union also({"number", "negative"}, {})
        \/ q.autoStart \notin {Absent, "true", "false"} \union also({"text false"}, {})
        \/ q.capacity \notin {Absent} \union also({}, {"number"})
        \/ "unknown" \in {q.language, q.dispatchMode}
        \/ q.joins = "without keys"

TypedQueryIsWrong(q) ==
    \/ q.id = Absent
    \/ q.options.capacity # Absent /\ q.options.capacity < 0
    \/ \E i \in DOMAIN q.options.joins : q.options.joins[i] = 0
    \/ q.options.dispatchMode = "unknown"

ReactionIsWrong(r, available) ==
    \/ Absent \in {r.id, r.kind}
    \/ r.kind \notin available
    \/ r.kind = "durable" /\ Settings.stateStore = Absent

\* A seed goes into a C# source, and has both ends or none. What is deleted is
\* known by its id alone.
SeedIsWrong(c) ==
    \/ c.op # "delete" /\ c.startId # c.endId
    \/ \A s \in Declared("sources") : s.id = c.source => s.kind \notin {Absent, "csharp"}

IsWrong(c) ==
    \/ c.op = "create" /\ OptionsAreWrong
    \/ c.op = "load" /\ c.entry.kind = Absent
    \/ c.op = "source" /\ SourceIsWrong(c.entry, Available(c.native))
    \/ c.op = "query" /\ c.native /\ QueryIsWrong(c.entry)
    \/ c.op = "query" /\ ~c.native /\ TypedQueryIsWrong(c.entry)
    \/ /\ c.op = "reaction"
       /\ ReactionIsWrong(c.entry, Available(c.native) \union
                                      IF c.native THEN {} ELSE {"callback", "durable"})
    \/ c.op = "push" /\ SeedIsWrong(c.entry)
    \/ c.op = "wrap" /\ Document.id \notin {Absent, "text"}

Flawed(ops) == \E c \in Elements(CallsOf(given)) : c.op \in ops /\ IsWrong(c)

\* Two components of a kind are to be added under one id.
SomeIdTwice ==
    LET calls == CallsOf(given)
    IN  \E i, j \in DOMAIN calls :
            /\ i # j
            /\ calls[i].op \in {"source", "query", "reaction"} /\ calls[i].op = calls[j].op
            /\ calls[i].entry.id = calls[j].entry.id

--------------------------------------------------------------------------------
(* The properties                                                               *)

TypeOK ==
    /\ given \in Setups
    /\ engine \in {"none", "stopped", "running", "closed", "dropped", "orphaned"}
    /\ \A s \in DOMAIN sources :
        /\ sources[s].auto \in BOOLEAN /\ sources[s].running \in BOOLEAN
    /\ \A q \in DOMAIN queries :
        /\ queries[q].auto \in BOOLEAN
        /\ queries[q].status \in {"Stopped", "Starting", "Running", "Error"}
    /\ \A r \in DOMAIN reactions :
        /\ reactions[r].auto \in BOOLEAN /\ reactions[r].running \in BOOLEAN
    /\ result = None <=> todo # << >>
    /\ Len(pushed) <= Len(Seeds)
    /\ started \subseteq Ids(Declared("queries"))
    /\ {cancelled, disturbed, refused} \subseteq BOOLEAN

\* A bring-up that succeeded left every component that is to start by itself
\* started and every other stopped: the engine ran before anything was added to
\* it ("so auto-start sources/queries/reactions actually run", engine.rs).
AutoStartTakesEffect ==
    result = "ok" /\ ~disturbed =>
        /\ engine = "running"
        /\ \A s \in DOMAIN sources : sources[s].running = sources[s].auto
        /\ \A q \in DOMAIN queries : queries[q].auto <=> queries[q].status # "Stopped"
        /\ \A r \in DOMAIN reactions : reactions[r].running = reactions[r].auto

\* Whoever stops what meanwhile, a seed is pushed only after each query of the
\* builder that starts by itself has run, and with all its reactions in place:
\* no reaction misses the result of a seed (DrasiBuilder.Seed).
SeedsFindTopology ==
    pushed # << >> =>
        /\ \A q \in Entries("queries").builder : q.options.autoStart # FALSE => q.id \in started
        /\ Ids(Entries("reactions").builder) \subseteq DOMAIN reactions
        /\ Ids(Declared("sources")) \subseteq DOMAIN sources

\* A bring-up that succeeded built what was declared, no more and no less, from
\* either form of a document: the flags that were written, the queries a
\* reaction names, the seeds in their order, and of the create options the
\* document's before the caller's (FromConfigAsync).
BuiltAsDeclared ==
    result = "ok" =>
        /\ DOMAIN sources = Ids(Declared("sources"))
        /\ DOMAIN queries = Ids(Declared("queries"))
        /\ DOMAIN reactions = Ids(Declared("reactions"))
        /\ \A flag \in BOOLEAN :
            /\ \A e \in Declared("sources") :
                Says(e, "sources", flag) => sources[e.id].auto = flag
            /\ \A e \in Declared("queries") :
                Says(e, "queries", flag) => queries[e.id].auto = flag
            /\ \A e \in Declared("reactions") :
                Says(e, "reactions", flag) => reactions[e.id].auto = flag
        /\ \A e \in Declared("reactions") :
            e.queryIds # Absent => reactions[e.id].queryIds = e.queryIds
        /\ DOMAIN pushed = DOMAIN Seeds
        /\ \A i \in DOMAIN Seeds :
            LET change == pushed[i].change
            IN  /\ << pushed[i].source, change.op, change.id >>
                     = << Seeds[i].source, Seeds[i].op, Seeds[i].id >>
                /\ change.element = "relation"
                     <=> Seeds[i].op # "delete" /\ Seeds[i].startId /\ Seeds[i].endId
        /\ inForce = Settings

\* What an exception of a class is about.
Explains(exception) ==
    \/ /\ exception \in {"ConfigException", "UnknownKindException"}
       /\ Flawed({"create", "source", "query", "reaction"})
    \/ exception = "SourceException" /\ Flawed({"push"})
    \/ exception = "PluginNotFoundException" /\ Flawed({"create", "load"})
    \/ exception = "DrasiException" /\ (refused \/ disturbed \/ SomeIdTwice)

\* An exception is about what is wrong: its class says whether the description
\* of the engine is to blame (ConfigException), a seed (SourceException), the
\* plugin directory, the application that closed the engine, or drasi-lib; and
\* nothing that is wrong goes through (DrasiException.FromCode, docs/guides).
ErrorsAreDeserved ==
    CASE result = None -> TRUE
      [] result = "ok" ->
           /\ ~Flawed({"create", "load", "source", "query", "reaction", "push", "wrap"})
           /\ ~SomeIdTwice
      [] result = "cancelled" -> cancelled
      [] result = "InvalidOperation" -> Flawed({"wrap"})
      [] OTHER -> Explains(FromCode(result))

\* A bring-up ends, if only because the wait for a query runs out.
BringUpEnds == <>(result # None)

================================================================================
