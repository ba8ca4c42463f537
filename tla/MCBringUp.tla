------------------------------- MODULE MCBringUp -------------------------------
(* Small instances of BringUp: a sound setup of each form, the setups that       *)
(* differ from one of them in one place, and some with two things wrong.         *)
EXTENDS BringUp

Source(id) == [id |-> id, kind |-> "csharp", autoStart |-> Absent, bootstrap |-> Absent]
Query(id) ==
    [id |-> id, query |-> "text", sources |-> "list", autoStart |-> Absent,
     capacity |-> Absent, language |-> "known", joins |-> Absent, dispatchMode |-> Absent]
TypedQuery(id) ==
    [id |-> id, options |-> [autoStart |-> Absent, capacity |-> Absent, joins |-> << >>,
                             dispatchMode |-> Absent]]
Reaction(id, kind, ids) ==
    [id |-> id, kind |-> kind, queryIds |-> ids, autoStart |-> Absent]
Seed(id) ==
    [source |-> "s1", op |-> "insert", id |-> id, startId |-> FALSE, endId |-> FALSE]

NoOptions == [k \in OptionKeys |-> Absent]
Plugins == [NoOptions EXCEPT !.pluginsDir = "good"]

PlainDocument(form) ==
    [form |-> form, id |-> "text", snake |-> {}, options |-> Plugins,
     sources |-> << Source("s1") >>, queries |-> << Query("q1") >>,
     reactions |-> << Reaction("r1", "plugin", {"q1"}) >>]

PlainBuilder ==
    [plugins |-> << >>, sources |-> << Source("s1") >>,
     queries |-> << TypedQuery("q1"), TypedQuery("q2") >>,
     reactions |-> << Reaction("r2", "callback", {"q1", "q2"}) >>,
     seeds |-> << Seed("e1"), Seed("e2") >>]

\* What a builder adds to a document.
SeedingBuilder ==
    [PlainBuilder EXCEPT !.sources = << >>, !.queries = << TypedQuery("q2") >>]

Setup(document, options, builder) ==
    [document |-> document, options |-> options, builder |-> builder]

ByBuilder(options, builder) == Setup(Absent, options, builder)
ByConfiguration(document) == Setup(document, NoOptions, SeedingBuilder)
ByJson(document) == Setup(document, NoOptions, Absent)

--------------------------------------------------------------------------------
(* One thing wrong, or unusual, with the create options                          *)

Option(k, setting) == [NoOptions EXCEPT ![k] = setting]

OptionSetups ==
    LET Wrong(k, settings) == {Option(k, x) : x \in settings}
        stores == Wrong("stateStore", {"unknown kind", "no path", "cannot open"})
                    \union Wrong("indexStore", {"unknown kind", "no path", "cannot open"})
                    \union Wrong("walProvider", {"unknown kind", "no path"})
        others == Wrong("identity", {"no kind", "incomplete", "of a plugin"})
                    \union Wrong("pluginsDir", {"not a directory"})
                    \union {[Option("identity", "of a plugin") EXCEPT !.pluginsDir = "empty"]}
        sound == {Option(k, "good") : k \in OptionKeys}
                    \union {Option("walProvider", "cannot open")}
                    \union {[Plugins EXCEPT !.identity = "of a plugin"]}
    IN  {ByBuilder(o, PlainBuilder) : o \in stores \union others \union sound}

\* The caller's options beside the document's.
MergeSetups ==
    LET with(doc, snake, caller) ==
            Setup([PlainDocument("json") EXCEPT !.options.walProvider = doc, !.snake = snake],
                  Option("walProvider", caller), Absent)
        secrets(doc, caller) ==
            Setup([PlainDocument("json") EXCEPT !.options.secrets = doc],
                  Option("secrets", caller), Absent)
    IN  { with(Absent, {}, "good"), with("good", {}, "no path"), with("no path", {}, "good"),
          with("good", {"walProvider"}, "good"),
          secrets(Absent, "good"), secrets("good", "good"), secrets("not text", "good"),
          ByConfiguration([PlainDocument("configuration") EXCEPT !.options.secrets = "not text"]) }

--------------------------------------------------------------------------------
(* One thing wrong, or unusual, with an entry                                    *)

EntryChanges ==
    LET s == Source("s1")
        q == Query("q1")
        r == Reaction("r1", "plugin", {"q1"})
    IN  [sources |->
            {[s EXCEPT !.autoStart = v] : v \in {"true", "false", "text", "text false"}}
              \union {[s EXCEPT !.kind = Absent]},
         queries |->
            {[q EXCEPT !.autoStart = v] : v \in {"true", "false"}}
              \union {[q EXCEPT !.sources = v] : v \in {Absent, "text"}},
         reactions |->
            {[r EXCEPT !.autoStart = v] : v \in {"true", "false", "text false"}}
              \union {[r EXCEPT !.queryIds = Absent]},
         badSources |->
            {[s EXCEPT !.id = Absent], [s EXCEPT !.kind = "other"]}
              \union {[s EXCEPT !.kind = "plugin", !.bootstrap = b] :
                         b \in {"no kind", "unknown kind"}},
         badQueries |->
            {[q EXCEPT !.id = Absent], [q EXCEPT !.query = Absent],
             [q EXCEPT !.language = "unknown"], [q EXCEPT !.joins = "without keys"],
             [q EXCEPT !.dispatchMode = "unknown"], [q EXCEPT !.autoStart = "text"]},
         badReactions |->
            {[r EXCEPT !.id = Absent], [r EXCEPT !.kind = Absent],
             [r EXCEPT !.kind = "callback"]}]

Entered(form, field, entries) ==
    {[PlainDocument(form) EXCEPT ![field] = << e >>] : e \in entries}

DocumentSetups ==
    LET sound(form) ==
            {PlainDocument(form)}
              \union {[PlainDocument(form) EXCEPT !.id = Absent]}
              \union Entered(form, "sources", EntryChanges.sources)
              \union Entered(form, "queries", EntryChanges.queries)
              \union Entered(form, "reactions", EntryChanges.reactions)
        bad(form) ==
            Entered(form, "sources", EntryChanges.badSources)
              \union Entered(form, "queries", EntryChanges.badQueries)
              \union Entered(form, "reactions", EntryChanges.badReactions)
        fed(form) == Entered(form, "sources", {[Source("s1") EXCEPT !.kind = "plugin"]})
        q == Query("q1")
        numbers(form) == Entered(form, "queries", {[q EXCEPT !.capacity = "number"]})
        odd == Entered("json", "queries", {[q EXCEPT !.autoStart = "text false"],
                          [q EXCEPT !.capacity = "negative"], [q EXCEPT !.sources = "number"]})
        spelled == Entered("configuration", "queries",
                          {[q EXCEPT !.autoStart = "text false"], [q EXCEPT !.sources = "number"]})
    IN  {ByJson(d) : d \in sound("json") \union bad("json") \union numbers("json")
                               \union fed("json") \union odd}
          \union {ByJson([PlainDocument("json") EXCEPT !.id = "number"])}
          \union {ByConfiguration(d) :
                     d \in sound("configuration") \union bad("configuration")
                             \union numbers("configuration") \union fed("configuration")
                             \union spelled}

--------------------------------------------------------------------------------
(* The builder's own                                                             *)

BuilderSetups ==
    LET with(field, entries) == [PlainBuilder EXCEPT ![field] = entries]
        plugin == [Source("s1") EXCEPT !.kind = "plugin"]
        load == << [kind |-> "plugin"] >>
        durable == << Reaction("r2", "durable", {"q1"}) >>
        relation == [Seed("e2") EXCEPT !.startId = TRUE, !.endId = TRUE]
        delete == [Seed("e1") EXCEPT !.op = "delete", !.startId = TRUE]
        before(f, x) == << [TypedQuery("q1") EXCEPT !.options[f] = x], TypedQuery("q2") >>
        sound ==
            { PlainBuilder,
              with("queries", before("autoStart", FALSE)),
              with("queries", before("capacity", 64)),
              with("queries", before("joins", << 2 >>)),
              [with("queries", << >>) EXCEPT !.reactions = << >>],
              with("sources", << Source("s1"), [Source("s2") EXCEPT !.autoStart = "false"] >>),
              with("seeds", << Seed("e1"), relation, delete >>),
              [with("sources", << Source("s1"), [plugin EXCEPT !.id = "s2"] >>)
                 EXCEPT !.plugins = load] }
        bad ==
            { with("queries", before("capacity", -1)),
              with("queries", before("joins", << 1, 0 >>)),
              with("queries", before("dispatchMode", "unknown")),
              with("reactions", durable),
              with("sources", << plugin >>),
              with("seeds", << Seed("e1"), [Seed("e2") EXCEPT !.startId = TRUE] >>),
              with("seeds", << [Seed("e1") EXCEPT !.source = "s2"] >>),
              [with("sources", << plugin >>) EXCEPT !.plugins = load],
              with("plugins", << [kind |-> Absent] >>),
              with("queries", << TypedQuery("q1"), TypedQuery("q1") >>) }
    IN  {ByBuilder(NoOptions, b) : b \in sound \union bad}
          \union {ByBuilder(Option("stateStore", "good"), with("reactions", durable))}

--------------------------------------------------------------------------------
(* Two things wrong, of which the first that is checked answers                  *)

PairSetups ==
    LET badSource == [Source("s1") EXCEPT !.id = Absent]
        badQuery == [Query("q1") EXCEPT !.query = Absent]
        badReaction == [Reaction("r1", "plugin", {"q1"}) EXCEPT !.kind = Absent]
        badSeed == [Seed("e1") EXCEPT !.source = "s2"]
        pair == [PlainDocument("json") EXCEPT !.sources = << badSource >>,
                                              !.queries = << badQuery >>]
        late == [PlainDocument("configuration") EXCEPT !.reactions = << badReaction >>,
                                                       !.id = "number"]
        twice == << Query("q1"), badQuery, Query("q1") >>
    IN  { ByJson(pair),
          ByConfiguration(late),
          ByJson([PlainDocument("json") EXCEPT !.queries = twice]),
          Setup(pair, Option("indexStore", "no path"), SeedingBuilder),
          Setup(PlainDocument("json"), NoOptions,
                [SeedingBuilder EXCEPT !.seeds = << badSeed >>,
                                       !.queries = << TypedQuery("q1") >>]),
          ByBuilder(Option("pluginsDir", "not a directory"),
                    [PlainBuilder EXCEPT !.plugins = << [kind |-> Absent] >>,
                                         !.seeds = << badSeed >>]) }

AllSetups ==
    OptionSetups \union MergeSetups \union DocumentSetups \union BuilderSetups
      \union PairSetups
================================================================================
