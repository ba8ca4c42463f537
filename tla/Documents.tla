------------------------------- MODULE Documents -------------------------------
(* What the description of an engine becomes before drasi-lib sees it: create  *)
(* options, the entries of a configuration document, a builder's queries and   *)
(* seeds, and the code with which a bad one is refused.                        *)
(*                                                                             *)
(* A JSON value is Absent, "true", "false", "number", "negative", "text", or   *)
(* "text false", which is a string that spells a boolean. A setting of the     *)
(* create options is Absent, "good", or named for what is wrong with it.       *)
EXTENDS Integers, Sequences

CONSTANT Absent

Check(fails, code) == [fails |-> fails, code |-> code]

\* A chain of `?`: the first check that fails answers for all.
FirstFault(checks) ==
    LET failing == {i \in DOMAIN checks : checks[i].fails}
    IN  IF failing = {} THEN "ok"
        ELSE checks[CHOOSE i \in failing : \A j \in failing : i <= j].code

--------------------------------------------------------------------------------
(* Create options                                                              *)

OptionKeys ==
    {"secrets", "stateStore", "walProvider", "indexStore", "identity", "pluginsDir"}

\* Mutant: the caller's settings win.
MergeCreateOptions_CallerWins(document, options) ==
    [k \in OptionKeys |-> IF options[k] = Absent THEN document[k] ELSE options[k]]

\* The document's own settings win over those of EngineOptions.
MergeCreateOptions(document, options) ==
    [k \in OptionKeys |-> IF document[k] = Absent THEN options[k] ELSE document[k]]

\* The merge does not look for a key under its alias, so that it can add a
\* second spelling of it.
SpelledTwice(document, snake, options) ==
    {k \in snake : document[k] # Absent /\ options[k] # Absent}

\* A secret that is no text is an option that cannot be parsed.
ParseChecks(o, twice) ==
    << Check(twice # {} \/ o.secrets = "not text", "ConfigInvalid") >>

\* The last place where a setting of a store can fail is the opening.
StoreChecks(setting, kindCode, pathCode) ==
    << Check(setting = "unknown kind", kindCode),
       Check(setting = "no path", pathCode),
       Check(setting = "cannot open", "ConfigInvalid") >>

\* The provider of the log opens a file when a source first needs it.
WalChecks(setting) ==
    << Check(setting = "unknown kind", "UnknownWalProviderKind"),
       Check(setting = "no path", "WalProviderPathRequired") >>

\* An identity that is not built in comes from a plugin, which has to be loaded
\* before the engine exists.
IdentityChecks(o) ==
    LET plugin == o.identity = "of a plugin"
    IN  << Check(o.identity = "no kind", "IdentityKindRequired"),
           Check(o.identity = "incomplete", "IdentityConfigInvalid"),
           Check(plugin /\ o.pluginsDir = Absent, "UnknownIdentityKind"),
           Check(plugin /\ o.pluginsDir = "not a directory", "PluginNotFound"),
           Check(plugin /\ o.pluginsDir = "empty", "UnknownIdentityKind") >>

CreateChecks(o, twice) ==
    ParseChecks(o, twice)
        \o IdentityChecks(o)
        \o StoreChecks(o.stateStore, "UnknownStateStoreKind", "StateStorePathRequired")
        \o WalChecks(o.walProvider)
        \o StoreChecks(o.indexStore, "UnknownIndexStoreKind", "IndexStorePathRequired")
        \o << Check(o.pluginsDir = "not a directory", "PluginNotFound") >>

--------------------------------------------------------------------------------
(* Entries                                                                     *)

\* IConfiguration holds strings alone; only booleans are turned back.
Coerce(v) ==
    CASE v \in {"number", "negative"} -> "text"
      [] v = "text false" -> "false"
      [] OTHER -> v

Read(form, v) == IF form = "configuration" THEN Coerce(v) ELSE v

\* Sources and reactions: whatever is not a boolean is no answer, and means TRUE.
AutoStart(v) == v # "false"

SourceChecks(s, kinds) ==
    LET plugin == s.kind \notin {Absent, "csharp"}
    IN  << Check(s.id = Absent, "ConfigInvalid"),
           Check(plugin /\ s.kind \notin kinds, "UnknownSourceKind"),
           Check(plugin /\ s.bootstrap = "no kind", "BootstrapKindRequired"),
           Check(plugin /\ s.bootstrap = "unknown kind", "UnknownBootstrapKind") >>

\* What QueryOptions become: a property that is null, or a list that is empty, is
\* left out. Joins are known by the number of their keys.
ToQueryOptionsJson(o) ==
    [autoStart |-> CASE o.autoStart = Absent -> Absent
                     [] o.autoStart = TRUE -> "true"
                     [] o.autoStart = FALSE -> "false",
     capacity |-> CASE o.capacity = Absent -> Absent
                    [] o.capacity # Absent /\ o.capacity < 0 -> "negative"
                    [] OTHER -> "number",
     joins |-> CASE o.joins = << >> -> Absent
                 [] \E i \in DOMAIN o.joins : o.joins[i] = 0 -> "without keys"
                 [] OTHER -> "good",
     dispatchMode |-> o.dispatchMode,
     language |-> "known"]

\* A query of a builder, as the native side reads it.
QueryEntry(q) ==
    LET o == ToQueryOptionsJson(q.options)
    IN  [id |-> q.id, query |-> "text", sources |-> "list", autoStart |-> o.autoStart,
         capacity |-> o.capacity, language |-> o.language, joins |-> o.joins,
         dispatchMode |-> o.dispatchMode]

\* A query's options are parsed strictly: a value of another type is refused.
QueryChecks(q, form) ==
    << Check(q.id = Absent \/ q.query = Absent, "ConfigInvalid"),
       Check(Read(form, q.sources) \notin {Absent, "list", "text"}, "ConfigInvalid"),
       Check(Read(form, q.autoStart) \notin {Absent, "true", "false"}, "ConfigInvalid"),
       Check(Read(form, q.capacity) \notin {Absent, "number"}, "ConfigInvalid"),
       Check(q.language = "unknown", "UnknownQueryLanguage"),
       Check(q.joins = "without keys", "ConfigInvalid"),
       Check(q.dispatchMode = "unknown", "ConfigInvalid") >>

ReactionChecks(r, kinds, durable) ==
    << Check(r.kind = Absent \/ r.id = Absent, "ConfigInvalid"),
       Check(r.kind \notin kinds, "UnknownReactionKind"),
       Check(r.kind = "durable" /\ ~durable, "DurableRequiresStateStore") >>

--------------------------------------------------------------------------------
(* Changes                                                                     *)

\* A change is a relation if it names both ends; a delete whatever it names.
SourceChangeOf(c) ==
    [op |-> c.op, id |-> c.id,
     element |-> CASE c.op = "delete" -> "reference"
                   [] c.op # "delete" /\ c.startId /\ c.endId -> "relation"
                   [] OTHER -> "node"]

\* Mutant: the ends are looked at before the operation is.
SeedChecks_EndsFirst(c, csharp) ==
    << Check(c.startId # c.endId, "RelationRequiresBothEnds"),
       Check(c.source \notin csharp, "NoCsharpSource") >>

SeedChecks(c, csharp) ==
    << Check(c.op # "delete" /\ c.startId # c.endId, "RelationRequiresBothEnds"),
       Check(c.source \notin csharp, "NoCsharpSource") >>

--------------------------------------------------------------------------------
(* Exceptions                                                                  *)

UnknownKinds ==
    {"UnknownSourceKind", "UnknownReactionKind", "UnknownBootstrapKind",
     "UnknownStateStoreKind", "UnknownIndexStoreKind", "UnknownWalProviderKind",
     "UnknownIdentityKind", "UnknownQueryLanguage"}
ConfigCodes ==
    {"BootstrapKindRequired", "StateStorePathRequired", "IndexStorePathRequired",
     "WalProviderPathRequired", "IdentityKindRequired", "IdentityConfigInvalid",
     "DurableRequiresStateStore", "ConfigInvalid"}
SourceCodes == {"NoCsharpSource", "RelationRequiresBothEnds"}
Codes ==
    UnknownKinds \union ConfigCodes \union SourceCodes
        \union {"PluginNotFound", "EngineClosed", "EngineFailure", "InvalidOperation"}

\* The class of exception that a code becomes. UnknownKindException is a
\* ConfigException.
FromCode(code) ==
    CASE code \in UnknownKinds -> "UnknownKindException"
      [] code \in ConfigCodes -> "ConfigException"
      [] code \in SourceCodes -> "SourceException"
      [] code = "PluginNotFound" -> "PluginNotFoundException"
      [] OTHER -> "DrasiException"
================================================================================
