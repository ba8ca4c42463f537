---------------------------- MODULE SourceRegistry ----------------------------
(***************************************************************************)
(* The two records of one source: drasi-lib's component registry, which    *)
(* queries subscribe through, and EngineInner::sources, through which      *)
(* push_change finds the in-process source it feeds.  add_source and       *)
(* remove_source write one after the other with an await in between; the   *)
(* plugin calls write drasi-lib's registry alone.                          *)
(*                                                                         *)
(* Sources made by CsharpSource::new are numbered; a source made by a      *)
(* plugin descriptor is the value Plugin.  start_source and stop_source    *)
(* change neither record.                                                  *)
(***************************************************************************)
EXTENDS Naturals

CONSTANTS Callers,   \* tasks that use the engine handle
          Ids,       \* source ids
          Absent, Plugin, Nothing,
          MaxCalls   \* bound of the model on the number of calls

ASSUME RegistryAssumption ==
    /\ Absent \notin Nat /\ Plugin \notin Nat /\ Absent # Plugin
    /\ Nothing \notin Ids /\ MaxCalls \in Nat

VARIABLES
    core,       \* [Ids -> what drasi-lib has registered]
    sources,    \* [Ids -> the C# source push_change would find]
    made,       \* number of C# sources made so far
    closed,     \* the `closed' flag of shutdown
    pc,         \* [Callers -> control point of the caller's call]
    target,     \* [Callers -> the id the call is about]
    inst,       \* [Callers -> the C# source it made or found]
    (* history *)
    calls,      \* number of calls so far
    clashed,    \* ids that two calls configured at the same time
    replaced,   \* ids whose C# source a plugin source replaced
    disturbed   \* pushes during which another call configured their id

records == <<core, sources, made>>
vars == <<core, sources, made, closed, pc, target, inst, calls, clashed, replaced, disturbed>>

ConfigureOps == {"add", "remove", "plug", "update"}
PCs == {"idle", "add", "insert", "remove", "forget", "plug", "update", "look", "push"}

TypeOK ==
    /\ core \in [Ids -> Nat \cup {Absent, Plugin}]
    /\ sources \in [Ids -> Nat \cup {Absent}]
    /\ made \in Nat /\ closed \in BOOLEAN
    /\ pc \in [Callers -> PCs]
    /\ target \in [Callers -> Ids \cup {Nothing}]
    /\ inst \in [Callers -> Nat]
    /\ \A c \in Callers : pc[c] # "idle" => target[c] \in Ids
    /\ calls \in Nat
    /\ clashed \subseteq Ids /\ replaced \subseteq Ids /\ disturbed \subseteq Callers

Init ==
    /\ core = [i \in Ids |-> Absent]
    /\ sources = [i \in Ids |-> Absent]
    /\ made = 0 /\ closed = FALSE
    /\ pc = [c \in Callers |-> "idle"]
    /\ target = [c \in Callers |-> Nothing]
    /\ inst = [c \in Callers |-> 0]
    /\ calls = 0
    /\ clashed = {} /\ replaced = {} /\ disturbed = {}

\* The caller is inside a call that may write either record of the id.
Configuring(c, i) ==
    target[c] = i /\ pc[c] \in {"add", "insert", "remove", "forget", "plug", "update"}

Pushing(c, i) == target[c] = i /\ pc[c] \in {"look", "push"}

-----------------------------------------------------------------------------
(* Calls enter through ensure_open and return *)

Enter(c, op, i) ==
    /\ pc[c] = "idle" /\ ~closed /\ calls < MaxCalls
    /\ calls' = calls + 1
    /\ pc' = [pc EXCEPT ![c] = op]
    /\ target' = [target EXCEPT ![c] = i]

Return(c) == pc' = [pc EXCEPT ![c] = "idle"]

CallConfigure(c, i) ==
    /\ \E op \in ConfigureOps : Enter(c, op, i)
    /\ clashed' = IF \E d \in Callers : Configuring(d, i) THEN clashed \cup {i} ELSE clashed
    /\ disturbed' = disturbed \cup {d \in Callers : Pushing(d, i)}
    /\ UNCHANGED <<records, closed, inst, replaced>>

CallPush(c, i) ==
    /\ Enter(c, "look", i)
    /\ disturbed' = IF \E d \in Callers : Configuring(d, i) THEN disturbed \cup {c}
                    ELSE disturbed \ {c}
    /\ UNCHANGED <<records, closed, inst, clashed, replaced>>

Shutdown ==
    /\ ~closed
    /\ closed' = TRUE
    /\ UNCHANGED <<records, pc, target, inst, calls, clashed, replaced, disturbed>>

-----------------------------------------------------------------------------
(* add_source *)

\* Mutant: an id that is taken is not an error.
AddToCore_Overwrites(c) ==
    /\ pc[c] = "add"
    /\ made' = made + 1
    /\ inst' = [inst EXCEPT ![c] = made + 1]
    /\ core' = IF core[target[c]] = Absent THEN [core EXCEPT ![target[c]] = made + 1] ELSE core
    /\ pc' = [pc EXCEPT ![c] = "insert"]
    /\ UNCHANGED <<sources, closed, target, calls, clashed, replaced, disturbed>>

\* core.add_source rejects an id that is taken, and may fail otherwise.
AddToCore(c) ==
    /\ pc[c] = "add"
    /\ made' = made + 1
    /\ inst' = [inst EXCEPT ![c] = made + 1]
    /\ \/ /\ core[target[c]] = Absent
          /\ core' = [core EXCEPT ![target[c]] = made + 1]
          /\ pc' = [pc EXCEPT ![c] = "insert"]
       \/ Return(c) /\ UNCHANGED core
    /\ UNCHANGED <<sources, closed, target, calls, clashed, replaced, disturbed>>

InsertSource(c) ==
    /\ pc[c] = "insert"
    /\ sources' = [sources EXCEPT ![target[c]] = inst[c]]
    /\ Return(c)
    /\ UNCHANGED <<core, made, closed, target, inst, calls, clashed, replaced, disturbed>>

-----------------------------------------------------------------------------
(* remove_source *)

\* Mutant: the handle is dropped although drasi-lib kept the source.
RemoveFromCore_IgnoresError(c) ==
    /\ pc[c] = "remove"
    /\ core' = [core EXCEPT ![target[c]] = Absent] \/ UNCHANGED core
    /\ pc' = [pc EXCEPT ![c] = "forget"]
    /\ UNCHANGED <<sources, made, closed, target, inst, calls, clashed, replaced, disturbed>>

\* core.remove_source fails for an unknown id, and may fail otherwise.
RemoveFromCore(c) ==
    /\ pc[c] = "remove"
    /\ \/ /\ core[target[c]] # Absent
          /\ core' = [core EXCEPT ![target[c]] = Absent]
          /\ pc' = [pc EXCEPT ![c] = "forget"]
       \/ Return(c) /\ UNCHANGED core
    /\ UNCHANGED <<sources, made, closed, target, inst, calls, clashed, replaced, disturbed>>

\* Mutant: the handle of the removed source stays in the map.
ForgetSource_Keeps(c) ==
    /\ pc[c] = "forget"
    /\ Return(c)
    /\ UNCHANGED <<records, closed, target, inst, calls, clashed, replaced, disturbed>>

ForgetSource(c) ==
    /\ pc[c] = "forget"
    /\ sources' = [sources EXCEPT ![target[c]] = Absent]
    /\ Return(c)
    /\ UNCHANGED <<core, made, closed, target, inst, calls, clashed, replaced, disturbed>>

-----------------------------------------------------------------------------
(* add_plugin_source, update_plugin_source *)

\* Both fail for an unknown kind, a configuration the descriptor rejects, and
\* when drasi-lib rejects the source.
AddPluginSource(c) ==
    /\ pc[c] = "plug"
    /\ Return(c)
    /\ \/ core[target[c]] = Absent /\ core' = [core EXCEPT ![target[c]] = Plugin]
       \/ UNCHANGED core
    /\ UNCHANGED <<sources, made, closed, target, inst, calls, clashed, replaced, disturbed>>

UpdatePluginSource(c) ==
    /\ pc[c] = "update"
    /\ Return(c)
    /\ \/ /\ core[target[c]] # Absent
          /\ core' = [core EXCEPT ![target[c]] = Plugin]
          /\ replaced' = IF core[target[c]] # Plugin THEN replaced \cup {target[c]}
                         ELSE replaced
       \/ UNCHANGED <<core, replaced>>
    /\ UNCHANGED <<sources, made, closed, target, inst, calls, clashed, disturbed>>

-----------------------------------------------------------------------------
(* push_change *)

\* The lookup clones the Arc and drops the map's lock; without an entry the
\* push is refused with NO_CSHARP_SOURCE.
FindSource(c) ==
    /\ pc[c] = "look"
    /\ \/ sources[target[c]] = Absent /\ Return(c) /\ UNCHANGED inst
       \/ /\ sources[target[c]] # Absent
          /\ pc' = [pc EXCEPT ![c] = "push"]
          /\ inst' = [inst EXCEPT ![c] = sources[target[c]]]
    /\ UNCHANGED <<records, closed, target, calls, clashed, replaced, disturbed>>

\* source.push, whose steps are those of CsharpSource
PushInto(c) ==
    /\ pc[c] = "push"
    /\ Return(c)
    /\ UNCHANGED <<records, closed, target, inst, calls, clashed, replaced, disturbed>>

Step(c) == \/ AddToCore(c) \/ InsertSource(c)
           \/ RemoveFromCore(c) \/ ForgetSource(c)
           \/ AddPluginSource(c) \/ UpdatePluginSource(c)
           \/ FindSource(c) \/ PushInto(c)

Next == \/ \E c \in Callers, i \in Ids : CallConfigure(c, i) \/ CallPush(c, i)
        \/ \E c \in Callers : Step(c)
        \/ Shutdown

Spec == Init /\ [][Next]_vars

-----------------------------------------------------------------------------
(* Properties *)

Settled(i) == \A c \in Callers : ~Configuring(c, i)

\* Unless two calls configured an id at once, or a plugin source replaced a C#
\* source, push_change knows exactly the C# sources that drasi-lib has, and
\* under each id the one it has, whichever of the calls failed half-way.
RecordsAgree ==
    \A i \in Ids \ (clashed \cup replaced) :
        Settled(i) => sources[i] = (IF core[i] = Plugin THEN Absent ELSE core[i])

\* What push_change feeds while nobody configures the id is the source that
\* queries are subscribed to, never a source that was removed.
PushReachesRegistered ==
    \A c \in Callers \ disturbed :
        pc[c] = "push" /\ target[c] \notin clashed \cup replaced =>
            core[target[c]] = inst[c]

\* NO_CSHARP_SOURCE is never the answer for a registered C# source that nobody
\* is configuring (website guides/error-handling.md).
RefusedOnlyIfAbsent ==
    [][\A c \in Callers \ disturbed :
          FindSource(c) /\ pc'[c] = "idle" /\ target[c] \notin clashed =>
              core[target[c]] \in {Absent, Plugin}]_vars
=============================================================================
