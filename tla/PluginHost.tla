------------------------------ MODULE PluginHost ------------------------------
(***************************************************************************)
(* Plugins of one engine: installing them from the OCI registry, pinning   *)
(* them in a lockfile, loading their libraries, and making components of   *)
(* the kinds they register, which may resolve a secret (SecretResolver).   *)
(*                                                                         *)
(* An artifact is a published build; KindOf gives the component kind it    *)
(* registers.  Builds of one kind are written to the same file of the      *)
(* plugin directory, and the hash of a file is the artifact it holds.      *)
(*                                                                         *)
(* The libraries that one call loads are a batch, numbered in order.       *)
(***************************************************************************)
EXTENDS SecretResolver

CONSTANTS Callers,              \* tasks that call operations of the host
          Watchers,             \* tasks that watch_plugins spawns; a bound of the model
          Artifacts, Kinds, KindOf,
          Nothing,
          NoHash,               \* what is recorded of a file that could not be hashed
          MaxCalls, MaxBatches  \* bounds of the model on calls and loads

ASSUME HostAssumption ==
    /\ Callers \subseteq Resolvers /\ Watchers \cap Callers = {}
    /\ KindOf \in [Artifacts -> Kinds]
    /\ Nothing \notin Artifacts /\ NoHash \notin Artifacts \cup {Nothing}

Tasks == Callers \cup Watchers

VARIABLES
    file,       \* [Kinds -> artifact in the kind's file of the directory]
    installed,  \* PluginHost::installed: [Artifacts -> recorded hash]
    lockfile,   \* plugins.lock: [Artifacts -> pinned hash]
    registry,   \* [Kinds -> batch whose descriptor is registered, 0 for none]
    injected,   \* batches that have the config resolver
    loaded,     \* PluginHost::loaded: batches kept alive
    batches,    \* number of batches so far
    events,     \* pairs of a watcher and a file whose event it has not taken
    watching,   \* watchers spawned so far, one by each watch_plugins
    task,       \* [Tasks -> where its call is, and the call's locals]
    (* history *)
    calls,      \* number of calls so far
    crossed     \* kinds whose file changed while a task was installing it

diskVars == <<file, installed, lockfile>>
loadVars == <<registry, injected, loaded, batches>>
watchVars == <<events, watching>>
taskVars == <<task, calls, crossed>>
hostVars == <<diskVars, loadVars, watchVars, taskVars>>
vars == <<secretVars, hostVars>>

Places == {"idle", "download", "record", "fetch", "check", "loadFile", "inject", "keep", "select"}

Entries == [Artifacts -> Artifacts \cup {Nothing, NoHash}]
NoEntries == [a \in Artifacts |-> Nothing]
Pinned(entries) == {a \in Artifacts : entries[a] # Nothing}

\* art is the artifact installed or whose file is loaded, load says whether to
\* load what is installed, todo are the lockfile entries still to install.
Idle == [at |-> "idle", art |-> Nothing, load |-> TRUE, batch |-> 0, todo |-> NoEntries]

\* The plugin directory: each file holds an artifact of its kind.
Directories == {d \in [Kinds -> Artifacts \cup {Nothing}] :
                   \A k \in Kinds : d[k] # Nothing => KindOf[d[k]] = k}

TypeOK ==
    /\ SecretTypeOK
    /\ file \in Directories /\ installed \in Entries /\ lockfile \in Entries
    /\ batches \in Nat
    /\ registry \in [Kinds -> 0..batches]
    /\ injected \subseteq 1..batches /\ loaded \subseteq injected
    /\ events \subseteq Watchers \X Kinds /\ watching \subseteq Watchers
    /\ task \in [Tasks -> [at : Places, art : Artifacts \cup {Nothing}, load : BOOLEAN,
                           batch : 0..batches, todo : Entries]]
    /\ calls \in Nat /\ crossed \subseteq Kinds

HostInit ==
    /\ file \in Directories
    /\ installed = NoEntries /\ lockfile = NoEntries
    /\ registry = [k \in Kinds |-> 0]
    /\ injected = {} /\ loaded = {} /\ batches = 0
    /\ events = {} /\ watching = {}
    /\ task = [t \in Tasks |-> Idle]
    /\ calls = 0 /\ crossed = {}

Init == SecretInit /\ HostInit

At(t, place) == task[t].at = place
Goto(t, place) == task' = [task EXCEPT ![t].at = place]
Return(t) == task' = [task EXCEPT ![t] = Idle]

\* A caller enters an operation of the host; RunAsync gives each call a thread.
\* The engine is open: what becomes of calls in a shutdown is in EngineLifecycle.
Enter(c) ==
    /\ At(c, "idle") /\ resolve[c].at = "idle"
    /\ calls < MaxCalls /\ calls' = calls + 1

-----------------------------------------------------------------------------
(* install_plugin, install_from_lockfile, write_lockfile *)

\* The build that the reference resolves to; resolving may fail, and then
\* nothing happens.
CallInstall(c, a) ==
    /\ Enter(c)
    /\ \E wanted \in BOOLEAN :
          task' = [task EXCEPT ![c] = [Idle EXCEPT !.at = "download", !.art = a, !.load = wanted]]
    /\ UNCHANGED <<secretVars, diskVars, loadVars, watchVars, crossed>>

CallInstallFromLockfile(c) ==
    /\ Enter(c) /\ Pinned(lockfile) # {}
    /\ \E wanted \in BOOLEAN :
          task' = [task EXCEPT ![c] = [Idle EXCEPT !.at = "fetch", !.todo = lockfile, !.load = wanted]]
    /\ UNCHANGED <<secretVars, diskVars, loadVars, watchVars, crossed>>

Installing(t, k) ==
    task[t].at \in {"record", "check", "loadFile"} /\ KindOf[task[t].art] = k

\* The artifact is written over the kind's file; any watcher's notifier may
\* miss the change.
WriteFile(a) ==
    LET k == KindOf[a] IN
    /\ file' = [file EXCEPT ![k] = a]
    /\ \E noticed \in SUBSET watching : events' = events \cup noticed \X {k}
    /\ crossed' = IF \E t \in Tasks : Installing(t, k) THEN crossed \cup {k} ELSE crossed

\* The download fails, or the artifact is there and its signature is refused,
\* or it is to be recorded.
Download(c) ==
    /\ At(c, "download")
    /\ \/ WriteFile(task[c].art) /\ (Goto(c, "record") \/ Return(c))
       \/ Return(c) /\ UNCHANGED <<file, events, crossed>>
    /\ UNCHANGED <<secretVars, installed, lockfile, loadVars, watching, calls>>

\* Mutant: the entry keeps the hash that was recorded for the file before.
RecordInstall_Stale(c) ==
    /\ At(c, "record")
    /\ LET a == task[c].art
           before == {b \in Pinned(installed) : KindOf[b] = KindOf[a]}
       IN installed' = [installed EXCEPT ![a] = IF before # {} THEN CHOOSE b \in before : TRUE ELSE a]
    /\ IF task[c].load THEN Goto(c, "loadFile") ELSE Return(c)
    /\ UNCHANGED <<secretVars, file, lockfile, loadVars, watchVars, calls, crossed>>

\* record_install hashes the file as it is by now, if it can be read.
RecordInstall(c) ==
    /\ At(c, "record")
    /\ LET a == task[c].art
       IN \E hash \in {file[KindOf[a]], NoHash} : installed' = [installed EXCEPT ![a] = hash]
    /\ IF task[c].load THEN Goto(c, "loadFile") ELSE Return(c)
    /\ UNCHANGED <<secretVars, file, lockfile, loadVars, watchVars, calls, crossed>>

\* An entry of the lockfile is downloaded, unless that fails.
Fetch(c) ==
    /\ At(c, "fetch")
    /\ \/ \E a \in Pinned(task[c].todo) :
             WriteFile(a) /\ task' = [task EXCEPT ![c].at = "check", ![c].art = a]
       \/ Return(c) /\ UNCHANGED <<file, events, crossed>>
    /\ UNCHANGED <<secretVars, installed, lockfile, loadVars, watching, calls>>

\* On to the next entry of the lockfile, if there is one.
Continue(t, todo) ==
    IF Pinned(todo) = {} THEN Return(t)
    ELSE task' = [task EXCEPT ![t] = [@ EXCEPT !.at = "fetch", !.art = Nothing, !.batch = 0,
                                               !.todo = todo]]

\* The file must have the hash of the entry, if the entry has one.
CheckHash(c) ==
    /\ At(c, "check")
    /\ LET a == task[c].art
           rest == [task[c].todo EXCEPT ![a] = Nothing]
       IN IF task[c].todo[a] \notin {NoHash, file[KindOf[a]]} THEN Return(c)
          ELSE IF task[c].load
          THEN task' = [task EXCEPT ![c].at = "loadFile", ![c].todo = rest]
          ELSE Continue(c, rest)
    /\ UNCHANGED <<secretVars, diskVars, loadVars, watchVars, calls, crossed>>

\* Nothing is written when nothing was installed.
WriteLockfile(c) ==
    /\ Enter(c)
    /\ lockfile' = IF Pinned(installed) = {} THEN lockfile ELSE installed
    /\ UNCHANGED <<secretVars, file, installed, loadVars, watchVars, task, crossed>>

-----------------------------------------------------------------------------
(* load_plugins, load_file, watch_plugins *)

\* The libraries of the kinds are loaded, and their descriptors registered
\* under the registry's lock.
Register(t, kinds) ==
    /\ batches < MaxBatches
    /\ batches' = batches + 1
    /\ registry' = [k \in Kinds |-> IF k \in kinds THEN batches + 1 ELSE registry[k]]
    /\ task' = [task EXCEPT ![t].at = "inject", ![t].batch = batches + 1]

\* load_dir: any file may not be a plugin, or not be in the map of hashes.
LoadPlugins(c) ==
    /\ Enter(c)
    /\ \E kinds \in SUBSET {k \in Kinds : file[k] # Nothing} : Register(c, kinds)
    /\ UNCHANGED <<secretVars, diskVars, injected, loaded, watchVars, crossed>>

\* load_file: the file as it is by now, unless it fails to load.
LoadFile(t) ==
    /\ At(t, "loadFile")
    /\ \/ Register(t, {KindOf[task[t].art]})
       \/ Return(t) /\ UNCHANGED <<registry, batches>>
    /\ UNCHANGED <<secretVars, diskVars, injected, loaded, watchVars, calls, crossed>>

InjectResolver(t) ==
    /\ At(t, "inject")
    /\ injected' = injected \cup {task[t].batch}
    /\ Goto(t, "keep")
    /\ UNCHANGED <<secretVars, diskVars, registry, loaded, batches, watchVars, calls, crossed>>

\* Mutant: the libraries of earlier calls are dropped.
KeepLoaded_Replaces(t) ==
    /\ At(t, "keep")
    /\ loaded' = {task[t].batch}
    /\ Continue(t, task[t].todo)
    /\ UNCHANGED <<secretVars, diskVars, registry, injected, batches, watchVars, calls, crossed>>

KeepLoaded(t) ==
    /\ At(t, "keep")
    /\ loaded' = loaded \cup {task[t].batch}
    /\ Continue(t, task[t].todo)
    /\ UNCHANGED <<secretVars, diskVars, registry, injected, batches, watchVars, calls, crossed>>

\* Nothing keeps a second call from watching the directory, too.
WatchPlugins(c) ==
    /\ Enter(c)
    /\ \E w \in Watchers \ watching : watching' = watching \cup {w}
    /\ UNCHANGED <<secretVars, diskVars, loadVars, events, task, crossed>>

\* Somebody copies a plugin into the watched directory.
CopyIn(a) ==
    /\ watching # {} /\ file[KindOf[a]] # a
    /\ WriteFile(a)
    /\ UNCHANGED <<secretVars, installed, lockfile, loadVars, watching, task, calls>>

\* A watching task takes an event, and loads the file of it.
TakeEvent(w, k) ==
    /\ At(w, "idle") /\ <<w, k>> \in events
    /\ events' = events \ {<<w, k>>}
    /\ task' = [task EXCEPT ![w].at = "loadFile", ![w].art = file[k]]
    /\ UNCHANGED <<secretVars, diskVars, loadVars, watching, calls, crossed>>

-----------------------------------------------------------------------------
(* Components of a registered kind; use_secret_store *)

\* The descriptor is looked up and makes a component whose configuration
\* refers to a secret: with a resolver in its plugin the secret is looked up.
\* register drops the lock of the descriptors before it injects the resolver,
\* so the first component of a kind may find none.
CreateComponent(c, k) ==
    /\ Enter(c)
    /\ registry[k] # 0
    /\ IF registry[k] \in injected THEN \E n \in Names : Lookup(c, n) ELSE UNCHANGED secretVars
    /\ UNCHANGED <<diskVars, loadVars, watchVars, task, crossed>>

\* A thread of a loaded plugin resolves a reference again, when it reconnects.
Reconnect(r, n) ==
    /\ r \notin Callers /\ injected # {}
    /\ Lookup(r, n)
    /\ UNCHANGED hostVars

Resolve(r) == ResolveStep(r) /\ UNCHANGED hostVars

CallUseSecretStore(c) ==
    /\ Enter(c)
    /\ \E k \in Kinds : registry[k] # 0
    /\ Goto(c, "select")
    /\ UNCHANGED <<secretVars, diskVars, loadVars, watchVars, crossed>>

\* The provider is made and installed, or that fails.
UseSecretStore(c) ==
    /\ At(c, "select")
    /\ Return(c)
    /\ SetSecretStore \/ UNCHANGED secretVars
    /\ UNCHANGED <<diskVars, loadVars, watchVars, calls, crossed>>

-----------------------------------------------------------------------------

Load(t) == LoadFile(t) \/ InjectResolver(t) \/ KeepLoaded(t)

Next ==
    \/ \E c \in Callers, a \in Artifacts : CallInstall(c, a)
    \/ \E c \in Callers : \/ CallInstallFromLockfile(c) \/ Download(c) \/ RecordInstall(c)
                          \/ Fetch(c) \/ CheckHash(c) \/ WriteLockfile(c)
                          \/ LoadPlugins(c) \/ WatchPlugins(c)
                          \/ CallUseSecretStore(c) \/ UseSecretStore(c)
    \/ \E t \in Tasks : Load(t)
    \/ \E a \in Artifacts : CopyIn(a)
    \/ \E w \in Watchers, k \in Kinds : TakeEvent(w, k)
    \/ \E c \in Callers, k \in Kinds : CreateComponent(c, k)
    \/ \E r \in Resolvers : Resolve(r) \/ \E n \in Names : Reconnect(r, n)

Spec == Init /\ [][Next]_vars

-----------------------------------------------------------------------------
(* Properties *)

\* A kind whose loading call is past `register' has its library alive, for its
\* descriptor points into it, and the resolver in it (PluginHost::loaded).
RegisteredIsReady ==
    \A k \in Kinds :
        registry[k] # 0 /\ (\A t \in Tasks : task[t].batch # registry[k])
            => registry[k] \in loaded \cap injected

\* Unless a file was written over while it was being installed, a plugin that
\* install_plugin recorded and write_lockfile pinned passes the hash check of
\* install_from_lockfile, if a hash was recorded, whatever was installed over it
\* in the meantime.
ReinstallAccepted ==
    [][\A c \in Callers :
          LET a == task[c].art IN
          CheckHash(c) /\ KindOf[a] \notin crossed =>
              task[c].todo[a] \in {NoHash, file[KindOf[a]]}]_vars
=============================================================================
