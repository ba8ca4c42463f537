--------------------------- MODULE PluginHostProofs ---------------------------
(***************************************************************************)
(* Proofs about PluginHost and the SecretResolver it is composed with, for *)
(* any number of callers, artifacts, kinds, stores and threads.            *)
(***************************************************************************)
EXTENDS PluginHost, FiniteSetTheorems, TLAPS

-----------------------------------------------------------------------------
(* The resolver: its invariant *)

\* A secret given to Create stays what it was.
Given == \A n \in Configured : cache[n] = Own

\* The answers of a secret that no store overtook are what is cached now.
Cached ==
    \A n \in Names \ raced : answers[n] \subseteq IF cache[n] = NoValue THEN {} ELSE {cache[n]}

\* A resolve that no store overtook asks the store of now.
Current ==
    \A r \in Resolvers :
        resolve[r].at # "idle" /\ resolve[r].name \notin raced =>
            /\ cache[resolve[r].name] \in {NoValue, store}
            /\ resolve[r].at \in {"wait", "insert"} => resolve[r].asked = store

SecretInv == SecretTypeOK /\ Given /\ Cached /\ Current

ResolveType ==
    [at : {"idle", "ask", "wait", "insert"}, name : Names \cup {NoValue}, asked : 0..store]

LEMMA SecretInitially == SecretInit => SecretInv
BY ResolverAssumption
   DEF SecretInit, SecretInv, SecretTypeOK, Given, Cached, Current, NoResolve

LEMMA LookupKeeps ==
    ASSUME SecretInv, NEW r \in Resolvers, NEW n \in Names, Lookup(r, n)
    PROVE  SecretInv'
<1> USE ResolverAssumption DEF SecretInv, SecretTypeOK, Given, Cached, Current
<1>1. UNCHANGED <<cache, store, raced>>
  BY DEF Lookup
<1>2. CASE cache[n] # NoValue /\ Answered(n, cache[n]) /\ UNCHANGED resolve
  BY <1>1, <1>2 DEF Answered
<1>3. CASE /\ cache[n] = NoValue /\ UNCHANGED answers
           /\ resolve' = [resolve EXCEPT ![r] = [at |-> "ask", name |-> n, asked |-> 0]]
  <2>1. n \notin Configured
    BY <1>3
  <2> QED
    BY <1>1, <1>3, <2>1
<1> QED
  BY <1>2, <1>3 DEF Lookup

LEMMA ResolveKeeps ==
    ASSUME SecretInv, NEW r \in Resolvers, ResolveStep(r)
    PROVE  SecretInv'
<1> USE ResolverAssumption DEF SecretInv, SecretTypeOK, Given, Cached, Current
<1>1. NoResolve \in ResolveType /\ NoResolve.at = "idle"
  BY DEF NoResolve, ResolveType
<1>2. CASE AskStore(r)
  <2>1. CASE store = 0
    BY <1>1, <1>2, <2>1 DEF AskStore, ResolveType
  <2>2. CASE store # 0
    <3>1. resolve' = [resolve EXCEPT ![r] = [@ EXCEPT !.at = "wait", !.asked = store]]
      BY <1>2, <2>2 DEF AskStore
    <3>0. resolve[r] \in ResolveType /\ store \in 0..store
      BY DEF ResolveType
    <3>2. [resolve[r] EXCEPT !.at = "wait", !.asked = store] \in ResolveType
      BY <3>0 DEF ResolveType
    <3>3. /\ resolve[r].at = "ask" /\ resolve'[r].at = "wait"
          /\ resolve'[r].name = resolve[r].name /\ resolve'[r].asked = store
          /\ UNCHANGED <<cache, store, answers, raced>>
      <4>1. resolve'[r] = [resolve[r] EXCEPT !.at = "wait", !.asked = store]
        BY <3>1
      <4>2. /\ resolve'[r].at = "wait" /\ resolve'[r].name = resolve[r].name
            /\ resolve'[r].asked = store
        BY <3>0, <4>1 DEF ResolveType
      <4> QED
        BY <1>2, <4>2 DEF AskStore
    <3>4. \A u \in Resolvers : u # r => resolve'[u] = resolve[u]
      BY <3>1
    <3>5. resolve' \in [Resolvers -> ResolveType]
      BY <3>1, <3>2 DEF ResolveType
    <3>6. SecretTypeOK'
      BY <3>3, <3>4, <3>5 DEF ResolveType
    <3>7. Given' /\ Cached' /\ Current'
      BY <3>3, <3>4
    <3> QED
      BY <3>6, <3>7
  <2> QED
    BY <2>1, <2>2
<1>3. CASE StoreReplies(r)
  <2>1. CASE resolve' = [resolve EXCEPT ![r] = NoResolve]
    BY <1>1, <1>3, <2>1 DEF StoreReplies, ResolveType
  <2>2. CASE resolve' = [resolve EXCEPT ![r] = [resolve[r] EXCEPT !.at = "insert"]]
    BY <1>3, <2>2 DEF StoreReplies
  <2> QED
    BY <1>3, <2>1, <2>2 DEF StoreReplies
<1>4. CASE CacheAnswer(r)
  <2> DEFINE n == resolve[r].name
             v == resolve[r].asked
  <2>1. /\ n \in Names \ Configured /\ v \in Nat
        /\ cache' = [cache EXCEPT ![n] = v] /\ answers' = [answers EXCEPT ![n] = @ \cup {v}]
        /\ resolve' = [resolve EXCEPT ![r] = NoResolve] /\ UNCHANGED <<store, raced>>
    BY <1>4 DEF CacheAnswer, Answered
  <2>2. n \notin raced => v = store /\ cache[n] \in {NoValue, v}
    BY <1>4 DEF CacheAnswer
  <2>3. SecretTypeOK'
    BY <1>1, <2>1 DEF ResolveType
  <2>4. Given' /\ Cached' /\ Current'
    BY <1>1, <2>1, <2>2
  <2> QED
    BY <2>3, <2>4
<1> QED
  BY <1>2, <1>3, <1>4 DEF ResolveStep

LEMMA StoreKeeps ==
    ASSUME SecretInv, SetSecretStore
    PROVE  SecretInv'
BY ResolverAssumption DEF SecretInv, SecretTypeOK, Given, Cached, Current, SetSecretStore

LEMMA SecretUntouched ==
    ASSUME SecretInv, UNCHANGED secretVars
    PROVE  SecretInv'
BY DEF SecretInv, SecretTypeOK, Given, Cached, Current, secretVars

-----------------------------------------------------------------------------
(* The host: its invariant *)

\* What the place of a call says of its locals.
Places_Locals ==
    \A t \in Tasks :
        /\ task[t].at \in {"download", "record", "check", "loadFile"} => task[t].art \in Artifacts
        /\ task[t].at = "check" => task[t].todo[task[t].art] # Nothing
        /\ task[t].at \in {"inject", "keep"} => task[t].batch # 0
        /\ task[t].at = "keep" => task[t].batch \in injected

\* An event is about a file that is there.
EventFiles == \A w \in Watchers, k \in Kinds : <<w, k>> \in events => file[k] # Nothing

\* A batch of libraries is kept alive, or the task that loaded it is about to.
Batches ==
    \A b \in 1..batches :
        b \in loaded \/ \E t \in Tasks : task[t].at \in {"inject", "keep"} /\ task[t].batch = b

Right(entries, a) == entries[a] \in {a, Nothing, NoHash}

\* Unless a file was written over while it was being installed, what is recorded
\* and pinned of it is the hash of the artifact itself, or none.
Recorded ==
    \A a \in Artifacts :
        KindOf[a] \notin crossed =>
            Right(installed, a) /\ Right(lockfile, a) /\ \A t \in Tasks : Right(task[t].todo, a)

\* ... and a call that has downloaded it finds it in the file.
InFile ==
    \A t \in Tasks :
        task[t].at \in {"record", "check"} /\ KindOf[task[t].art] \notin crossed =>
            file[KindOf[task[t].art]] = task[t].art

TaskType ==
    [at : Places, art : Artifacts \cup {Nothing}, load : BOOLEAN, batch : 0..batches, todo : Entries]

HostInv == Places_Locals /\ EventFiles /\ Batches /\ Recorded /\ InFile

IInv == TypeOK /\ SecretInv /\ HostInv

LEMMA Initially == Init => IInv
<1> SUFFICES ASSUME Init
             PROVE  IInv
  OBVIOUS
<1>1. SecretInv
  BY SecretInitially DEF Init
<1> USE HostAssumption DEF Init, HostInit
<1>2. NoEntries \in Entries
  BY DEF NoEntries, Entries
<1>3. TypeOK
  <2>1. Idle \in [at : Places, art : Artifacts \cup {Nothing}, load : BOOLEAN, batch : 0..0,
                 todo : Entries]
    BY <1>2 DEF Idle, Places
  <2>2. task \in [Tasks -> [at : Places, art : Artifacts \cup {Nothing}, load : BOOLEAN,
                           batch : 0..batches, todo : Entries]]
    BY <2>1
  <2>3. registry \in [Kinds -> 0..batches] /\ injected \subseteq 1..batches /\ loaded \subseteq injected
    OBVIOUS
  <2> QED
    BY <1>1, <1>2, <2>2, <2>3 DEF SecretInv, TypeOK
<1>4. HostInv
  BY DEF HostInv, Places_Locals, EventFiles, Batches, Recorded, InFile, Right, Idle, NoEntries
<1> QED
  BY <1>1, <1>3, <1>4 DEF IInv

-----------------------------------------------------------------------------
(* Steps of installing *)

\* Only one task moves, and only by its own locals.
LEMMA TaskMoves ==
    ASSUME TypeOK, NEW t \in Tasks, NEW r \in TaskType, task' = [task EXCEPT ![t] = r],
           batches' = batches
    PROVE  /\ task'[t] = r /\ \A u \in Tasks : u # t => task'[u] = task[u]
           /\ task' \in [Tasks -> TaskType]
BY DEF TypeOK, TaskType

\* What the type of a task gives for each of its fields.
LEMMA TaskFields ==
    ASSUME NEW r \in TaskType
    PROVE  /\ r.at \in Places /\ r.art \in Artifacts \cup {Nothing} /\ r.load \in BOOLEAN
           /\ r.batch \in 0..batches /\ r.todo \in Entries
BY DEF TaskType

LEMMA TasksTyped ==
    ASSUME TypeOK
    PROVE  /\ task \in [Tasks -> TaskType] /\ \A t \in Tasks : task[t] \in TaskType
           /\ batches \in Nat
BY DEF TypeOK, TaskType

\* The locals of a call that is over.
LEMMA IdleTyped ==
    ASSUME batches \in Nat
    PROVE  /\ Idle \in TaskType /\ Idle.at = "idle"
           /\ \A a \in Artifacts : Right(Idle.todo, a)
<1>1. NoEntries \in Entries
  BY DEF NoEntries, Entries
<1> QED
  BY <1>1 DEF Idle, TaskType, Places, Right, NoEntries

\* A call that only goes on to another place.
LEMMA GotoIs ==
    ASSUME TypeOK, NEW t \in Tasks, NEW place \in Places, Goto(t, place)
    PROVE  \E r \in TaskType :
              /\ task' = [task EXCEPT ![t] = r] /\ r.at = place
              /\ r.art = task[t].art /\ r.batch = task[t].batch /\ r.todo = task[t].todo
<1> DEFINE r == [task[t] EXCEPT !.at = place]
<1>1. task[t] \in TaskType
  BY TasksTyped
<1>2. r \in TaskType /\ r.at = place
  BY <1>1 DEF TaskType
<1>3. r.art = task[t].art /\ r.batch = task[t].batch /\ r.todo = task[t].todo
  BY <1>1 DEF TaskType
<1>4. task' = [task EXCEPT ![t] = r]
  BY DEF Goto
<1> HIDE DEF r
<1> QED
  BY <1>2, <1>3, <1>4

\* The types, when no library is loaded.
LEMMA TypeKept ==
    ASSUME IInv, SecretInv', file' \in Directories, installed' \in Entries, lockfile' \in Entries,
           UNCHANGED <<registry, batches>>, injected' \subseteq 1..batches, loaded' \subseteq injected',
           events' \subseteq Watchers \X Kinds, watching' \subseteq Watchers, task' \in [Tasks -> TaskType],
           calls' \in Nat, crossed' \subseteq Kinds
    PROVE  TypeOK'
BY DEF IInv, TypeOK, TaskType, SecretInv

\* A call that begins, ends, or goes on to load a file, and what it records.
LEMMA QuietMove ==
    ASSUME IInv, SecretInv', NEW t \in Tasks, NEW r \in TaskType, task' = [task EXCEPT ![t] = r],
           task[t].at \notin {"inject", "keep"},
           r.at \notin {"record", "check", "inject", "keep"},
           r.at \in {"download", "loadFile"} => r.art \in Artifacts,
           \A a \in Artifacts : KindOf[a] \notin crossed =>
               Right(r.todo, a) /\ Right(installed', a) /\ Right(lockfile', a),
           installed' \in Entries, lockfile' \in Entries, events' \subseteq events,
           watching' \subseteq Watchers, calls' \in Nat, UNCHANGED <<file, loadVars, crossed>>
    PROVE  IInv'
<1>1. /\ task'[t] = r /\ \A u \in Tasks : u # t => task'[u] = task[u]
      /\ task' \in [Tasks -> TaskType]
  BY TaskMoves DEF IInv, loadVars
<1>2. TypeOK'
  <2>1. /\ file' \in Directories /\ crossed' \subseteq Kinds /\ events' \subseteq Watchers \X Kinds
        /\ injected' \subseteq 1..batches /\ loaded' \subseteq injected'
    BY DEF IInv, TypeOK, loadVars
  <2> QED
    BY <1>1, <2>1, TypeKept DEF loadVars
<1>3. HostInv'
  <2> USE <1>1 DEF IInv, HostInv, loadVars
  <2>1. Places_Locals'
    BY DEF Places_Locals
  <2>2. EventFiles'
    BY DEF EventFiles
  <2>3. Batches'
    BY DEF Batches
  <2>4. Recorded'
    BY DEF Recorded
  <2>5. InFile'
    BY DEF InFile
  <2> QED
    BY <2>1, <2>2, <2>3, <2>4, <2>5
<1> QED
  BY <1>2, <1>3 DEF IInv

\* An artifact is written over the file of its kind, by a task that is not yet
\* installing it and goes on with r, or by somebody else.
LEMMA WriteKeeps ==
    ASSUME IInv, NEW t \in Tasks, NEW a \in Artifacts, NEW r \in TaskType,
           task' = [task EXCEPT ![t] = r], WriteFile(a),
           \/ r = task[t]
           \/ /\ task[t].at \in {"download", "fetch"} /\ r.at \in {"idle", "record", "check"}
              /\ r.at \in {"record", "check"} => r.art = a
              /\ r.at = "check" => r.todo[a] # Nothing,
           \A b \in Artifacts : KindOf[b] \notin crossed => Right(r.todo, b),
           UNCHANGED <<installed, lockfile, loadVars, watching>>
    PROVE  HostInv' /\ file' \in Directories /\ events' \subseteq Watchers \X Kinds /\ crossed' \subseteq Kinds
<1>1. /\ task'[t] = r /\ \A u \in Tasks : u # t => task'[u] = task[u]
  BY TaskMoves DEF IInv, loadVars
<1>2. /\ file' = [file EXCEPT ![KindOf[a]] = a] /\ KindOf[a] \in Kinds
      /\ events' \subseteq events \cup Watchers \X {KindOf[a]}
      /\ crossed \subseteq crossed' /\ crossed' \subseteq crossed \cup {KindOf[a]}
      /\ (\E u \in Tasks : Installing(u, KindOf[a])) => KindOf[a] \in crossed'
  BY HostAssumption DEF WriteFile, IInv, TypeOK
<1>3. file \in [Kinds -> Artifacts \cup {Nothing}]
  BY DEF IInv, TypeOK, Directories
<1>4. file' \in Directories
  BY <1>2 DEF IInv, TypeOK, Directories
<1>5. events' \subseteq Watchers \X Kinds /\ crossed' \subseteq Kinds
  BY <1>2 DEF IInv, TypeOK
<1> USE <1>1, <1>2, <1>3, HostAssumption DEF IInv, HostInv, loadVars
<1>6. Places_Locals'
  BY DEF Places_Locals
<1>7. EventFiles'
  BY DEF EventFiles, TypeOK
<1>8. Batches'
  BY DEF Batches
<1>9. Recorded'
  BY DEF Recorded, Right
<1>10. InFile'
  <2> SUFFICES ASSUME NEW u \in Tasks, task'[u].at \in {"record", "check"},
                      KindOf[task'[u].art] \notin crossed'
               PROVE  file'[KindOf[task'[u].art]] = task'[u].art
    BY DEF InFile
  <2>1. CASE u = t /\ r # task[t]
    BY <2>1
  <2>2. CASE task'[u] = task[u]
    <3>1. task[u].art \in Artifacts /\ KindOf[task[u].art] \in Kinds
      BY <2>2 DEF Places_Locals
    <3>2. KindOf[task[u].art] # KindOf[a]
      BY <2>2, <3>1 DEF Installing
    <3> QED
      BY <2>2, <3>1, <3>2 DEF InFile
  <2> QED
    BY <2>1, <2>2
<1> QED
  BY <1>4, <1>5, <1>6, <1>7, <1>8, <1>9, <1>10

LEMMA CallInstallKeeps ==
    ASSUME IInv, NEW c \in Callers, NEW a \in Artifacts, CallInstall(c, a)
    PROVE  IInv'
<1>1. PICK wanted \in BOOLEAN :
         task' = [task EXCEPT ![c] = [Idle EXCEPT !.at = "download", !.art = a, !.load = wanted]]
  BY DEF CallInstall
<1> DEFINE r == [Idle EXCEPT !.at = "download", !.art = a, !.load = wanted]
<1>2. Idle \in TaskType /\ \A b \in Artifacts : Right(Idle.todo, b)
  BY IdleTyped, TasksTyped DEF IInv
<1>3. r \in TaskType /\ r.at = "download" /\ r.art = a /\ r.todo = Idle.todo
  BY <1>2 DEF TaskType, Places
<1>4. SecretInv'
  BY SecretUntouched DEF IInv, CallInstall
<1>5. /\ c \in Tasks /\ task[c].at = "idle" /\ calls' \in Nat
      /\ UNCHANGED <<file, installed, lockfile, loadVars, events, watching, crossed>>
  BY DEF CallInstall, Enter, At, Tasks, IInv, TypeOK, diskVars, watchVars
<1>6. installed' \in Entries /\ lockfile' \in Entries /\ watching' \subseteq Watchers
  BY <1>5 DEF IInv, TypeOK
<1>7. \A b \in Artifacts : KindOf[b] \notin crossed => Right(installed', b) /\ Right(lockfile', b)
  BY <1>5 DEF IInv, HostInv, Recorded
<1> HIDE DEF r
<1>8. task' = [task EXCEPT ![c] = r]
  BY <1>1 DEF r
<1> QED
  BY <1>2, <1>3, <1>4, <1>5, <1>6, <1>7, <1>8, QuietMove

LEMMA InstallFromLockfileKeeps ==
    ASSUME IInv, NEW c \in Callers, CallInstallFromLockfile(c)
    PROVE  IInv'
<1>1. PICK wanted \in BOOLEAN :
         task' = [task EXCEPT ![c] = [Idle EXCEPT !.at = "fetch", !.todo = lockfile, !.load = wanted]]
  BY DEF CallInstallFromLockfile
<1> DEFINE r == [Idle EXCEPT !.at = "fetch", !.todo = lockfile, !.load = wanted]
<1>2. Idle \in TaskType /\ lockfile \in Entries
  BY IdleTyped, TasksTyped DEF IInv, TypeOK
<1>3. r \in TaskType /\ r.at = "fetch" /\ r.todo = lockfile
  BY <1>2 DEF TaskType, Places
<1>4. SecretInv'
  BY SecretUntouched DEF IInv, CallInstallFromLockfile
<1>5. /\ c \in Tasks /\ task[c].at = "idle" /\ calls' \in Nat
      /\ UNCHANGED <<file, installed, lockfile, loadVars, events, watching, crossed>>
  BY DEF CallInstallFromLockfile, Enter, At, Tasks, IInv, TypeOK, diskVars, watchVars
<1>6. installed' \in Entries /\ lockfile' \in Entries /\ watching' \subseteq Watchers
  BY <1>5 DEF IInv, TypeOK
<1>7. \A b \in Artifacts : KindOf[b] \notin crossed => Right(installed', b) /\ Right(lockfile', b)
  BY <1>5 DEF IInv, HostInv, Recorded
<1> HIDE DEF r
<1>8. task' = [task EXCEPT ![c] = r]
  BY <1>1 DEF r
<1>9. \A b \in Artifacts : KindOf[b] \notin crossed => Right(r.todo, b)
  BY <1>3 DEF IInv, HostInv, Recorded
<1> QED
  BY <1>3, <1>4, <1>5, <1>6, <1>7, <1>8, <1>9, QuietMove

\* After a write the types hold with the rest of the invariant.
LEMMA WriteStep ==
    ASSUME IInv, NEW t \in Tasks, NEW a \in Artifacts, NEW r \in TaskType,
           task' = [task EXCEPT ![t] = r], WriteFile(a),
           \/ r = task[t]
           \/ /\ task[t].at \in {"download", "fetch"} /\ r.at \in {"idle", "record", "check"}
              /\ r.at \in {"record", "check"} => r.art = a
              /\ r.at = "check" => r.todo[a] # Nothing,
           \A b \in Artifacts : KindOf[b] \notin crossed => Right(r.todo, b),
           UNCHANGED <<secretVars, installed, lockfile, loadVars, watching, calls>>
    PROVE  IInv'
<1>1. HostInv' /\ file' \in Directories /\ events' \subseteq Watchers \X Kinds /\ crossed' \subseteq Kinds
  BY WriteKeeps
<1>2. SecretInv'
  BY SecretUntouched DEF IInv
<1>3. task' \in [Tasks -> TaskType]
  BY TaskMoves DEF IInv, loadVars
<1>4. /\ installed' \in Entries /\ lockfile' \in Entries /\ watching' \subseteq Watchers /\ calls' \in Nat
      /\ injected' \subseteq 1..batches /\ loaded' \subseteq injected'
      /\ UNCHANGED <<registry, batches>>
  BY DEF IInv, TypeOK, loadVars
<1>5. TypeOK'
  BY <1>1, <1>2, <1>3, <1>4, TypeKept
<1> QED
  BY <1>1, <1>2, <1>5 DEF IInv

\* A call that ends.
LEMMA ReturnKeeps ==
    ASSUME IInv, SecretInv', NEW t \in Tasks, Return(t), task[t].at \notin {"inject", "keep"},
           UNCHANGED <<file, installed, lockfile, loadVars, events, watching, crossed, calls>>
    PROVE  IInv'
<1>1. /\ Idle \in TaskType /\ Idle.at = "idle" /\ \A a \in Artifacts : Right(Idle.todo, a)
      /\ task' = [task EXCEPT ![t] = Idle]
  BY IdleTyped, TasksTyped DEF IInv, Return
<1>2. /\ installed' \in Entries /\ lockfile' \in Entries /\ watching' \subseteq Watchers /\ calls' \in Nat
      /\ events' \subseteq events
  BY DEF IInv, TypeOK
<1>3. \A b \in Artifacts : KindOf[b] \notin crossed => Right(installed', b) /\ Right(lockfile', b)
  BY DEF IInv, HostInv, Recorded
<1> QED
  BY <1>1, <1>2, <1>3, QuietMove

\* A call that has got nothing of its lockfile wrong goes on with it.
LEMMA TodoRight ==
    ASSUME IInv, NEW t \in Tasks, NEW a \in Artifacts, KindOf[a] \notin crossed
    PROVE  Right(task[t].todo, a)
BY DEF IInv, HostInv, Recorded

LEMMA DownloadKeeps ==
    ASSUME IInv, NEW c \in Callers, Download(c)
    PROVE  IInv'
<1>1. /\ c \in Tasks /\ task[c].at = "download" /\ task[c].art \in Artifacts
      /\ UNCHANGED <<secretVars, installed, lockfile, loadVars, watching, calls>>
  BY DEF Download, At, Tasks, IInv, HostInv, Places_Locals
<1>2. CASE WriteFile(task[c].art) /\ Goto(c, "record")
  <2>1. PICK r \in TaskType : /\ task' = [task EXCEPT ![c] = r] /\ r.at = "record"
                              /\ r.art = task[c].art /\ r.todo = task[c].todo
    <3>1. "record" \in Places
      BY DEF Places
    <3> QED
      BY <1>1, <1>2, <3>1, GotoIs DEF IInv
  <2> QED
    BY <1>1, <1>2, <2>1, TodoRight, WriteStep
<1>3. CASE WriteFile(task[c].art) /\ Return(c)
  <2>1. /\ Idle \in TaskType /\ Idle.at = "idle" /\ \A a \in Artifacts : Right(Idle.todo, a)
        /\ task' = [task EXCEPT ![c] = Idle]
    BY <1>3, IdleTyped, TasksTyped DEF IInv, Return
  <2> QED
    BY <1>1, <1>3, <2>1, WriteStep
<1>4. CASE Return(c) /\ UNCHANGED <<file, events, crossed>>
  <2>1. SecretInv'
    BY <1>1, SecretUntouched DEF IInv
  <2> QED
    BY <1>1, <1>4, <2>1, ReturnKeeps
<1> QED
  BY <1>2, <1>3, <1>4 DEF Download

LEMMA RecordInstallKeeps ==
    ASSUME IInv, NEW c \in Callers, RecordInstall(c)
    PROVE  IInv'
<1> DEFINE a == task[c].art
<1>0. PICK hash \in {file[KindOf[a]], NoHash} : installed' = [installed EXCEPT ![a] = hash]
  BY DEF RecordInstall
<1>1. /\ c \in Tasks /\ task[c].at = "record" /\ a \in Artifacts
      /\ UNCHANGED <<secretVars, file, lockfile, loadVars, events, watching, calls, crossed>>
  BY DEF RecordInstall, At, Tasks, IInv, HostInv, Places_Locals, watchVars
<1>2. hash \in Artifacts \cup {Nothing, NoHash} /\ installed \in Entries
  BY <1>1, HostAssumption DEF IInv, TypeOK, Directories
<1>3. /\ installed' \in Entries /\ lockfile' \in Entries /\ watching' \subseteq Watchers /\ calls' \in Nat
      /\ events' \subseteq events
  BY <1>0, <1>1, <1>2 DEF IInv, TypeOK, Entries
<1>4. KindOf[a] \notin crossed => file[KindOf[a]] = a
  BY <1>1 DEF IInv, HostInv, InFile
<1>5. \A b \in Artifacts : KindOf[b] \notin crossed => Right(installed', b) /\ Right(lockfile', b)
  <2> SUFFICES ASSUME NEW b \in Artifacts, KindOf[b] \notin crossed
               PROVE  Right(installed', b) /\ Right(lockfile', b)
    OBVIOUS
  <2>1. Right(installed, b) /\ Right(lockfile, b)
    BY DEF IInv, HostInv, Recorded
  <2>2. installed'[b] = IF b = a THEN hash ELSE installed[b]
    BY <1>0, <1>2 DEF Entries
  <2> QED
    BY <1>1, <1>4, <2>1, <2>2 DEF Right
<1>6. SecretInv'
  BY <1>1, SecretUntouched DEF IInv
<1>7. CASE task[c].load
  <2>1. PICK r \in TaskType : /\ task' = [task EXCEPT ![c] = r] /\ r.at = "loadFile"
                              /\ r.art = task[c].art /\ r.todo = task[c].todo
    <3>1. "loadFile" \in Places /\ Goto(c, "loadFile")
      BY <1>7 DEF Places, RecordInstall
    <3> QED
      BY <1>1, <3>1, GotoIs DEF IInv
  <2> QED
    BY <1>1, <1>3, <1>5, <1>6, <2>1, TodoRight, QuietMove
<1>8. CASE ~task[c].load
  <2>1. /\ Idle \in TaskType /\ Idle.at = "idle" /\ \A b \in Artifacts : Right(Idle.todo, b)
        /\ task' = [task EXCEPT ![c] = Idle]
    BY <1>8, IdleTyped, TasksTyped DEF IInv, Return, RecordInstall
  <2> QED
    BY <1>1, <1>3, <1>5, <1>6, <2>1, QuietMove
<1> QED
  BY <1>7, <1>8

LEMMA FetchKeeps ==
    ASSUME IInv, NEW c \in Callers, Fetch(c)
    PROVE  IInv'
<1>1. /\ c \in Tasks /\ task[c].at = "fetch" /\ task[c] \in TaskType
      /\ UNCHANGED <<secretVars, installed, lockfile, loadVars, watching, calls>>
  BY TasksTyped DEF Fetch, At, Tasks, IInv
<1>2. ASSUME NEW a \in Pinned(task[c].todo), WriteFile(a),
             task' = [task EXCEPT ![c].at = "check", ![c].art = a]
      PROVE  IInv'
  <2> DEFINE r == [task[c] EXCEPT !.at = "check", !.art = a]
  <2>1. a \in Artifacts /\ task[c].todo[a] # Nothing
    BY DEF Pinned
  <2>2. r \in TaskType /\ r.at = "check" /\ r.art = a /\ r.todo = task[c].todo
    BY <1>1, <2>1 DEF TaskType, Places
  <2>3. task' = [task EXCEPT ![c] = r]
    BY <1>1, <1>2, TasksTyped DEF IInv
  <2> HIDE DEF r
  <2>4. r.todo[a] # Nothing /\ \A b \in Artifacts : KindOf[b] \notin crossed => Right(r.todo, b)
    BY <1>1, <2>1, <2>2, TodoRight
  <2>5. /\ task[c].at \in {"download", "fetch"} /\ r.at \in {"idle", "record", "check"}
        /\ r.at \in {"record", "check"} => r.art = a
        /\ r.at = "check" => r.todo[a] # Nothing
    BY <1>1, <2>2, <2>4
  <2>6. WriteFile(a)
    BY <1>2
  <2> QED
    BY <1>1, <2>1, <2>2, <2>3, <2>4, <2>5, <2>6, WriteStep
<1>3. CASE Return(c) /\ UNCHANGED <<file, events, crossed>>
  <2>1. SecretInv'
    BY <1>1, SecretUntouched DEF IInv
  <2> QED
    BY <1>1, <1>3, <2>1, ReturnKeeps
<1> QED
  BY <1>2, <1>3 DEF Fetch

\* A call goes on with a lockfile of which nothing is wrong, or ends.
LEMMA ContinueIs ==
    ASSUME TypeOK, NEW t \in Tasks, NEW todo \in Entries, Continue(t, todo),
           \A a \in Artifacts : KindOf[a] \notin crossed => Right(todo, a)
    PROVE  \E r \in TaskType :
              /\ task' = [task EXCEPT ![t] = r] /\ r.at \in {"idle", "fetch"}
              /\ \A a \in Artifacts : KindOf[a] \notin crossed => Right(r.todo, a)
<1>1. CASE Pinned(todo) = {}
  <2>1. task' = [task EXCEPT ![t] = Idle]
    BY <1>1 DEF Continue, Return
  <2> QED
    BY <2>1, IdleTyped, TasksTyped
<1>2. CASE Pinned(todo) # {}
  <2> DEFINE r == [task[t] EXCEPT !.at = "fetch", !.art = Nothing, !.batch = 0, !.todo = todo]
  <2>1. task[t] \in TaskType /\ batches \in Nat
    BY TasksTyped
  <2>2. /\ "fetch" \in Places /\ Nothing \in Artifacts \cup {Nothing} /\ 0 \in 0..batches
        /\ todo \in Entries
    BY <2>1 DEF Places
  <2>3. r \in TaskType /\ r.at = "fetch" /\ r.todo = todo
    BY <2>1, <2>2, Zenon DEF TaskType
  <2>4. task' = [task EXCEPT ![t] = r]
    BY <1>2 DEF Continue
  <2> HIDE DEF r
  <2> QED
    BY <2>3, <2>4
<1> QED
  BY <1>1, <1>2

LEMMA CheckHashKeeps ==
    ASSUME IInv, NEW c \in Callers, CheckHash(c)
    PROVE  IInv'
<1> DEFINE a == task[c].art
           rest == [task[c].todo EXCEPT ![a] = Nothing]
<1>1. /\ c \in Tasks /\ task[c].at = "check" /\ a \in Artifacts /\ task[c] \in TaskType
      /\ UNCHANGED <<secretVars, file, installed, lockfile, loadVars, events, watching, calls,
                     crossed>>
  BY TasksTyped DEF CheckHash, At, Tasks, IInv, HostInv, Places_Locals, diskVars, watchVars
<1>2. rest \in Entries /\ \A b \in Artifacts : KindOf[b] \notin crossed => Right(rest, b)
  <2>1. task[c].todo \in Entries
    BY <1>1, TaskFields
  <2>2. \A b \in Artifacts : KindOf[b] \notin crossed => Right(task[c].todo, b)
    BY <1>1, TodoRight
  <2> QED
    BY <2>1, <2>2 DEF Entries, Right
<1>3. SecretInv'
  BY <1>1, SecretUntouched DEF IInv
<1>4. /\ installed' \in Entries /\ lockfile' \in Entries /\ watching' \subseteq Watchers /\ calls' \in Nat
      /\ events' \subseteq events
      /\ \A b \in Artifacts : KindOf[b] \notin crossed => Right(installed', b) /\ Right(lockfile', b)
  BY <1>1 DEF IInv, TypeOK, HostInv, Recorded
<1>5. CASE Return(c)
  BY <1>1, <1>3, <1>5, ReturnKeeps
<1>6. CASE task' = [task EXCEPT ![c].at = "loadFile", ![c].todo = rest]
  <2> DEFINE r == [task[c] EXCEPT !.at = "loadFile", !.todo = rest]
  <2> HIDE DEF rest
  <2>1. r \in TaskType /\ r.at = "loadFile" /\ r.art = a /\ r.todo = rest
    BY <1>1, <1>2 DEF TaskType, Places
  <2>2. task' = [task EXCEPT ![c] = r]
    BY <1>1, <1>6, TasksTyped DEF IInv
  <2> HIDE DEF r
  <2> QED
    BY <1>1, <1>2, <1>3, <1>4, <2>1, <2>2, QuietMove
<1>7. CASE Continue(c, rest)
  <2> HIDE DEF rest
  <2>1. PICK r \in TaskType : /\ task' = [task EXCEPT ![c] = r] /\ r.at \in {"idle", "fetch"}
                              /\ \A b \in Artifacts : KindOf[b] \notin crossed => Right(r.todo, b)
    BY <1>1, <1>2, <1>7, ContinueIs DEF IInv
  <2> QED
    BY <1>1, <1>3, <1>4, <2>1, QuietMove
<1> QED
  BY <1>5, <1>6, <1>7 DEF CheckHash

\* A step after which every task is where it was.
LEMMA NobodyMoves ==
    ASSUME IInv, SecretInv', NEW t \in Tasks, task[t].at = "idle", UNCHANGED task,
           UNCHANGED <<file, installed, loadVars, events, crossed>>,
           lockfile' \in {lockfile, installed}, watching' \subseteq Watchers, calls' \in Nat
    PROVE  IInv'
<1>1. task[t] \in TaskType /\ task' = [task EXCEPT ![t] = task[t]]
  BY TasksTyped DEF IInv
<1>2. installed' \in Entries /\ lockfile' \in Entries /\ events' \subseteq events
  BY DEF IInv, TypeOK
<1>3. \A b \in Artifacts : KindOf[b] \notin crossed => Right(installed', b) /\ Right(lockfile', b)
  BY DEF IInv, HostInv, Recorded, Right
<1> QED
  BY <1>1, <1>2, <1>3, TodoRight, QuietMove

\* Entering an operation.
LEMMA Entered ==
    ASSUME IInv, NEW c \in Callers, Enter(c)
    PROVE  c \in Tasks /\ task[c].at = "idle" /\ calls' \in Nat
BY DEF Enter, At, Tasks, IInv, TypeOK

LEMMA WriteLockfileKeeps ==
    ASSUME IInv, NEW c \in Callers, WriteLockfile(c)
    PROVE  IInv'
<1>1. SecretInv'
  BY SecretUntouched DEF IInv, WriteLockfile
<1>2. /\ lockfile' \in {lockfile, installed} /\ UNCHANGED task
      /\ UNCHANGED <<file, installed, loadVars, events, watching, crossed>>
  BY DEF WriteLockfile, watchVars
<1> QED
  BY <1>1, <1>2, Entered, NobodyMoves DEF WriteLockfile, IInv, TypeOK

LEMMA WatchPluginsKeeps ==
    ASSUME IInv, NEW c \in Callers, WatchPlugins(c)
    PROVE  IInv'
<1>1. SecretInv'
  BY SecretUntouched DEF IInv, WatchPlugins
<1>2. /\ lockfile' \in {lockfile, installed} /\ UNCHANGED task /\ watching' \subseteq Watchers
      /\ UNCHANGED <<file, installed, loadVars, events, crossed>>
  BY DEF WatchPlugins, diskVars, IInv, TypeOK
<1> QED
  BY <1>1, <1>2, Entered, NobodyMoves DEF WatchPlugins

LEMMA CreateComponentKeeps ==
    ASSUME IInv, NEW c \in Callers, NEW k \in Kinds, CreateComponent(c, k)
    PROVE  IInv'
<1>1. SecretInv'
  <2>1. CASE \E n \in Names : Lookup(c, n)
    BY <2>1, LookupKeeps, HostAssumption DEF IInv
  <2>2. CASE UNCHANGED secretVars
    BY <2>2, SecretUntouched DEF IInv
  <2> QED
    BY <2>1, <2>2 DEF CreateComponent
<1>2. /\ lockfile' \in {lockfile, installed} /\ UNCHANGED task /\ watching' \subseteq Watchers
      /\ UNCHANGED <<file, installed, loadVars, events, crossed>>
  BY DEF CreateComponent, diskVars, watchVars, IInv, TypeOK
<1> QED
  BY <1>1, <1>2, Entered, NobodyMoves DEF CreateComponent

\* The secrets alone change.
LEMMA HostUntouched ==
    ASSUME IInv, SecretInv', UNCHANGED hostVars
    PROVE  IInv'
<1>1. UNCHANGED <<file, installed, lockfile, registry, injected, loaded, batches, events, watching,
                  task, calls, crossed>>
  BY DEF hostVars, diskVars, loadVars, watchVars, taskVars
<1>2. TypeOK'
  BY <1>1 DEF IInv, TypeOK, SecretInv
<1>3. HostInv'
  BY <1>1 DEF IInv, HostInv, Places_Locals, EventFiles, Batches, Recorded, InFile, Right
<1> QED
  BY <1>2, <1>3 DEF IInv

LEMMA CopyInKeeps ==
    ASSUME IInv, NEW a \in Artifacts, CopyIn(a)
    PROVE  IInv'
<1>1. PICK w \in Tasks : task[w] \in TaskType /\ task' = [task EXCEPT ![w] = task[w]]
  BY TasksTyped DEF IInv, TypeOK, Tasks, CopyIn
<1> QED
  BY <1>1, TodoRight, WriteStep DEF CopyIn

LEMMA TakeEventKeeps ==
    ASSUME IInv, NEW w \in Watchers, NEW k \in Kinds, TakeEvent(w, k)
    PROVE  IInv'
<1> DEFINE r == [task[w] EXCEPT !.at = "loadFile", !.art = file[k]]
<1>1. /\ w \in Tasks /\ task[w].at = "idle" /\ task[w] \in TaskType
      /\ UNCHANGED <<secretVars, file, installed, lockfile, loadVars, watching, calls, crossed>>
  BY TasksTyped DEF TakeEvent, At, Tasks, IInv, diskVars
<1>2. file[k] \in Artifacts
  BY DEF TakeEvent, IInv, TypeOK, Directories, HostInv, EventFiles
<1>3. r \in TaskType /\ r.at = "loadFile" /\ r.art \in Artifacts /\ r.todo = task[w].todo
  BY <1>1, <1>2 DEF TaskType, Places
<1>4. task' = [task EXCEPT ![w] = r]
  BY <1>1, TasksTyped DEF IInv, TakeEvent
<1>5. SecretInv'
  BY <1>1, SecretUntouched DEF IInv
<1>6. /\ installed' \in Entries /\ lockfile' \in Entries /\ watching' \subseteq Watchers /\ calls' \in Nat
      /\ events' \subseteq events
      /\ \A b \in Artifacts : KindOf[b] \notin crossed => Right(installed', b) /\ Right(lockfile', b)
  BY <1>1 DEF IInv, TypeOK, HostInv, Recorded, TakeEvent
<1> HIDE DEF r
<1> QED
  BY <1>1, <1>3, <1>4, <1>5, <1>6, TodoRight, QuietMove

LEMMA CallUseSecretStoreKeeps ==
    ASSUME IInv, NEW c \in Callers, CallUseSecretStore(c)
    PROVE  IInv'
<1>1. c \in Tasks /\ task[c].at = "idle" /\ calls' \in Nat
  BY Entered DEF CallUseSecretStore
<1>2. PICK r \in TaskType : task' = [task EXCEPT ![c] = r] /\ r.at = "select" /\ r.todo = task[c].todo
  <2>1. "select" \in Places /\ Goto(c, "select")
    BY DEF Places, CallUseSecretStore
  <2> QED
    BY <1>1, <2>1, GotoIs DEF IInv
<1>3. SecretInv'
  BY SecretUntouched DEF IInv, CallUseSecretStore
<1>4. /\ installed' \in Entries /\ lockfile' \in Entries /\ watching' \subseteq Watchers
      /\ events' \subseteq events /\ UNCHANGED <<file, loadVars, crossed>>
      /\ \A b \in Artifacts : KindOf[b] \notin crossed => Right(installed', b) /\ Right(lockfile', b)
  BY DEF IInv, TypeOK, HostInv, Recorded, CallUseSecretStore, diskVars, watchVars
<1> QED
  BY <1>1, <1>2, <1>3, <1>4, TodoRight, QuietMove

LEMMA UseSecretStoreKeeps ==
    ASSUME IInv, NEW c \in Callers, UseSecretStore(c)
    PROVE  IInv'
<1>1. SecretInv'
  BY StoreKeeps, SecretUntouched DEF IInv, UseSecretStore
<1>2. /\ c \in Tasks /\ task[c].at = "select" /\ Return(c)
      /\ UNCHANGED <<file, installed, lockfile, loadVars, events, watching, crossed, calls>>
  BY DEF UseSecretStore, At, Tasks, diskVars, watchVars
<1> QED
  BY <1>1, <1>2, ReturnKeeps

-----------------------------------------------------------------------------
(* Steps of loading *)

\* A new batch is registered by a task that keeps no other.
LEMMA RegisterKeeps ==
    ASSUME IInv, NEW t \in Tasks, task[t].at \in {"idle", "loadFile"},
           NEW kinds, Register(t, kinds), calls' \in Nat,
           UNCHANGED <<secretVars, diskVars, injected, loaded, watchVars, crossed>>
    PROVE  IInv'
<1> DEFINE b == batches + 1
           r == [task[t] EXCEPT !.at = "inject", !.batch = b]
           WiderType == [at : Places, art : Artifacts \cup {Nothing}, load : BOOLEAN, batch : 0..b,
                         todo : Entries]
<1>1. /\ batches \in Nat /\ batches' = b /\ b \in Nat /\ 0..batches \subseteq 0..b
      /\ 1..batches \subseteq 1..b /\ b \in 0..b
      /\ \A n \in 1..b : n \in 1..batches \/ n = b
  BY DEF Register, IInv, TypeOK
<1>2. \A u \in Tasks : task[u] \in TaskType
  BY TasksTyped DEF IInv
<1>3. \A u \in Tasks : task[u] \in WiderType
  BY <1>1, <1>2 DEF TaskType
<1>4. "inject" \in Places
  BY DEF Places
<1>5. /\ r \in WiderType /\ r.at = "inject" /\ r.batch = b /\ r.todo = task[t].todo
  BY <1>1, <1>3, <1>4, Zenon
<1>6. task' = [task EXCEPT ![t] = r]
  BY TasksTyped DEF IInv, Register
<1> HIDE DEF r, WiderType
<1>7. /\ task'[t] = r /\ \A u \in Tasks : u # t => task'[u] = task[u]
      /\ task' \in [Tasks -> WiderType]
  BY <1>3, <1>5, <1>6, TasksTyped DEF IInv
<1>8. UNCHANGED <<file, installed, lockfile, injected, loaded, events, watching, crossed>>
  BY DEF diskVars, watchVars
<1>9. SecretInv'
  BY SecretUntouched DEF IInv
<1>10. TypeOK'
  <2>1. registry' \in [Kinds -> 0..b]
    BY <1>1 DEF Register, IInv, TypeOK
  <2>2. task' \in [Tasks -> [at : Places, art : Artifacts \cup {Nothing}, load : BOOLEAN,
                           batch : 0..batches', todo : Entries]]
    BY <1>1, <1>7 DEF WiderType
  <2>3. injected' \subseteq 1..b /\ loaded' \subseteq injected'
    BY <1>1, <1>8 DEF IInv, TypeOK
  <2> QED
    BY <1>1, <1>8, <1>9, <2>1, <2>2, <2>3 DEF IInv, TypeOK, SecretInv
<1>11. HostInv'
  <2> HIDE DEF b
  <2> USE <1>5, <1>7, <1>8 DEF IInv, HostInv
  <2>1. Places_Locals'
    <3>1. b # 0
      BY <1>1 DEF b
    <3> QED
      BY <3>1 DEF Places_Locals
  <2>2. EventFiles'
    BY DEF EventFiles
  <2>3. Batches'
    <3> SUFFICES ASSUME NEW n \in 1..b
                 PROVE  \/ n \in loaded'
                        \/ \E u \in Tasks : task'[u].at \in {"inject", "keep"} /\ task'[u].batch = n
      BY <1>1 DEF Batches
    <3>1. CASE n = b
      BY <3>1
    <3>2. CASE n \in 1..batches
      BY <3>2 DEF Batches
    <3> QED
      BY <1>1, <3>1, <3>2
  <2>4. Recorded'
    BY DEF Recorded, Right
  <2>5. InFile'
    BY DEF InFile
  <2> QED
    BY <2>1, <2>2, <2>3, <2>4, <2>5
<1> QED
  BY <1>9, <1>10, <1>11 DEF IInv

LEMMA LoadPluginsKeeps ==
    ASSUME IInv, NEW c \in Callers, LoadPlugins(c)
    PROVE  IInv'
BY Entered, RegisterKeeps DEF LoadPlugins

LEMMA LoadFileKeeps ==
    ASSUME IInv, NEW t \in Tasks, LoadFile(t)
    PROVE  IInv'
<1>1. /\ task[t].at = "loadFile" /\ calls' \in Nat
      /\ UNCHANGED <<secretVars, diskVars, injected, loaded, watchVars, calls, crossed>>
  BY DEF LoadFile, At, IInv, TypeOK
<1>2. CASE Register(t, {KindOf[task[t].art]})
  BY <1>1, <1>2, RegisterKeeps
<1>3. CASE Return(t) /\ UNCHANGED <<registry, batches>>
  <2>1. SecretInv'
    BY <1>1, SecretUntouched DEF IInv
  <2>2. UNCHANGED <<file, installed, lockfile, loadVars, events, watching, crossed, calls>>
    BY <1>1, <1>3 DEF diskVars, loadVars, watchVars
  <2> QED
    BY <1>1, <1>3, <2>1, <2>2, ReturnKeeps
<1> QED
  BY <1>2, <1>3 DEF LoadFile

LEMMA InjectResolverKeeps ==
    ASSUME IInv, NEW t \in Tasks, InjectResolver(t)
    PROVE  IInv'
<1>1. /\ task[t].at = "inject" /\ task[t].batch # 0 /\ task[t].batch \in 1..batches
      /\ injected' = injected \cup {task[t].batch}
      /\ UNCHANGED <<secretVars, file, installed, lockfile, registry, loaded, batches, events,
                     watching, calls, crossed>>
  <2>1. task[t].at = "inject" /\ task[t].batch # 0
    BY DEF InjectResolver, At, IInv, HostInv, Places_Locals
  <2>2. task[t].batch \in 0..batches /\ batches \in Nat
    BY TasksTyped, TaskFields DEF IInv
  <2> QED
    BY <2>1, <2>2 DEF InjectResolver, diskVars, watchVars
<1>2. PICK r \in TaskType : /\ task' = [task EXCEPT ![t] = r] /\ r.at = "keep"
                            /\ r.art = task[t].art /\ r.batch = task[t].batch
                            /\ r.todo = task[t].todo
  <2>1. "keep" \in Places /\ Goto(t, "keep")
    BY DEF Places, InjectResolver
  <2> QED
    BY <2>1, GotoIs DEF IInv
<1>3. /\ task'[t] = r /\ \A u \in Tasks : u # t => task'[u] = task[u]
      /\ task' \in [Tasks -> TaskType]
  BY <1>1, <1>2, TaskMoves DEF IInv
<1>4. SecretInv'
  BY <1>1, SecretUntouched DEF IInv
<1>5. TypeOK'
  BY <1>1, <1>3, <1>4, TypeKept DEF IInv, TypeOK
<1>6. HostInv'
  <2> USE <1>1, <1>2, <1>3 DEF IInv, HostInv
  <2>1. Places_Locals'
    BY DEF Places_Locals
  <2>2. EventFiles'
    BY DEF EventFiles
  <2>3. Batches'
    BY DEF Batches
  <2>4. Recorded'
    BY DEF Recorded, Right
  <2>5. InFile'
    BY DEF InFile
  <2> QED
    BY <2>1, <2>2, <2>3, <2>4, <2>5
<1> QED
  BY <1>4, <1>5, <1>6 DEF IInv

LEMMA KeepLoadedKeeps ==
    ASSUME IInv, NEW t \in Tasks, KeepLoaded(t)
    PROVE  IInv'
<1>1. /\ task[t].at = "keep" /\ task[t].batch \in injected /\ task[t].todo \in Entries
      /\ loaded' = loaded \cup {task[t].batch}
      /\ UNCHANGED <<secretVars, file, installed, lockfile, registry, injected, batches, events,
                     watching, calls, crossed>>
  <2>1. task[t].at = "keep" /\ task[t].batch \in injected
    BY DEF KeepLoaded, At, IInv, HostInv, Places_Locals
  <2>2. task[t].todo \in Entries
    BY TasksTyped, TaskFields DEF IInv
  <2> QED
    BY <2>1, <2>2 DEF KeepLoaded, diskVars, watchVars
<1>2. PICK r \in TaskType : /\ task' = [task EXCEPT ![t] = r] /\ r.at \in {"idle", "fetch"}
                            /\ \A a \in Artifacts : KindOf[a] \notin crossed => Right(r.todo, a)
  <2>1. Continue(t, task[t].todo)
    BY DEF KeepLoaded
  <2> QED
    BY <1>1, <2>1, TodoRight, ContinueIs DEF IInv
<1>3. /\ task'[t] = r /\ \A u \in Tasks : u # t => task'[u] = task[u]
      /\ task' \in [Tasks -> TaskType]
  BY <1>1, <1>2, TaskMoves DEF IInv
<1>4. SecretInv'
  BY <1>1, SecretUntouched DEF IInv
<1>5. TypeOK'
  BY <1>1, <1>3, <1>4, TypeKept DEF IInv, TypeOK
<1>6. HostInv'
  <2> USE <1>1, <1>2, <1>3 DEF IInv, HostInv
  <2>1. Places_Locals'
    BY DEF Places_Locals
  <2>2. EventFiles'
    BY DEF EventFiles
  <2>3. Batches'
    BY DEF Batches
  <2>4. Recorded'
    BY DEF Recorded, Right
  <2>5. InFile'
    BY DEF InFile
  <2> QED
    BY <2>1, <2>2, <2>3, <2>4, <2>5
<1> QED
  BY <1>4, <1>5, <1>6 DEF IInv

-----------------------------------------------------------------------------
(* Every step *)

LEMMA StutterKeeps ==
    ASSUME IInv, UNCHANGED vars
    PROVE  IInv'
BY SecretUntouched, HostUntouched DEF vars, IInv

LEMMA StepKeeps ==
    ASSUME IInv, [Next]_vars
    PROVE  IInv'
<1>1. ASSUME NEW c \in Callers, NEW a \in Artifacts, CallInstall(c, a)
      PROVE  IInv'
  BY <1>1, CallInstallKeeps
<1>2. ASSUME NEW c \in Callers,
             \/ CallInstallFromLockfile(c) \/ Download(c) \/ RecordInstall(c)
             \/ Fetch(c) \/ CheckHash(c) \/ WriteLockfile(c)
             \/ LoadPlugins(c) \/ WatchPlugins(c) \/ CallUseSecretStore(c) \/ UseSecretStore(c)
      PROVE  IInv'
  BY <1>2, InstallFromLockfileKeeps, DownloadKeeps, RecordInstallKeeps, FetchKeeps, CheckHashKeeps,
     WriteLockfileKeeps, LoadPluginsKeeps, WatchPluginsKeeps, CallUseSecretStoreKeeps,
     UseSecretStoreKeeps
<1>3. ASSUME NEW t \in Tasks, Load(t)
      PROVE  IInv'
  BY <1>3, LoadFileKeeps, InjectResolverKeeps, KeepLoadedKeeps DEF Load
<1>4. ASSUME NEW a \in Artifacts, CopyIn(a)
      PROVE  IInv'
  BY <1>4, CopyInKeeps
<1>5. ASSUME NEW w \in Watchers, NEW k \in Kinds, TakeEvent(w, k)
      PROVE  IInv'
  BY <1>5, TakeEventKeeps
<1>6. ASSUME NEW c \in Callers, NEW k \in Kinds, CreateComponent(c, k)
      PROVE  IInv'
  BY <1>6, CreateComponentKeeps
<1>7. ASSUME NEW r \in Resolvers, Resolve(r) \/ \E n \in Names : Reconnect(r, n)
      PROVE  IInv'
  <2>1. SecretInv' /\ UNCHANGED hostVars
    BY <1>7, ResolveKeeps, LookupKeeps DEF IInv, Resolve, Reconnect
  <2> QED
    BY <2>1, HostUntouched
<1> QED
  BY <1>1, <1>2, <1>3, <1>4, <1>5, <1>6, <1>7, StutterKeeps DEF Next

LEMMA Invariant == Spec => []IInv
<1>1. IInv /\ [Next]_vars => IInv'
  BY StepKeeps
<1> QED
  BY Initially, <1>1, PTL DEF Spec

-----------------------------------------------------------------------------
(* Theorems *)

\* Type correctness of the plugin host and the secret resolver (plugins.rs,
\* secrets.rs).
THEOREM TypeCorrect == Spec => []TypeOK
<1>1. IInv => TypeOK
  BY DEF IInv
<1> QED
  BY Invariant, <1>1, PTL

\* A registered kind whose loading call is past register has its library alive
\* and the resolver in it, whatever was installed and loaded since
\* (PluginHost::loaded, register of plugins.rs).
THEOREM KindsAreReady == Spec => []RegisteredIsReady
<1>1. IInv => RegisteredIsReady
  <2> SUFFICES ASSUME IInv, NEW k \in Kinds, registry[k] # 0,
                      \A t \in Tasks : task[t].batch # registry[k]
               PROVE  registry[k] \in loaded \cap injected
    BY DEF RegisteredIsReady
  <2>1. registry[k] \in 1..batches
    BY DEF IInv, TypeOK
  <2>2. registry[k] \in loaded
    BY <2>1 DEF IInv, HostInv, Batches
  <2> QED
    BY <2>2 DEF IInv, TypeOK
<1> QED
  BY Invariant, <1>1, PTL

\* A secret has one value, unless a new store overtook a resolve of it
\* (ConfigResolverContext::secret, set_secret_store).
THEOREM SecretsAgree == Spec => []AnswersAgree
<1>1. IInv => AnswersAgree
  <2> SUFFICES ASSUME IInv, NEW n \in Names \ raced
               PROVE  /\ Cardinality(answers[n]) <= 1
                      /\ n \in Configured => answers[n] \subseteq {Own}
    BY DEF AnswersAgree
  <2>1. answers[n] \subseteq IF cache[n] = NoValue THEN {} ELSE {cache[n]}
    BY DEF IInv, SecretInv, Cached
  <2>2. answers[n] = {} \/ answers[n] = {cache[n]}
    BY <2>1
  <2>3. Cardinality({}) = 0 /\ Cardinality({cache[n]}) = 1
    BY FS_EmptySet, FS_Singleton
  <2>4. Cardinality(answers[n]) <= 1
    BY <2>2, <2>3
  <2>5. n \in Configured => cache[n] = Own
    BY DEF IInv, SecretInv, Given
  <2> QED
    BY <2>2, <2>4, <2>5
<1> QED
  BY Invariant, <1>1, PTL

\* What was pinned with a hash passes the hash check, unless its file was written
\* over while it was being installed (record_install, install_from_lockfile).
THEOREM PinnedCanBeReinstalled == Spec => ReinstallAccepted
<1>1. IInv /\ [Next]_vars =>
        [\A c \in Callers :
            LET a == task[c].art IN
            CheckHash(c) /\ KindOf[a] \notin crossed =>
                task[c].todo[a] \in {NoHash, file[KindOf[a]]}]_vars
  <2> SUFFICES ASSUME IInv, NEW c \in Callers, CheckHash(c), KindOf[task[c].art] \notin crossed
               PROVE  task[c].todo[task[c].art] \in {NoHash, file[KindOf[task[c].art]]}
    OBVIOUS
  <2> DEFINE a == task[c].art
  <2>1. /\ c \in Tasks /\ task[c].at = "check" /\ a \in Artifacts /\ task[c].todo[a] # Nothing
    BY DEF CheckHash, At, Tasks, IInv, HostInv, Places_Locals
  <2>2. file[KindOf[a]] = a
    BY <2>1 DEF IInv, HostInv, InFile
  <2>3. Right(task[c].todo, a)
    BY <2>1, TodoRight
  <2> QED
    BY <2>1, <2>2, <2>3 DEF Right
<1> QED
  BY Invariant, <1>1, PTL DEF Spec, ReinstallAccepted
=============================================================================
