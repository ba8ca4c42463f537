------------------------- MODULE SourceRegistryProofs -------------------------
(***************************************************************************)
(* The two records of a source agree, and a push reaches the registered    *)
(* source, for any number of callers, ids and calls.                       *)
(*                                                                         *)
(* RecordsAgree speaks of settled ids only, so it says nothing of the two  *)
(* awaits of add_source and remove_source.  The inductive invariant adds   *)
(* what the records look like half-way (HalfWay), that an id that never    *)
(* clashed has one configuring call at most (Alone), and that the id of an *)
(* undisturbed push is settled (PushAlone).                                *)
(***************************************************************************)
EXTENDS SourceRegistry, TLAPS

Sound(i) == i \in Ids /\ i \notin clashed

Between(c, i) == target[c] = i /\ pc[c] \in {"insert", "forget"}

\* Of a C# source both records know; without one the entry may be left over
\* from a source that a plugin source has replaced.
Agree(i) ==
    /\ core[i] \in Nat => sources[i] = core[i]
    /\ core[i] \notin Nat /\ i \notin replaced => sources[i] = Absent

Alone ==
    \A c, d \in Callers, i \in Ids :
        i \notin clashed /\ Configuring(c, i) /\ Configuring(d, i) => c = d

HalfWay ==
    \A i \in Ids : Sound(i) =>
        /\ (\A c \in Callers : ~Between(c, i)) => Agree(i)
        /\ \A c \in Callers : Between(c, i) =>
              /\ pc[c] = "insert" => core[i] = inst[c]
              /\ pc[c] = "forget" => core[i] = Absent

PushAlone ==
    \A c \in Callers, i \in Ids :
        c \notin disturbed /\ Pushing(c, i) =>
            /\ Settled(i)
            /\ pc[c] = "push" /\ Sound(i) /\ i \notin replaced => core[i] = inst[c]

IInv == TypeOK /\ Alone /\ HalfWay /\ PushAlone

-----------------------------------------------------------------------------
(* Type correctness *)

LEMMA InitType == ASSUME Init PROVE TypeOK
  BY RegistryAssumption DEF Init, TypeOK, PCs

LEMMA StepType == ASSUME TypeOK, [Next]_vars PROVE TypeOK'
<1> USE RegistryAssumption DEF TypeOK, PCs
<1>1. ASSUME NEW c \in Callers, NEW i \in Ids, CallConfigure(c, i) PROVE TypeOK'
  BY <1>1 DEF CallConfigure, Enter, ConfigureOps, records
<1>2. ASSUME NEW c \in Callers, NEW i \in Ids, CallPush(c, i) PROVE TypeOK'
  BY <1>2 DEF CallPush, Enter, records
<1>3. ASSUME Shutdown PROVE TypeOK'
  BY <1>3 DEF Shutdown, records
<1>4. ASSUME NEW c \in Callers, AddToCore(c) PROVE TypeOK'
  BY <1>4 DEF AddToCore, Return
<1>5. ASSUME NEW c \in Callers, InsertSource(c) PROVE TypeOK'
  BY <1>5 DEF InsertSource, Return
<1>6. ASSUME NEW c \in Callers, RemoveFromCore(c) PROVE TypeOK'
  BY <1>6 DEF RemoveFromCore, Return
<1>7. ASSUME NEW c \in Callers, ForgetSource(c) PROVE TypeOK'
  BY <1>7 DEF ForgetSource, Return
<1>8. ASSUME NEW c \in Callers, AddPluginSource(c) PROVE TypeOK'
  BY <1>8 DEF AddPluginSource, Return
<1>9. ASSUME NEW c \in Callers, UpdatePluginSource(c) PROVE TypeOK'
  BY <1>9 DEF UpdatePluginSource, Return
<1>10. ASSUME NEW c \in Callers, FindSource(c) PROVE TypeOK'
  <2>1. sources[target[c]] \in Nat \cup {Absent}
    BY <1>10 DEF FindSource
  <2>2. inst' \in [Callers -> Nat]
    BY <1>10, <2>1 DEF FindSource
  <2> QED
    BY <1>10, <2>2 DEF FindSource, Return, records
<1>11. ASSUME NEW c \in Callers, PushInto(c) PROVE TypeOK'
  BY <1>11 DEF PushInto, Return, records
<1>12. CASE UNCHANGED vars
  BY <1>12 DEF vars
<1> QED
  BY <1>1, <1>2, <1>3, <1>4, <1>5, <1>6, <1>7, <1>8, <1>9, <1>10, <1>11, <1>12 DEF Next, Step

\* Type correctness of the registry, for every value of the constants.
THEOREM TypeCorrect == Spec => []TypeOK
<1>1. Init => TypeOK
  BY InitType
<1>2. TypeOK /\ [Next]_vars => TypeOK'
  BY StepType
<1> QED
  BY <1>1, <1>2, PTL DEF Spec

-----------------------------------------------------------------------------
(* The invariant *)

LEMMA InitInv == ASSUME Init PROVE Alone /\ HalfWay /\ PushAlone
  BY RegistryAssumption DEF Init, Alone, HalfWay, PushAlone, Agree, Sound, Between,
     Configuring, Pushing

\* Calls begin: the records stay as they are.
LEMMA ConfigureKeeps ==
    ASSUME IInv, NEW c \in Callers, NEW i \in Ids, CallConfigure(c, i)
    PROVE  Alone' /\ HalfWay' /\ PushAlone'
<1> USE DEF IInv, TypeOK, PCs, records
<1>1. PICK op \in ConfigureOps : Enter(c, op, i)
  BY DEF CallConfigure
<1>2. /\ pc[c] = "idle" /\ pc'[c] \in ConfigureOps /\ target'[c] = i
      /\ \A d \in Callers : d # c => pc'[d] = pc[d] /\ target'[d] = target[d]
  BY <1>1 DEF Enter
<1>3. /\ UNCHANGED <<core, sources, inst, replaced>>
      /\ clashed \subseteq clashed'
      /\ i \notin clashed' => \A d \in Callers : ~Configuring(d, i)
      /\ disturbed' = disturbed \cup {d \in Callers : Pushing(d, i)}
  BY DEF CallConfigure
<1>4. \A d \in Callers, j \in Ids : Between(d, j)' <=> Between(d, j)
  BY <1>2 DEF Between, ConfigureOps
<1>5. \A d \in Callers, j \in Ids :
         Configuring(d, j)' <=> Configuring(d, j) \/ (d = c /\ j = i)
  BY <1>2 DEF Configuring, ConfigureOps
<1>6. \A d \in Callers, j \in Ids : Pushing(d, j)' <=> Pushing(d, j)
  BY <1>2 DEF Pushing, ConfigureOps
<1>7. Alone'
  BY <1>3, <1>5 DEF Alone
<1>8. HalfWay'
  <2> SUFFICES ASSUME NEW j \in Ids, Sound(j)'
               PROVE  /\ (\A d \in Callers : ~Between(d, j)') => Agree(j)'
                      /\ \A d \in Callers : Between(d, j)' =>
                            /\ pc'[d] = "insert" => core'[j] = inst'[d]
                            /\ pc'[d] = "forget" => core'[j] = Absent
    BY DEF HalfWay
  <2>1. Sound(j)
    BY <1>3 DEF Sound
  <2>2. Agree(j)' <=> Agree(j)
    BY <1>3 DEF Agree
  <2>3. ASSUME NEW d \in Callers, Between(d, j)'
        PROVE  /\ pc'[d] = "insert" => core'[j] = inst'[d]
               /\ pc'[d] = "forget" => core'[j] = Absent
    <3>1. Between(d, j) /\ d # c
      BY <2>3, <1>4, <1>2 DEF Between
    <3> QED
      BY <3>1, <2>1, <1>2, <1>3 DEF HalfWay
  <2> QED
    BY <2>1, <2>2, <2>3, <1>4 DEF HalfWay
<1>9. PushAlone'
  <2> SUFFICES ASSUME NEW d \in Callers, NEW j \in Ids, d \notin disturbed', Pushing(d, j)'
               PROVE  /\ Settled(j)'
                      /\ pc'[d] = "push" /\ Sound(j)' /\ j \notin replaced' => core'[j] = inst'[d]
    BY DEF PushAlone
  <2>1. d \notin disturbed /\ Pushing(d, j) /\ j # i /\ d # c
    BY <1>2, <1>3, <1>6 DEF Pushing
  <2>2. Settled(j)'
    BY <2>1, <1>5 DEF PushAlone, Settled
  <2>3. Sound(j)' => Sound(j)
    BY <1>3 DEF Sound
  <2> QED
    BY <2>1, <2>2, <2>3, <1>2, <1>3 DEF PushAlone
<1> QED
  BY <1>7, <1>8, <1>9

LEMMA PushKeeps ==
    ASSUME IInv, NEW c \in Callers, NEW i \in Ids, CallPush(c, i)
    PROVE  Alone' /\ HalfWay' /\ PushAlone'
<1> USE DEF IInv, TypeOK, PCs, records
<1>1. /\ pc[c] = "idle" /\ pc'[c] = "look" /\ target'[c] = i
      /\ \A d \in Callers : d # c => pc'[d] = pc[d] /\ target'[d] = target[d]
      /\ UNCHANGED <<core, sources, inst, clashed, replaced>>
  BY DEF CallPush, Enter
<1>2. /\ \A d \in Callers : d # c => (d \in disturbed' <=> d \in disturbed)
      /\ c \notin disturbed' => Settled(i)
  BY DEF CallPush, Settled
<1>3. \A d \in Callers, j \in Ids :
         (Between(d, j)' <=> Between(d, j)) /\ (Configuring(d, j)' <=> Configuring(d, j))
  BY <1>1 DEF Between, Configuring
<1>4. \A j \in Ids : (Sound(j)' <=> Sound(j)) /\ (Settled(j)' <=> Settled(j))
  BY <1>1, <1>3 DEF Sound, Settled
<1>5. Alone'
  BY <1>1, <1>3 DEF Alone
<1>6. HalfWay'
  <2>1. \A j \in Ids : Agree(j)' <=> Agree(j)
    BY <1>1 DEF Agree
  <2>2. \A d \in Callers, j \in Ids : Between(d, j)' => d # c
    BY <1>1 DEF Between
  <2> QED
    BY <1>1, <1>3, <1>4, <2>1, <2>2 DEF HalfWay
<1>7. PushAlone'
  BY <1>1, <1>2, <1>4 DEF PushAlone, Pushing
<1> QED
  BY <1>5, <1>6, <1>7

\* A step of a call that configures an undisputed id is nobody else's business.
LEMMA OwnStep ==
    ASSUME IInv, NEW c \in Callers, NEW i \in Ids, Configuring(c, i), i \notin clashed
    PROVE  /\ \A d \in Callers : Configuring(d, i) => d = c
           /\ \A d \in Callers : Between(d, i) => d = c
           /\ \A d \in Callers : Pushing(d, i) => d \in disturbed
<1>1. \A d \in Callers : Configuring(d, i) => d = c
  BY DEF IInv, Alone
<1>2. \A d \in Callers : Between(d, i) => Configuring(d, i)
  BY DEF Between, Configuring
<1> QED
  BY <1>1, <1>2 DEF IInv, PushAlone, Settled

\* What a step by c of a call that configures i must show: the record of i is
\* as it should be at c's new place.  Everything else is out of its reach.
LEMMA ConfigureStep ==
    ASSUME IInv, NEW c \in Callers, NEW i \in Ids, Configuring(c, i),
           target' = target, clashed' = clashed, disturbed' = disturbed,
           replaced \subseteq replaced',
           \A j \in Ids : j # i => (j \in replaced' <=> j \in replaced),
           \A d \in Callers : d # c => pc'[d] = pc[d] /\ inst'[d] = inst[d],
           pc'[c] \in {"insert", "forget", "idle"},
           \A j \in Ids : j # i => core'[j] = core[j] /\ sources'[j] = sources[j],
           Sound(i)' => /\ pc'[c] = "insert" => core'[i] = inst'[c]
                        /\ pc'[c] = "forget" => core'[i] = Absent
                        /\ pc'[c] = "idle" => Agree(i)'
    PROVE  Alone' /\ HalfWay' /\ PushAlone'
<1>1. \A d \in Callers, j \in Ids : Configuring(d, j)' => Configuring(d, j)
  <2>1. target[c] = i
    BY DEF Configuring
  <2> QED
    BY <2>1 DEF Configuring
<1>2. \A d \in Callers, j \in Ids : Pushing(d, j)' => Pushing(d, j) /\ d # c
  BY DEF Pushing
<1>3. \A j \in Ids : Sound(j)' => Sound(j)
  BY DEF Sound
<1>4. target[c] = i
  BY DEF Configuring
<1>5. Alone'
  BY <1>1 DEF IInv, Alone
<1>6. HalfWay'
  <2> SUFFICES ASSUME NEW j \in Ids, Sound(j)'
               PROVE  /\ (\A d \in Callers : ~Between(d, j)') => Agree(j)'
                      /\ \A d \in Callers : Between(d, j)' =>
                            /\ pc'[d] = "insert" => core'[j] = inst'[d]
                            /\ pc'[d] = "forget" => core'[j] = Absent
    BY DEF HalfWay
  <2>1. CASE j = i
    <3>1. \A d \in Callers : Between(d, i)' => d = c
      BY <2>1, <1>3, OwnStep DEF Between, Sound
    <3>2. ~Between(c, i)' => pc'[c] = "idle"
      BY <1>4 DEF Between
    <3> QED
      BY <2>1, <3>1, <3>2
  <2>2. CASE j # i
    <3>1. \A d \in Callers : Between(d, j)' <=> Between(d, j)
      BY <2>2, <1>4 DEF Between
    <3>2. \A d \in Callers : Between(d, j) => d # c
      BY <2>2, <1>4 DEF Between
    <3>3. Agree(j)' <=> Agree(j)
      BY <2>2 DEF Agree
    <3> QED
      BY <2>2, <1>3, <3>1, <3>2, <3>3 DEF IInv, HalfWay
  <2> QED
    BY <2>1, <2>2
<1>7. PushAlone'
  <2> SUFFICES ASSUME NEW d \in Callers, NEW j \in Ids, d \notin disturbed', Pushing(d, j)'
               PROVE  /\ Settled(j)'
                      /\ pc'[d] = "push" /\ Sound(j)' /\ j \notin replaced' => core'[j] = inst'[d]
    BY DEF PushAlone
  <2>1. Pushing(d, j) /\ d # c /\ d \notin disturbed
    BY <1>2
  <2>2. Settled(j)
    BY <2>1 DEF IInv, PushAlone
  <2>3. j # i
    BY <2>2 DEF Settled
  <2>4. Settled(j)'
    BY <2>2, <1>1 DEF Settled
  <2> QED
    BY <2>1, <2>3, <2>4, <1>3 DEF IInv, PushAlone
<1> QED
  BY <1>5, <1>6, <1>7

\* Before its last step a configuring call finds the records of its id in
\* agreement, or as its own first step left them.
LEMMA OwnRecord ==
    ASSUME IInv, NEW c \in Callers, NEW i \in Ids, Configuring(c, i), Sound(i)
    PROVE  /\ pc[c] \notin {"insert", "forget"} => Agree(i)
           /\ pc[c] = "insert" => core[i] = inst[c]
           /\ pc[c] = "forget" => core[i] = Absent
<1>1. \A d \in Callers : Between(d, i) => d = c
  BY OwnStep DEF Sound
<1>2. target[c] = i
  BY DEF Configuring
<1> QED
  BY <1>1, <1>2 DEF IInv, HalfWay, Between

LEMMA StepKeeps ==
    ASSUME IInv, NEW c \in Callers, Step(c)
    PROVE  Alone' /\ HalfWay' /\ PushAlone'
<1> SUFFICES ASSUME NEW i \in Ids, target[c] = i
             PROVE  Alone' /\ HalfWay' /\ PushAlone'
  BY DEF IInv, TypeOK, Step, AddToCore, InsertSource, RemoveFromCore, ForgetSource,
     AddPluginSource, UpdatePluginSource, FindSource, PushInto
<1> USE RegistryAssumption DEF IInv, TypeOK, PCs
<1>1. CASE AddToCore(c)
  <2>1. i \in Ids /\ Configuring(c, i) /\ pc[c] = "add"
    BY <1>1 DEF AddToCore, Configuring
  <2>2. UNCHANGED <<target, clashed, disturbed, replaced, sources>>
    BY <1>1 DEF AddToCore
  <2>3. \A d \in Callers : d # c => pc'[d] = pc[d] /\ inst'[d] = inst[d]
    BY <1>1 DEF AddToCore, Return
  <2>4. \A j \in Ids : j # i => core'[j] = core[j]
    BY <1>1 DEF AddToCore
  <2>5. \/ pc'[c] = "insert" /\ core'[i] = inst'[c]
        \/ pc'[c] = "idle" /\ core' = core
    BY <1>1, <2>1 DEF AddToCore, Return
  <2>6. Sound(i)' => Sound(i)
    BY <2>2 DEF Sound
  <2>7. Sound(i)' => Agree(i)
    BY <2>1, <2>6, OwnRecord
  <2>8. Agree(i) /\ core' = core => Agree(i)'
    BY <2>1, <2>2 DEF Agree
  <2> QED
    BY <2>1, <2>2, <2>3, <2>4, <2>5, <2>7, <2>8, ConfigureStep
<1>2. CASE InsertSource(c)
  <2>1. i \in Ids /\ Configuring(c, i) /\ pc[c] = "insert"
    BY <1>2 DEF InsertSource, Configuring
  <2>2. UNCHANGED <<target, clashed, disturbed, replaced, core, inst>>
    BY <1>2 DEF InsertSource
  <2>3. /\ pc'[c] = "idle" /\ sources'[i] = inst[c]
        /\ \A d \in Callers : d # c => pc'[d] = pc[d]
        /\ \A j \in Ids : j # i => sources'[j] = sources[j]
    BY <1>2, <2>1 DEF InsertSource, Return
  <2>4. Sound(i)' => core[i] = inst[c]
    BY <2>1, <2>2, OwnRecord DEF Sound
  <2>5. Sound(i)' => Agree(i)'
    BY <2>2, <2>3, <2>4 DEF Agree
  <2> QED
    BY <2>1, <2>2, <2>3, <2>5, ConfigureStep
<1>3. CASE RemoveFromCore(c)
  <2>1. i \in Ids /\ Configuring(c, i) /\ pc[c] = "remove"
    BY <1>3 DEF RemoveFromCore, Configuring
  <2>2. UNCHANGED <<target, clashed, disturbed, replaced, sources, inst>>
    BY <1>3 DEF RemoveFromCore
  <2>3. /\ \A d \in Callers : d # c => pc'[d] = pc[d]
        /\ \A j \in Ids : j # i => core'[j] = core[j]
    BY <1>3 DEF RemoveFromCore, Return
  <2>4. \/ pc'[c] = "forget" /\ core'[i] = Absent
        \/ pc'[c] = "idle" /\ core' = core
    BY <1>3, <2>1 DEF RemoveFromCore, Return
  <2>5. Sound(i)' => Agree(i)
    BY <2>1, <2>2, OwnRecord DEF Sound
  <2>6. Agree(i) /\ core' = core => Agree(i)'
    BY <2>1, <2>2 DEF Agree
  <2> QED
    BY <2>1, <2>2, <2>3, <2>4, <2>5, <2>6, ConfigureStep
<1>4. CASE ForgetSource(c)
  <2>1. i \in Ids /\ Configuring(c, i) /\ pc[c] = "forget"
    BY <1>4 DEF ForgetSource, Configuring
  <2>2. UNCHANGED <<target, clashed, disturbed, replaced, core, inst>>
    BY <1>4 DEF ForgetSource
  <2>3. /\ pc'[c] = "idle" /\ sources'[i] = Absent
        /\ \A d \in Callers : d # c => pc'[d] = pc[d]
        /\ \A j \in Ids : j # i => sources'[j] = sources[j]
    BY <1>4, <2>1 DEF ForgetSource, Return
  <2>4. Sound(i)' => core[i] = Absent
    BY <2>1, <2>2, OwnRecord DEF Sound
  <2>5. Sound(i)' => Agree(i)'
    BY <2>2, <2>3, <2>4 DEF Agree
  <2> QED
    BY <2>1, <2>2, <2>3, <2>5, ConfigureStep
<1>5. CASE AddPluginSource(c)
  <2>1. i \in Ids /\ Configuring(c, i) /\ pc[c] = "plug"
    BY <1>5 DEF AddPluginSource, Configuring
  <2>2. UNCHANGED <<target, clashed, disturbed, replaced, sources, inst>>
    BY <1>5 DEF AddPluginSource
  <2>3. /\ pc'[c] = "idle"
        /\ \A d \in Callers : d # c => pc'[d] = pc[d]
        /\ \A j \in Ids : j # i => core'[j] = core[j]
    BY <1>5, <2>1 DEF AddPluginSource, Return
  <2>4. (core[i] = Absent /\ core'[i] = Plugin) \/ core'[i] = core[i]
    BY <1>5, <2>1 DEF AddPluginSource
  <2>5. Sound(i)' => Agree(i)
    BY <2>1, <2>2, OwnRecord DEF Sound
  <2>6. Sound(i)' => Agree(i)'
    BY <2>2, <2>4, <2>5 DEF Agree
  <2> QED
    BY <2>1, <2>2, <2>3, <2>6, ConfigureStep
<1>6. CASE UpdatePluginSource(c)
  <2>1. i \in Ids /\ Configuring(c, i) /\ pc[c] = "update"
    BY <1>6 DEF UpdatePluginSource, Configuring
  <2>2. UNCHANGED <<target, clashed, disturbed, sources, inst>>
    BY <1>6 DEF UpdatePluginSource
  <2>3. /\ pc'[c] = "idle"
        /\ \A d \in Callers : d # c => pc'[d] = pc[d]
        /\ \A j \in Ids : j # i => core'[j] = core[j]
        /\ replaced \subseteq replaced'
        /\ \A j \in Ids : j # i => (j \in replaced' <=> j \in replaced)
    BY <1>6, <2>1 DEF UpdatePluginSource, Return
  <2>4. (core'[i] = Plugin /\ i \in replaced') \/ core'[i] = core[i]
    BY <1>6, <2>1 DEF UpdatePluginSource
  <2>5. Sound(i)' => Sound(i)
    BY <2>2, <2>3 DEF Sound
  <2>6. Sound(i)' => Agree(i)
    BY <2>1, <2>5, OwnRecord
  <2>7. Sound(i)' => Agree(i)'
    <3>1. Plugin \notin Nat /\ (i \in replaced => i \in replaced')
      BY <2>3
    <3> QED
      BY <2>2, <2>4, <2>6, <3>1 DEF Agree
  <2> QED
    BY <2>1, <2>2, <2>3, <2>7, ConfigureStep
<1>7. CASE FindSource(c)
  <2>1. i \in Ids /\ Pushing(c, i) /\ pc[c] = "look"
    BY <1>7 DEF FindSource, Pushing
  <2>2. /\ UNCHANGED <<target, clashed, disturbed, replaced, core, sources>>
        /\ \A d \in Callers : d # c => pc'[d] = pc[d] /\ inst'[d] = inst[d]
        /\ pc'[c] \in {"idle", "push"}
    BY <1>7 DEF FindSource, Return, records
  <2>3. pc'[c] = "push" => inst'[c] = sources[i] /\ sources[i] # Absent
    BY <1>7 DEF FindSource, Return
  <2>4. c \notin disturbed /\ Sound(i) => Agree(i)
    <3>1. c \notin disturbed => Settled(i)
      BY <2>1 DEF PushAlone
    <3>2. Settled(i) => \A d \in Callers : ~Between(d, i)
      BY DEF Settled, Configuring, Between
    <3> QED
      BY <3>1, <3>2 DEF HalfWay, Sound
  <2>5. c \notin disturbed /\ Sound(i) /\ i \notin replaced /\ pc'[c] = "push" => core[i] = inst'[c]
    BY <2>3, <2>4 DEF Agree
  <2>6. \A d \in Callers, j \in Ids :
           (Between(d, j)' <=> Between(d, j)) /\ (Configuring(d, j)' <=> Configuring(d, j))
    BY <2>1, <2>2 DEF Between, Configuring
  <2>7. \A j \in Ids : /\ Sound(j)' <=> Sound(j)
                       /\ Settled(j)' <=> Settled(j)
                       /\ Agree(j)' <=> Agree(j)
    BY <2>2, <2>6 DEF Sound, Settled, Agree
  <2>8. Alone'
    BY <2>2, <2>6 DEF Alone
  <2>9. HalfWay'
    <3>1. \A d \in Callers, j \in Ids : Between(d, j) => d # c
      BY <2>1 DEF Between
    <3> QED
      BY <2>2, <2>6, <2>7, <3>1 DEF HalfWay
  <2>10. PushAlone'
    <3> SUFFICES ASSUME NEW d \in Callers, NEW j \in Ids, d \notin disturbed', Pushing(d, j)'
                 PROVE  /\ Settled(j)'
                        /\ pc'[d] = "push" /\ Sound(j)' /\ j \notin replaced' => core'[j] = inst'[d]
      BY DEF PushAlone
    <3>1. Pushing(d, j)
      BY <2>1, <2>2 DEF Pushing
    <3>2. CASE d = c
      <4>1. j = i
        BY <3>1, <3>2 DEF Pushing
      <4> QED
        BY <2>2, <2>5, <2>7, <3>1, <3>2, <4>1 DEF PushAlone
    <3>3. CASE d # c
      BY <2>2, <2>7, <3>1, <3>3 DEF PushAlone
    <3> QED
      BY <3>2, <3>3
  <2> QED
    BY <2>8, <2>9, <2>10
<1>8. CASE PushInto(c)
  <2>1. /\ UNCHANGED <<target, inst, clashed, disturbed, replaced, core, sources>>
        /\ \A d \in Callers : d # c => pc'[d] = pc[d]
        /\ pc[c] = "push" /\ pc'[c] = "idle"
    BY <1>8 DEF PushInto, Return, records
  <2>2. \A d \in Callers, j \in Ids :
           /\ Between(d, j)' <=> Between(d, j)
           /\ Configuring(d, j)' <=> Configuring(d, j)
           /\ Pushing(d, j)' => Pushing(d, j) /\ d # c
    BY <2>1 DEF Between, Configuring, Pushing
  <2>3. \A j \in Ids : /\ Sound(j)' <=> Sound(j)
                       /\ Settled(j)' <=> Settled(j)
                       /\ Agree(j)' <=> Agree(j)
    BY <2>1, <2>2 DEF Sound, Settled, Agree
  <2>4. \A d \in Callers, j \in Ids : Between(d, j) => d # c
    BY <2>1 DEF Between
  <2> QED
    BY <2>1, <2>2, <2>3, <2>4 DEF Alone, HalfWay, PushAlone
<1> QED
  BY <1>1, <1>2, <1>3, <1>4, <1>5, <1>6, <1>7, <1>8 DEF Step

LEMMA Inductive == ASSUME IInv, [Next]_vars PROVE IInv'
<1>1. TypeOK'
  BY StepType DEF IInv
<1>2. ASSUME NEW c \in Callers, NEW i \in Ids, CallConfigure(c, i) \/ CallPush(c, i)
      PROVE  Alone' /\ HalfWay' /\ PushAlone'
  BY <1>2, ConfigureKeeps, PushKeeps
<1>3. ASSUME NEW c \in Callers, Step(c) PROVE Alone' /\ HalfWay' /\ PushAlone'
  BY <1>3, StepKeeps
<1>4. CASE Shutdown \/ UNCHANGED vars
  <2>1. UNCHANGED <<core, sources, pc, target, inst, clashed, replaced, disturbed>>
    BY <1>4 DEF Shutdown, vars, records
  <2>2. Alone'
    BY <2>1 DEF IInv, Alone, Configuring
  <2>3. HalfWay'
    BY <2>1 DEF IInv, HalfWay, Sound, Agree, Between
  <2>4. PushAlone'
    BY <2>1 DEF IInv, PushAlone, Sound, Settled, Configuring, Pushing
  <2> QED
    BY <1>1, <2>2, <2>3, <2>4 DEF IInv
<1> QED
  BY <1>1, <1>2, <1>3, <1>4 DEF IInv, Next

LEMMA Safe == ASSUME IInv PROVE RecordsAgree /\ PushReachesRegistered
<1>1. RecordsAgree
  <2> SUFFICES ASSUME NEW i \in Ids, i \notin clashed, i \notin replaced, Settled(i)
               PROVE  sources[i] = (IF core[i] = Plugin THEN Absent ELSE core[i])
    BY DEF RecordsAgree
  <2>1. \A c \in Callers : ~Between(c, i)
    BY DEF Settled, Configuring, Between
  <2>2. Agree(i)
    BY <2>1 DEF IInv, HalfWay, Sound
  <2>3. core[i] \in Nat \/ core[i] = Absent \/ core[i] = Plugin
    BY DEF IInv, TypeOK
  <2> QED
    BY <2>2, <2>3, RegistryAssumption DEF Agree
<1>2. PushReachesRegistered
  BY DEF IInv, TypeOK, PushAlone, PushReachesRegistered, Sound, Pushing
<1> QED
  BY <1>1, <1>2

LEMMA InvariantHolds == Spec => []IInv
<1>1. Init => IInv
  BY InitType, InitInv DEF IInv
<1>2. IInv /\ [Next]_vars => IInv'
  BY Inductive
<1> QED
  BY <1>1, <1>2, PTL DEF Spec

\* EngineInner::sources and drasi-lib's registry agree on every settled id
\* (add_source, remove_source), for every value of the constants.
THEOREM RegistryAgrees == Spec => []RecordsAgree
<1>1. IInv => RecordsAgree
  BY Safe
<1> QED
  BY <1>1, InvariantHolds, PTL

\* push_change feeds the registered source, for every value of the constants.
THEOREM PushReachesSource == Spec => []PushReachesRegistered
<1>1. IInv => PushReachesRegistered
  BY Safe
<1> QED
  BY <1>1, InvariantHolds, PTL

\* push_change refuses an undisputed id only if no C# source is registered
\* under it, for every value of the constants.
THEOREM RefusalIsRight == Spec => RefusedOnlyIfAbsent
<1>1. ASSUME IInv, NEW c \in Callers \ disturbed,
             FindSource(c), pc'[c] = "idle", target[c] \notin clashed
      PROVE  core[target[c]] \in {Absent, Plugin}
  <2>1. target[c] \in Ids /\ Pushing(c, target[c]) /\ pc[c] = "look"
    BY <1>1 DEF FindSource, IInv, TypeOK, Pushing
  <2>2. \A d \in Callers : ~Between(d, target[c])
    BY <1>1, <2>1 DEF IInv, PushAlone, Settled, Configuring, Between
  <2>3. Agree(target[c])
    BY <1>1, <2>1, <2>2 DEF IInv, HalfWay, Sound
  <2>4. pc'[c] # "push"
    BY <1>1
  <2>5. sources[target[c]] = Absent
    BY <1>1, <2>1, <2>4 DEF FindSource, IInv, TypeOK
  <2>6. core[target[c]] \in Nat \/ core[target[c]] \in {Absent, Plugin}
    BY <1>1, <2>1 DEF IInv, TypeOK
  <2> QED
    BY <2>3, <2>5, <2>6, RegistryAssumption DEF Agree
<1>2. IInv => \A c \in Callers \ disturbed :
                  FindSource(c) /\ pc'[c] = "idle" /\ target[c] \notin clashed =>
                      core[target[c]] \in {Absent, Plugin}
  BY <1>1
<1> QED
  BY <1>2, InvariantHolds, PTL DEF RefusedOnlyIfAbsent
===============================================================================
