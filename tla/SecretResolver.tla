---------------------------- MODULE SecretResolver ----------------------------
(***************************************************************************)
(* How the host answers a plugin that asks for a secret: the secrets given *)
(* to Create first, then what was cached, then the secret store, whose     *)
(* worker thread the asking thread waits for with the store's read lock    *)
(* held.  set_secret_store replaces the store under the write lock.        *)
(*                                                                         *)
(* A value is known by where it comes from: Own, from Create, or the       *)
(* number of the store that answered.                                      *)
(***************************************************************************)
EXTENDS Naturals, FiniteSets

CONSTANTS Resolvers,    \* threads of plugins that resolve references
          Names,        \* names of secrets
          Configured,   \* names whose secret was given to Create
          Own, NoValue,
          MaxStores     \* bound of the model on the stores installed

ASSUME ResolverAssumption ==
    /\ Configured \subseteq Names /\ MaxStores \in Nat
    /\ Own \notin Nat /\ NoValue \notin Nat /\ Own # NoValue

VARIABLES
    cache,      \* ConfigResolverContext::secrets: [Names -> value or NoValue]
    store,      \* ConfigResolverContext::store: number of the store, 0 for none
    resolve,    \* [Resolvers -> its call of ConfigResolverContext::secret]
    (* history *)
    answers,    \* [Names -> the values that were returned]
    raced       \* names a resolve of which a new store overtook

secretVars == <<cache, store, resolve, answers, raced>>

NoResolve == [at |-> "idle", name |-> NoValue, asked |-> 0]

SecretTypeOK ==
    /\ cache \in [Names -> Nat \cup {Own, NoValue}]
    /\ store \in Nat
    /\ resolve \in [Resolvers -> [at : {"idle", "ask", "wait", "insert"},
                                  name : Names \cup {NoValue}, asked : 0..store]]
    /\ \A r \in Resolvers : resolve[r].at # "idle" => resolve[r].name \in Names \ Configured
    /\ answers \in [Names -> SUBSET (Nat \cup {Own})]
    /\ raced \subseteq Names

SecretInit ==
    /\ cache = [n \in Names |-> IF n \in Configured THEN Own ELSE NoValue]
    /\ store = 0
    /\ resolve = [r \in Resolvers |-> NoResolve]
    /\ answers = [n \in Names |-> {}]
    /\ raced = {}

Answered(n, v) == answers' = [answers EXCEPT ![n] = @ \cup {v}]

-----------------------------------------------------------------------------
(* ConfigResolverContext::secret *)

\* A value in the map is the answer; without one the store is asked.
Lookup(r, n) ==
    /\ resolve[r].at = "idle"
    /\ \/ cache[n] # NoValue /\ Answered(n, cache[n]) /\ UNCHANGED resolve
       \/ /\ cache[n] = NoValue /\ UNCHANGED answers
          /\ resolve' = [resolve EXCEPT ![r] = [at |-> "ask", name |-> n, asked |-> 0]]
    /\ UNCHANGED <<cache, store, raced>>

\* The read lock is taken here and kept until the worker has replied.
AskStore(r) ==
    /\ resolve[r].at = "ask"
    /\ resolve' = [resolve EXCEPT ![r] = IF store = 0 THEN NoResolve
                                         ELSE [@ EXCEPT !.at = "wait", !.asked = store]]
    /\ UNCHANGED <<cache, store, answers, raced>>

\* The worker has the secret, or it has not or fails and the resolve ends.
StoreReplies(r) ==
    /\ resolve[r].at = "wait"
    /\ \E next \in {NoResolve, [resolve[r] EXCEPT !.at = "insert"]} :
          resolve' = [resolve EXCEPT ![r] = next]
    /\ UNCHANGED <<cache, store, answers, raced>>

\* Mutant: the answer is returned and not kept.
CacheAnswer_NotKept(r) ==
    /\ resolve[r].at = "insert"
    /\ Answered(resolve[r].name, resolve[r].asked)
    /\ resolve' = [resolve EXCEPT ![r] = NoResolve]
    /\ UNCHANGED <<cache, store, raced>>

CacheAnswer(r) ==
    /\ resolve[r].at = "insert"
    /\ cache' = [cache EXCEPT ![resolve[r].name] = resolve[r].asked]
    /\ Answered(resolve[r].name, resolve[r].asked)
    /\ resolve' = [resolve EXCEPT ![r] = NoResolve]
    /\ UNCHANGED <<store, raced>>

ResolveStep(r) == AskStore(r) \/ StoreReplies(r) \/ CacheAnswer(r)

-----------------------------------------------------------------------------

\* The write lock waits for every resolve that waits for the old worker.
SetSecretStore ==
    /\ \A r \in Resolvers : resolve[r].at # "wait"
    /\ store < MaxStores
    /\ store' = store + 1
    /\ raced' = raced \cup {resolve[r].name : r \in {r \in Resolvers : resolve[r].at # "idle"}}
    /\ UNCHANGED <<cache, resolve, answers>>

-----------------------------------------------------------------------------

\* A secret has one value for the life of the engine, whichever thread asks and
\* whichever store is selected by then, unless a new store overtook a resolve
\* of that secret; one given to Create always has that value.
AnswersAgree ==
    \A n \in Names \ raced :
        /\ Cardinality(answers[n]) <= 1
        /\ n \in Configured => answers[n] \subseteq {Own}
=============================================================================
