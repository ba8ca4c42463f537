----------------------------- MODULE BringUpProofs -----------------------------
(* What a bring-up guarantees for any document, options and builder: what was   *)
(* declared is built and started, seeds come last, and its answer is about what *)
(* is wrong.                                                                    *)
EXTENDS BringUp, SequenceTheorems, WellFoundedInduction, TLAPS

--------------------------------------------------------------------------------
(* The inductive invariant                                                      *)

Plan == CallsOf(given)

FormOf(c) == IF c.native THEN Form ELSE "json"
QueryOf(c) == IF c.native THEN c.entry ELSE QueryEntry(c.entry)

\* What call c has added is there, and as it was described.
Added(c) ==
    /\ c.op = "create" => inForce = MergeCreateOptions(DocumentOptions, given.options)
    /\ c.op = "source" =>
        /\ c.entry.id \in DOMAIN sources
        /\ sources[c.entry.id].auto = AutoStart(Read(FormOf(c), c.entry.autoStart))
    /\ c.op = "query" =>
        /\ c.entry.id \in DOMAIN queries
        /\ queries[c.entry.id].auto = (Read(FormOf(c), QueryOf(c).autoStart) # "false")
    /\ c.op = "reaction" =>
        /\ c.entry.id \in DOMAIN reactions
        /\ reactions[c.entry.id].auto = AutoStart(Read(FormOf(c), c.entry.autoStart))
        /\ reactions[c.entry.id].queryIds = IF c.entry.queryIds = Absent THEN {} ELSE c.entry.queryIds

\* What the call that c puts in front of the others is there for has happened.
Followed(c) ==
    /\ c.op \in {"start", "ask"} => engine = "running" \/ disturbed
    /\ c.op = "query" /\ ~c.native /\ c.entry.options.autoStart # FALSE => c.entry.id \in started

\* The call that c puts in front of the others.
Puts(c) ==
    IF c.op = "ask" THEN Call("start", Absent, FALSE) ELSE Call("wait", c.entry, FALSE)

\* k calls of the plan are over, and x calls that the last of them has put there
\* are in front of the others.
At(k, x) ==
    /\ todo \in Seq(Elements(Plan) \union {Puts(c) : c \in Elements(Plan)})
    /\ Len(todo) = x + Len(Plan) - k
    /\ \A i \in 1..(Len(Plan) - k) : todo[x + i] = Plan[k + i]
    /\ x = 1 => k > 0 /\ Plan[k].op \in {"ask", "query"} /\ todo[1] = Puts(Plan[k])

\* The seeds are the last calls.
Front == Len(Plan) - Len(Seeds)

PushOf(c) == [source |-> c.source, change |-> SourceChangeOf(c)]

Pushed(k) ==
    pushed = [j \in 1..(IF k <= Front THEN 0 ELSE k - Front) |-> PushOf(Seeds[j])]

Underway(k, x) ==
    /\ At(k, x)
    /\ \A i \in 1..k : Added(Plan[i])
    /\ \A i \in 1..k : (i = k /\ x = 1) \/ Followed(Plan[i])
    /\ engine = "none" <=> k = 0
    /\ Pushed(k)

Progress ==
    result \in {None, "ok"} => \E k \in 0..Len(Plan), x \in {0, 1} : Underway(k, x)

\* As long as the application leaves the engine alone, it runs with every
\* component that starts by itself, or not at all.
Tidy ==
    ~disturbed /\ result \in {None, "ok"} =>
        /\ engine \in {"none", "stopped", "running"}
        /\ \A s \in DOMAIN sources :
              sources[s].running <=> engine = "running" /\ sources[s].auto
        /\ \A q \in DOMAIN queries :
              queries[q].status # "Stopped" <=> engine = "running" /\ queries[q].auto
        /\ \A r \in DOMAIN reactions :
              reactions[r].running <=> engine = "running" /\ reactions[r].auto

Statuses == {"Stopped", "Starting", "Running", "Error"}

\* Only what was declared is there, and a query that runs has been Running.
Known ==
    /\ sources \in [DOMAIN sources -> [kind : {e.kind : e \in Declared("sources")},
                                      auto : BOOLEAN, running : BOOLEAN]]
    /\ queries \in [DOMAIN queries -> [auto : BOOLEAN, status : Statuses]]
    /\ reactions \in [DOMAIN reactions ->
                         [queryIds : {{}} \union {e.queryIds : e \in Declared("reactions")},
                          auto : BOOLEAN, running : BOOLEAN]]
    /\ DOMAIN sources \subseteq Ids(Declared("sources"))
    /\ DOMAIN queries \subseteq Ids(Declared("queries"))
    /\ DOMAIN reactions \subseteq Ids(Declared("reactions"))
    /\ \A q \in DOMAIN queries : queries[q].status = "Running" => q \in started

IInv == TypeOK /\ Progress /\ Tidy /\ Known /\ SeedsFindTopology

--------------------------------------------------------------------------------
(* Sequences and maps                                                           *)

LEMMA ConcatAt ==
    ASSUME NEW S, NEW s \in Seq(S), NEW T, NEW t \in Seq(T)
    PROVE  /\ s \o t \in Seq(S \union T) /\ Len(s \o t) = Len(s) + Len(t)
           /\ \A i \in 1..Len(s) : (s \o t)[i] = s[i]
           /\ \A i \in 1..Len(t) : (s \o t)[Len(s) + i] = t[i]
           /\ \A i \in Len(s) + 1 .. Len(s) + Len(t) : (s \o t)[i] = t[i - Len(s)]
OBVIOUS

LEMMA ElementsOfConcat ==
    ASSUME NEW S, NEW s \in Seq(S), NEW T, NEW t \in Seq(T)
    PROVE  Elements(s \o t) = Elements(s) \union Elements(t)
<1>1. ASSUME NEW i \in 1..Len(s \o t)
      PROVE  (s \o t)[i] \in Elements(s) \union Elements(t)
  BY DEF Elements
<1>2. ASSUME NEW i \in 1..Len(s)
      PROVE  s[i] \in Elements(s \o t)
  <2>1. (s \o t)[i] = s[i] /\ i \in 1..Len(s \o t) /\ DOMAIN (s \o t) = 1..Len(s \o t)
    OBVIOUS
  <2> QED
    BY <2>1 DEF Elements
<1>3. ASSUME NEW i \in 1..Len(t)
      PROVE  t[i] \in Elements(s \o t)
  <2>1. /\ (s \o t)[Len(s) + i] = t[i] /\ Len(s) + i \in 1..Len(s \o t)
        /\ DOMAIN (s \o t) = 1..Len(s \o t)
    OBVIOUS
  <2> QED
    BY <2>1 DEF Elements
<1> QED
  <2>1. DOMAIN (s \o t) = 1..Len(s \o t) /\ DOMAIN s = 1..Len(s) /\ DOMAIN t = 1..Len(t)
    OBVIOUS
  <2> QED
    BY <1>1, <1>2, <1>3, <2>1 DEF Elements

\* The calls of a list, one for each entry.
LEMMA ElementsOfEach ==
    ASSUME NEW es, es \in Seq(Elements(es)), NEW op, NEW native
    PROVE  /\ CallEach(op, es, native) \in Seq({Call(op, e, native) : e \in Elements(es)})
           /\ Len(CallEach(op, es, native)) = Len(es)
           /\ \A i \in 1..Len(es) : CallEach(op, es, native)[i] = Call(op, es[i], native)
           /\ Elements(CallEach(op, es, native)) = {Call(op, e, native) : e \in Elements(es)}
BY DEF CallEach, Elements

LEMMA ElementsOfOne ==
    ASSUME NEW c
    PROVE  <<c>> \in Seq({c}) /\ Len(<<c>>) = 1 /\ <<c>>[1] = c /\ Elements(<<c>>) = {c}
BY DEF Elements

\* A set of numbers that is not empty has a least one.
LEMMA LeastExists ==
    ASSUME NEW T \in SUBSET Nat, T # {}
    PROVE  \E i \in T : \A j \in T : i <= j
<1>1. \E i \in T : \A j \in T : <<j, i>> \notin OpToRel(<, Nat)
  BY NatLessThanWellFounded, WFMin
<1>2. PICK i \in T : \A j \in T : <<j, i>> \notin OpToRel(<, Nat)
  BY <1>1
<1>3. \A j \in T : ~(j < i)
  BY <1>2 DEF OpToRel
<1>4. \A j \in T : i <= j
  BY <1>3
<1> QED
  BY <1>4

--------------------------------------------------------------------------------
(* What ends a call                                                             *)

Checks == [fails : BOOLEAN, code : Codes]

\* A chain of checks answers with the code of one of them, or none fails.
LEMMA FirstFaultAnswers ==
    ASSUME NEW checks \in Seq(Checks)
    PROVE  /\ FirstFault(checks) \in Codes \union {"ok"}
           /\ FirstFault(checks) = "ok" => \A i \in 1..Len(checks) : ~checks[i].fails
<1> DEFINE failing == {i \in DOMAIN checks : checks[i].fails}
           first == CHOOSE i \in failing : \A j \in failing : i <= j
<1>1. CASE failing = {}
  BY <1>1 DEF FirstFault
<1>2. CASE failing # {}
  <2>1. failing \in SUBSET Nat
    OBVIOUS
  <2>2. first \in failing
    BY <1>2, <2>1, LeastExists
  <2>3. FirstFault(checks) = checks[first].code
    BY <1>2 DEF FirstFault
  <2>4. checks[first].code \in Codes
    <3>1. first \in 1..Len(checks)
      BY <2>2
    <3> HIDE DEF first
    <3>2. checks[first] \in Checks
      BY <3>1
    <3> QED
      BY <3>2 DEF Checks
  <2>5. "ok" \notin Codes
    BY DEF Codes, UnknownKinds, ConfigCodes, SourceCodes
  <2> QED
    BY <2>3, <2>4, <2>5
<1> QED
  BY <1>1, <1>2

\* A check that is passed with the others is passed.
LEMMA LastCheckPasses ==
    ASSUME NEW checks \in Seq(Checks), NEW fails \in BOOLEAN, NEW code \in Codes,
           FirstFault(checks \o <<Check(fails, code)>>) = "ok"
    PROVE  ~fails
<1> DEFINE all == checks \o <<Check(fails, code)>>
<1>1. <<Check(fails, code)>> \in Seq(Checks)
  BY DEF Check, Checks
<1>2. all \in Seq(Checks) /\ Len(all) = Len(checks) + 1
  BY <1>1
<1>3. all[Len(checks) + 1] = Check(fails, code)
  BY <1>1
<1>4. all[Len(checks) + 1].fails = fails
  BY <1>3 DEF Check
<1>5. ~all[Len(checks) + 1].fails
  <2> Len(checks) + 1 \in 1..Len(all)
    BY <1>2
  <2> QED
    BY <1>2, FirstFaultAnswers
<1> QED
  BY <1>4, <1>5

LEMMA ChecksAreTyped ==
    /\ \A o, twice : CreateChecks(o, twice) \in Seq(Checks)
    /\ \A s, loaded : SourceChecks(s, loaded) \in Seq(Checks)
    /\ \A q, form : QueryChecks(q, form) \in Seq(Checks)
    /\ \A r, loaded, durable : ReactionChecks(r, loaded, durable) \in Seq(Checks)
    /\ \A c, csharp : SeedChecks(c, csharp) \in Seq(Checks)
<1> USE DEF Checks, Check, Codes, UnknownKinds, ConfigCodes, SourceCodes
<1>1. ASSUME NEW o, NEW twice
      PROVE  CreateChecks(o, twice) \in Seq(Checks)
  <2>1. IdentityChecks(o) \in Seq(Checks)
    BY DEF IdentityChecks
  <2>2. /\ StoreChecks(o.stateStore, "UnknownStateStoreKind", "StateStorePathRequired") \in Seq(Checks)
        /\ WalChecks(o.walProvider) \in Seq(Checks)
        /\ StoreChecks(o.indexStore, "UnknownIndexStoreKind", "IndexStorePathRequired") \in Seq(Checks)
    BY DEF StoreChecks, WalChecks
  <2>3. /\ ParseChecks(o, twice) \in Seq(Checks)
        /\ << Check(o.pluginsDir = "not a directory", "PluginNotFound") >> \in Seq(Checks)
    BY DEF ParseChecks
  <2>4. ASSUME NEW S, NEW a \in Seq(S), NEW b \in Seq(S), NEW c \in Seq(S), NEW d \in Seq(S),
               NEW e \in Seq(S), NEW f \in Seq(S)
        PROVE  a \o b \o c \o d \o e \o f \in Seq(S)
    OBVIOUS
  <2> HIDE DEF Checks, Check
  <2> QED
    BY <2>1, <2>2, <2>3, <2>4 DEF CreateChecks
<1>2. \A s, loaded : SourceChecks(s, loaded) \in Seq(Checks)
  BY DEF SourceChecks
<1>3. \A q, form : QueryChecks(q, form) \in Seq(Checks)
  BY DEF QueryChecks
<1>4. \A r, loaded, durable : ReactionChecks(r, loaded, durable) \in Seq(Checks)
  BY DEF ReactionChecks
<1>5. \A c, csharp : SeedChecks(c, csharp) \in Seq(Checks)
  BY DEF SeedChecks
<1> QED
  BY <1>1, <1>2, <1>3, <1>4, <1>5

Ops == {"create", "start", "load", "source", "query", "reaction", "push", "wrap", "ask", "wait"}

\* A call ends early with a code, and nothing is added under an id that is taken.
LEMMA FaultAnswers ==
    ASSUME Next1.op \in Ops
    PROVE  /\ Fault \in Codes \union {"ok"}
           /\ Fault = "ok" =>
               /\ Next1.op = "source" => Next1.entry.id \notin DOMAIN sources
               /\ Next1.op = "query" => Next1.entry.id \notin DOMAIN queries
               /\ Next1.op = "reaction" => Next1.entry.id \notin DOMAIN reactions
<1> DEFINE open == << Check(engine = "closed", "EngineClosed") >>
           new(ids) == << Check(Next1.entry.id \in ids, "EngineFailure") >>
<1>1. open \in Seq(Checks) /\ \A ids : new(ids) \in Seq(Checks)
  BY DEF Check, Checks, Codes
<1>2. ASSUME NEW a \in Seq(Checks), NEW b \in Seq(Checks)
      PROVE  a \o b \in Seq(Checks)
  OBVIOUS
<1>3. ASSUME NEW checks \in Seq(Checks), NEW ids, FirstFault(checks \o new(ids)) = "ok"
      PROVE  Next1.entry.id \notin ids
  <2>1. "EngineFailure" \in Codes
    BY DEF Codes
  <2> QED
    BY <1>3, <2>1, LastCheckPasses
<1> HIDE DEF open, new
<1>4. CASE Next1.op = "create"
  BY <1>4, FirstFaultAnswers, ChecksAreTyped DEF Fault
<1>5. CASE Next1.op = "start"
  BY <1>1, <1>5, FirstFaultAnswers DEF Fault, open
<1>6. CASE Next1.op = "load"
  <2>1. Fault = FirstFault(open \o << Check(Next1.entry.kind = Absent, "PluginNotFound") >>)
    BY <1>6 DEF Fault, open
  <2>2. << Check(Next1.entry.kind = Absent, "PluginNotFound") >> \in Seq(Checks)
    BY DEF Check, Checks, Codes
  <2> QED
    BY <1>1, <1>2, <1>6, <2>1, <2>2, FirstFaultAnswers
<1>7. CASE Next1.op = "source"
  <2>1. Fault = FirstFault(open \o SourceChecks(Next1.entry, kinds) \o new(DOMAIN sources))
    BY <1>7 DEF Fault, open, new
  <2>2. open \o SourceChecks(Next1.entry, kinds) \in Seq(Checks)
    BY <1>1, <1>2, ChecksAreTyped
  <2> QED
    BY <1>1, <1>2, <1>3, <1>7, <2>1, <2>2, FirstFaultAnswers
<1>8. CASE Next1.op = "query"
  <2>1. Fault = FirstFault(open \o QueryChecks(QueryOfCall, FormOfCall) \o new(DOMAIN queries))
    BY <1>8 DEF Fault, open, new
  <2>2. open \o QueryChecks(QueryOfCall, FormOfCall) \in Seq(Checks)
    BY <1>1, <1>2, ChecksAreTyped
  <2> QED
    BY <1>1, <1>2, <1>3, <1>8, <2>1, <2>2, FirstFaultAnswers
<1>9. CASE Next1.op = "reaction"
  <2> DEFINE its == ReactionChecks(Next1.entry, KindsOfCall, inForce.stateStore # Absent)
  <2>1. Fault = FirstFault(open \o its \o new(DOMAIN reactions))
    BY <1>9 DEF Fault, open, new
  <2>2. open \o its \in Seq(Checks)
    BY <1>1, <1>2, ChecksAreTyped
  <2> QED
    BY <1>1, <1>2, <1>3, <1>9, <2>1, <2>2, FirstFaultAnswers
<1>10. CASE Next1.op = "push"
  <2>1. Fault = FirstFault(open \o SeedChecks(Next1.entry, CsharpSources))
    BY <1>10 DEF Fault, open
  <2> QED
    BY <1>1, <1>2, <1>10, <2>1, ChecksAreTyped, FirstFaultAnswers
<1>11. CASE Next1.op = "wrap"
  <2>1. Fault = FirstFault(<< Check(Document.id \notin {Absent, "text"}, "InvalidOperation") >>)
    BY <1>11 DEF Fault
  <2>2. << Check(Document.id \notin {Absent, "text"}, "InvalidOperation") >> \in Seq(Checks)
    BY DEF Check, Checks, Codes
  <2> QED
    BY <1>11, <2>1, <2>2, FirstFaultAnswers
<1>12. CASE Next1.op \in {"ask", "wait"}
  <2>1. Fault = FirstFault(<< >>)
    BY <1>12 DEF Fault
  <2>2. << >> \in Seq(Checks)
    OBVIOUS
  <2> QED
    BY <1>12, <2>1, <2>2, FirstFaultAnswers
<1> QED
  BY <1>4, <1>5, <1>6, <1>7, <1>8, <1>9, <1>10, <1>11, <1>12 DEF Ops

--------------------------------------------------------------------------------
(* The plan                                                                     *)

IsList(s) == s \in Seq(Elements(s))

LEMMA ListsAreJoined ==
    ASSUME NEW s, NEW t, IsList(s), IsList(t)
    PROVE  /\ IsList(s \o t) /\ Len(s \o t) = Len(s) + Len(t)
           /\ Elements(s \o t) = Elements(s) \union Elements(t)
           /\ \A i \in 1..Len(s) : (s \o t)[i] = s[i]
           /\ \A i \in 1..Len(t) : (s \o t)[Len(s) + i] = t[i]
BY ConcatAt, ElementsOfConcat DEF IsList

LEMMA EachIsList ==
    ASSUME NEW es, es \in Seq(Elements(es)), NEW op, NEW native
    PROVE  /\ IsList(CallEach(op, es, native)) /\ Len(CallEach(op, es, native)) = Len(es)
           /\ Elements(CallEach(op, es, native)) = {Call(op, e, native) : e \in Elements(es)}
           /\ \A i \in 1..Len(es) : CallEach(op, es, native)[i] = Call(op, es[i], native)
BY ElementsOfEach DEF IsList

CallsWith(op, entries, native) == {Call(op, e, native) : e \in entries}

LEMMA EachIsCallsWith ==
    ASSUME NEW es, IsList(es), NEW op, NEW native
    PROVE  /\ IsList(CallEach(op, es, native))
           /\ Elements(CallEach(op, es, native)) = CallsWith(op, Elements(es), native)
<1>1. es \in Seq(Elements(es))
  BY DEF IsList
<1>2. /\ IsList(CallEach(op, es, native))
      /\ Elements(CallEach(op, es, native)) = {Call(op, e, native) : e \in Elements(es)}
  BY <1>1, EachIsList
<1> QED
  BY <1>2 DEF CallsWith

\* It begins with the creation, which is the only one.
CreatesOnce(s) == Len(s) > 0 /\ s[1] = Call("create", Absent, TRUE)
                     /\ \A i \in 2..Len(s) : s[i].op # "create"

CreatesNone(s) == \A c \in Elements(s) : c.op # "create"

LEMMA CreatedOnce ==
    ASSUME NEW s, NEW t, IsList(s), IsList(t), CreatesOnce(s), CreatesNone(t)
    PROVE  /\ CreatesOnce(s \o t)
           /\ IsList(s \o t) /\ Elements(s \o t) = Elements(s) \union Elements(t)
<1>1. (s \o t)[1] = Call("create", Absent, TRUE) /\ Len(s \o t) > 0
  <2>1. Len(s) \in Nat /\ Len(t) \in Nat /\ Len(s) > 0
    BY DEF CreatesOnce, IsList
  <2>2. 1 \in 1..Len(s)
    BY <2>1
  <2>3. (s \o t)[1] = s[1] /\ Len(s \o t) = Len(s) + Len(t)
    BY <2>2, ListsAreJoined
  <2> QED
    BY <2>1, <2>3 DEF CreatesOnce
<1>2. ASSUME NEW i \in 2..Len(s \o t)
      PROVE  (s \o t)[i].op # "create"
  <2>1. CASE i \in 1..Len(s)
    BY <2>1, ListsAreJoined DEF CreatesOnce
  <2>2. CASE i \notin 1..Len(s)
    <3>1. i - Len(s) \in 1..Len(t) /\ Len(s) + (i - Len(s)) = i
      BY <2>2, ListsAreJoined DEF IsList
    <3>2. (s \o t)[i] = t[i - Len(s)]
      BY <3>1, ListsAreJoined
    <3>3. t[i - Len(s)] \in Elements(t)
      BY <3>1 DEF Elements, IsList
    <3> QED
      BY <3>2, <3>3 DEF CreatesNone
  <2> QED
    BY <2>1, <2>2
<1>3. CreatesOnce(s \o t)
  BY <1>1, <1>2 DEF CreatesOnce
<1> QED
  BY <1>3, ListsAreJoined

FrontOf(g) ==
    (IF g.document = Absent
     THEN << Call("create", Absent, TRUE) >> ELSE DocumentCalls(g.document))
        \o (IF g.builder = Absent THEN << >>
            ELSE CallEach("load", g.builder.plugins, FALSE)
                    \o << Call("ask", Absent, FALSE) >>
                    \o CallEach("source", g.builder.sources, FALSE)
                    \o CallEach("query", g.builder.queries, FALSE)
                    \o CallEach("reaction", g.builder.reactions, FALSE))

LEMMA DocumentPart ==
    ASSUME NEW d, IsList(d.sources), IsList(d.queries), IsList(d.reactions)
    PROVE  /\ IsList(DocumentCalls(d)) /\ CreatesOnce(DocumentCalls(d))
           /\ Elements(DocumentCalls(d)) =
                 {Call("create", Absent, TRUE), Call("start", Absent, TRUE), Call("wrap", Absent, TRUE)}
                   \union CallsWith("source", Elements(d.sources), TRUE)
                   \union CallsWith("query", Elements(d.queries), TRUE)
                   \union CallsWith("reaction", Elements(d.reactions), TRUE)
<1> DEFINE first == << Call("create", Absent, TRUE), Call("start", Absent, TRUE) >>
           ss == CallEach("source", d.sources, TRUE)
           qs == CallEach("query", d.queries, TRUE)
           rs == CallEach("reaction", d.reactions, TRUE)
           last == << Call("wrap", Absent, TRUE) >>
<1>1. /\ IsList(first) /\ CreatesOnce(first)
      /\ Elements(first) = {Call("create", Absent, TRUE), Call("start", Absent, TRUE)}
  <2>1. ASSUME NEW a, NEW b
        PROVE  /\ IsList(<<a, b>>) /\ Elements(<<a, b>>) = {a, b} /\ Len(<<a, b>>) = 2
               /\ <<a, b>>[1] = a /\ <<a, b>>[2] = b
    BY DEF IsList, Elements
  <2>2. Call("start", Absent, TRUE).op # "create"
    BY DEF Call
  <2>3. /\ Len(first) = 2 /\ IsList(first)
        /\ Elements(first) = {Call("create", Absent, TRUE), Call("start", Absent, TRUE)}
        /\ first[1] = Call("create", Absent, TRUE) /\ first[2] = Call("start", Absent, TRUE)
    BY <2>1
  <2> HIDE DEF first
  <2>4. \A i \in 2..Len(first) : first[i].op # "create"
    <3>1. \A i \in 2..2 : i = 2
      OBVIOUS
    <3>2. 2..Len(first) = 2..2
      BY <2>3
    <3> QED
      BY <2>2, <2>3, <3>1, <3>2
  <2>5. CreatesOnce(first)
    <3>1. Len(first) > 0
      BY <2>3
    <3> QED
      BY <2>3, <2>4, <3>1 DEF CreatesOnce
  <2> QED
    BY <2>3, <2>5
<1>2. /\ IsList(ss) /\ Elements(ss) = CallsWith("source", Elements(d.sources), TRUE)
      /\ IsList(qs) /\ Elements(qs) = CallsWith("query", Elements(d.queries), TRUE)
      /\ IsList(rs) /\ Elements(rs) = CallsWith("reaction", Elements(d.reactions), TRUE)
  BY EachIsCallsWith
<1>3. IsList(last) /\ Elements(last) = {Call("wrap", Absent, TRUE)}
  BY ElementsOfOne DEF IsList
<1>4. CreatesNone(ss) /\ CreatesNone(qs) /\ CreatesNone(rs) /\ CreatesNone(last)
  <2> HIDE DEF ss, qs, rs, last
  <2> QED
    BY <1>2, <1>3 DEF CreatesNone, CallsWith, Call
<1>5. DocumentCalls(d) = first \o ss \o qs \o rs \o last
  BY DEF DocumentCalls
<1> HIDE DEF first, ss, qs, rs, last
<1>6. /\ IsList(first \o ss) /\ CreatesOnce(first \o ss)
      /\ Elements(first \o ss) = Elements(first) \union Elements(ss)
  BY <1>1, <1>2, <1>4, CreatedOnce
<1>7. /\ IsList(first \o ss \o qs) /\ CreatesOnce(first \o ss \o qs)
      /\ Elements(first \o ss \o qs) = Elements(first \o ss) \union Elements(qs)
  BY <1>2, <1>4, <1>6, CreatedOnce
<1>8. /\ IsList(first \o ss \o qs \o rs) /\ CreatesOnce(first \o ss \o qs \o rs)
      /\ Elements(first \o ss \o qs \o rs) = Elements(first \o ss \o qs) \union Elements(rs)
  BY <1>2, <1>4, <1>7, CreatedOnce
<1>9. /\ IsList(DocumentCalls(d)) /\ CreatesOnce(DocumentCalls(d))
      /\ Elements(DocumentCalls(d)) = Elements(first \o ss \o qs \o rs) \union Elements(last)
  BY <1>3, <1>4, <1>5, <1>8, CreatedOnce
<1>10. Elements(DocumentCalls(d)) =
          {Call("create", Absent, TRUE), Call("start", Absent, TRUE)}
            \union CallsWith("source", Elements(d.sources), TRUE)
            \union CallsWith("query", Elements(d.queries), TRUE)
            \union CallsWith("reaction", Elements(d.reactions), TRUE)
            \union {Call("wrap", Absent, TRUE)}
  <2>1. Elements(first \o ss) = {Call("create", Absent, TRUE), Call("start", Absent, TRUE)}
                                   \union CallsWith("source", Elements(d.sources), TRUE)
    BY <1>1, <1>2, <1>6
  <2> QED
    BY <1>2, <1>3, <1>7, <1>8, <1>9, <2>1
<1>11. ASSUME NEW A, NEW B, NEW C, NEW x, NEW y, NEW z
       PROVE  {x, y} \union A \union B \union C \union {z} = {x, y, z} \union A \union B \union C
  OBVIOUS
<1>12. {Call("create", Absent, TRUE), Call("start", Absent, TRUE)}
            \union CallsWith("source", Elements(d.sources), TRUE)
            \union CallsWith("query", Elements(d.queries), TRUE)
            \union CallsWith("reaction", Elements(d.reactions), TRUE)
            \union {Call("wrap", Absent, TRUE)} =
          {Call("create", Absent, TRUE), Call("start", Absent, TRUE), Call("wrap", Absent, TRUE)}
            \union CallsWith("source", Elements(d.sources), TRUE)
            \union CallsWith("query", Elements(d.queries), TRUE)
            \union CallsWith("reaction", Elements(d.reactions), TRUE)
  BY <1>11
<1>13. IsList(DocumentCalls(d)) /\ CreatesOnce(DocumentCalls(d))
  BY <1>9
<1> QED
  BY <1>10, <1>12, <1>13

LEMMA BuilderPart ==
    ASSUME NEW b, IsList(b.plugins), IsList(b.sources), IsList(b.queries), IsList(b.reactions)
    PROVE  LET front == CallEach("load", b.plugins, FALSE)
                          \o << Call("ask", Absent, FALSE) >>
                          \o CallEach("source", b.sources, FALSE)
                          \o CallEach("query", b.queries, FALSE)
                          \o CallEach("reaction", b.reactions, FALSE)
           IN  /\ IsList(front)
               /\ Elements(front) =
                    {Call("ask", Absent, FALSE)}
                      \union CallsWith("load", Elements(b.plugins), FALSE)
                      \union CallsWith("source", Elements(b.sources), FALSE)
                      \union CallsWith("query", Elements(b.queries), FALSE)
                      \union CallsWith("reaction", Elements(b.reactions), FALSE)
<1> DEFINE ls == CallEach("load", b.plugins, FALSE)
           ask == << Call("ask", Absent, FALSE) >>
           ss == CallEach("source", b.sources, FALSE)
           qs == CallEach("query", b.queries, FALSE)
           rs == CallEach("reaction", b.reactions, FALSE)
<1>1. /\ IsList(ls) /\ Elements(ls) = CallsWith("load", Elements(b.plugins), FALSE)
      /\ IsList(ss) /\ Elements(ss) = CallsWith("source", Elements(b.sources), FALSE)
      /\ IsList(qs) /\ Elements(qs) = CallsWith("query", Elements(b.queries), FALSE)
      /\ IsList(rs) /\ Elements(rs) = CallsWith("reaction", Elements(b.reactions), FALSE)
  BY EachIsCallsWith
<1>2. IsList(ask) /\ Elements(ask) = {Call("ask", Absent, FALSE)}
  BY ElementsOfOne DEF IsList
<1> HIDE DEF ls, ask, ss, qs, rs
<1>3. IsList(ls \o ask) /\ Elements(ls \o ask) = Elements(ls) \union Elements(ask)
  BY <1>1, <1>2, ListsAreJoined
<1>4. /\ IsList(ls \o ask \o ss)
      /\ Elements(ls \o ask \o ss) = Elements(ls \o ask) \union Elements(ss)
  BY <1>1, <1>3, ListsAreJoined
<1>5. /\ IsList(ls \o ask \o ss \o qs)
      /\ Elements(ls \o ask \o ss \o qs) = Elements(ls \o ask \o ss) \union Elements(qs)
  BY <1>1, <1>4, ListsAreJoined
<1>6. /\ IsList(ls \o ask \o ss \o qs \o rs)
      /\ Elements(ls \o ask \o ss \o qs \o rs) =
            Elements(ls \o ask \o ss \o qs) \union Elements(rs)
  BY <1>1, <1>5, ListsAreJoined
<1>7. Elements(ls \o ask \o ss \o qs \o rs) =
         {Call("ask", Absent, FALSE)}
           \union CallsWith("load", Elements(b.plugins), FALSE)
           \union CallsWith("source", Elements(b.sources), FALSE)
           \union CallsWith("query", Elements(b.queries), FALSE)
           \union CallsWith("reaction", Elements(b.reactions), FALSE)
  <2>1. Elements(ls \o ask) = Elements(ask) \union Elements(ls)
    BY <1>3
  <2>2. Elements(ls \o ask) = {Call("ask", Absent, FALSE)}
                                \union CallsWith("load", Elements(b.plugins), FALSE)
    BY <1>1, <1>2, <2>1
  <2> QED
    BY <1>1, <1>4, <1>5, <1>6, <2>2
<1>8. IsList(ls \o ask \o ss \o qs \o rs)
  BY <1>6
<1> QED
  BY <1>7, <1>8 DEF ls, ask, ss, qs, rs

\* What is given has the shapes that the types and the parsers leave.
LEMMA GivenLists ==
    ASSUME given \in Setups
    PROVE  /\ Document # Absent =>
               IsList(Document.sources) /\ IsList(Document.queries) /\ IsList(Document.reactions)
           /\ Builder # Absent =>
               /\ IsList(Builder.plugins) /\ IsList(Builder.sources) /\ IsList(Builder.queries)
               /\ IsList(Builder.reactions) /\ IsList(Builder.seeds)
           /\ Document # Absent \/ Builder # Absent
BY SetupAssumption DEF ListOf, IsList, Document, Builder

FrontSet ==
    {Call("create", Absent, TRUE)}
      \union (IF Document = Absent THEN {}
              ELSE {Call("start", Absent, TRUE), Call("wrap", Absent, TRUE)})
      \union (IF Builder = Absent THEN {}
              ELSE {Call("ask", Absent, FALSE)}
                     \union CallsWith("load", Elements(Builder.plugins), FALSE))
      \union CallsWith("source", Entries("sources").document, TRUE)
      \union CallsWith("source", Entries("sources").builder, FALSE)
      \union CallsWith("query", Entries("queries").document, TRUE)
      \union CallsWith("query", Entries("queries").builder, FALSE)
      \union CallsWith("reaction", Entries("reactions").document, TRUE)
      \union CallsWith("reaction", Entries("reactions").builder, FALSE)

\* The plan is what has to be there, and then the seeds.
LEMMA PlanParts ==
    ASSUME given \in Setups
    PROVE  /\ IsList(FrontOf(given)) /\ CreatesOnce(FrontOf(given))
           /\ Elements(FrontOf(given)) = FrontSet
           /\ IsList(Seeds)
           /\ Plan = FrontOf(given) \o CallEach("push", Seeds, FALSE)
<1> DEFINE d == IF Document = Absent THEN << Call("create", Absent, TRUE) >>
                ELSE DocumentCalls(Document)
           b == IF Builder = Absent THEN << >>
                ELSE CallEach("load", Builder.plugins, FALSE)
                       \o << Call("ask", Absent, FALSE) >>
                       \o CallEach("source", Builder.sources, FALSE)
                       \o CallEach("query", Builder.queries, FALSE)
                       \o CallEach("reaction", Builder.reactions, FALSE)
           p == CallEach("push", Seeds, FALSE)
<1>1. /\ IsList(d) /\ CreatesOnce(d)
      /\ Elements(d) = {Call("create", Absent, TRUE)}
              \union (IF Document = Absent THEN {}
                      ELSE {Call("start", Absent, TRUE), Call("wrap", Absent, TRUE)})
              \union CallsWith("source", Entries("sources").document, TRUE)
              \union CallsWith("query", Entries("queries").document, TRUE)
              \union CallsWith("reaction", Entries("reactions").document, TRUE)
  <2>1. CASE Document = Absent
    <3>1. d = << Call("create", Absent, TRUE) >>
      BY <2>1
    <3>2. /\ Entries("sources").document = {} /\ Entries("queries").document = {}
          /\ Entries("reactions").document = {}
      BY <2>1 DEF Entries
    <3>3. IsList(d) /\ Elements(d) = {Call("create", Absent, TRUE)} /\ Len(d) = 1
          /\ d[1] = Call("create", Absent, TRUE)
      BY <3>1, ElementsOfOne DEF IsList
    <3> HIDE DEF d
    <3>4. CreatesOnce(d)
      BY <3>3 DEF CreatesOnce
    <3> QED
      BY <2>1, <3>2, <3>3, <3>4 DEF CallsWith
  <2>2. CASE Document # Absent
    <3>1. d = DocumentCalls(Document)
      BY <2>2
    <3>2. /\ Entries("sources").document = Elements(Document.sources)
          /\ Entries("queries").document = Elements(Document.queries)
          /\ Entries("reactions").document = Elements(Document.reactions)
      BY <2>2 DEF Entries
    <3> HIDE DEF d
    <3> QED
      BY <2>2, <3>1, <3>2, DocumentPart, GivenLists
  <2> QED
    BY <2>1, <2>2
<1>2. /\ IsList(b)
      /\ Elements(b) = (IF Builder = Absent THEN {}
                        ELSE {Call("ask", Absent, FALSE)}
                               \union CallsWith("load", Elements(Builder.plugins), FALSE))
              \union CallsWith("source", Entries("sources").builder, FALSE)
              \union CallsWith("query", Entries("queries").builder, FALSE)
              \union CallsWith("reaction", Entries("reactions").builder, FALSE)
  <2>1. CASE Builder = Absent
    <3>1. b = << >>
      BY <2>1
    <3>2. /\ Entries("sources").builder = {} /\ Entries("queries").builder = {}
          /\ Entries("reactions").builder = {}
      BY <2>1 DEF Entries
    <3>3. IsList(b) /\ Elements(b) = {}
      <4>1. << >> \in Seq({}) /\ Elements(<< >>) = {}
        BY DEF Elements
      <4> QED
        BY <3>1, <4>1 DEF IsList
    <3> HIDE DEF b
    <3> QED
      BY <2>1, <3>2, <3>3 DEF CallsWith
  <2>2. CASE Builder # Absent
    <3>1. /\ IsList(b)
          /\ Elements(b) = {Call("ask", Absent, FALSE)}
                \union CallsWith("load", Elements(Builder.plugins), FALSE)
                \union CallsWith("source", Elements(Builder.sources), FALSE)
                \union CallsWith("query", Elements(Builder.queries), FALSE)
                \union CallsWith("reaction", Elements(Builder.reactions), FALSE)
      BY <2>2, BuilderPart, GivenLists
    <3>2. /\ Entries("sources").builder = Elements(Builder.sources)
          /\ Entries("queries").builder = Elements(Builder.queries)
          /\ Entries("reactions").builder = Elements(Builder.reactions)
      BY <2>2 DEF Entries
    <3> HIDE DEF b
    <3> QED
      BY <2>2, <3>1, <3>2
  <2> QED
    BY <2>1, <2>2
<1>3. IsList(Seeds) /\ IsList(p)
  <2>1. IsList(Seeds)
    BY GivenLists DEF Seeds, IsList, Elements
  <2> QED
    BY <2>1, EachIsList DEF IsList
<1>4. FrontOf(given) = d \o b
  BY DEF FrontOf, Document, Builder
<1>5. CallsOf(given) = d \o (b \o p)
  <2>1. CASE Builder = Absent
    <3>1. p = << >> /\ b = << >>
      BY <2>1 DEF CallEach, Seeds
    <3>2. CallsOf(given) = d \o << >>
      BY <2>1 DEF CallsOf, Document, Builder
    <3> HIDE DEF d, b, p
    <3> QED
      BY <3>1, <3>2
  <2>2. CASE Builder # Absent
    BY <2>2 DEF CallsOf, ApplyAsync, Document, Builder, Seeds
  <2> QED
    BY <2>1, <2>2
<1> HIDE DEF d, b, p
<1>6. d \o (b \o p) = (d \o b) \o p
  <2> DEFINE S == Elements(d) \union Elements(b) \union Elements(p)
  <2>1. d \in Seq(S) /\ b \in Seq(S) /\ p \in Seq(S)
    <3>1. ASSUME NEW s, IsList(s), Elements(s) \subseteq S
          PROVE  s \in Seq(S)
      BY <3>1 DEF IsList
    <3> QED
      BY <1>1, <1>2, <1>3, <3>1
  <2> HIDE DEF S
  <2> QED
    BY <2>1, ConcatAssociative
<1>7. CreatesNone(b)
  BY <1>2 DEF CreatesNone, CallsWith, Call
<1>8. /\ IsList(FrontOf(given)) /\ CreatesOnce(FrontOf(given))
      /\ Elements(FrontOf(given)) = Elements(d) \union Elements(b)
  BY <1>1, <1>2, <1>4, <1>7, CreatedOnce
<1>9. Elements(d) \union Elements(b) = FrontSet
  BY <1>1, <1>2 DEF FrontSet
<1> QED
  BY <1>3, <1>4, <1>5, <1>6, <1>8, <1>9 DEF Plan, p

\* The parts of the plan by their places.
LEMMA PlanPlaces ==
    ASSUME given \in Setups
    PROVE  /\ IsList(Plan) /\ CreatesOnce(Plan)
           /\ Front \in Nat /\ Len(Seeds) \in Nat /\ Len(Plan) = Front + Len(Seeds)
           /\ Elements(Plan) = FrontSet \union CallsWith("push", Elements(Seeds), FALSE)
           /\ \A i \in 1..Front : Plan[i] \in FrontSet
           /\ \A c \in FrontSet : \E i \in 1..Front : Plan[i] = c
           /\ \A j \in 1..Len(Seeds) : Plan[Front + j] = Call("push", Seeds[j], FALSE)
<1> DEFINE f == FrontOf(given)
           p == CallEach("push", Seeds, FALSE)
<1>1. /\ IsList(f) /\ CreatesOnce(f) /\ Elements(f) = FrontSet /\ IsList(Seeds)
      /\ Plan = f \o p
  BY PlanParts
<1>2. /\ IsList(p) /\ Len(p) = Len(Seeds)
      /\ Elements(p) = CallsWith("push", Elements(Seeds), FALSE)
      /\ \A j \in 1..Len(Seeds) : p[j] = Call("push", Seeds[j], FALSE)
  BY <1>1, EachIsList DEF IsList, CallsWith
<1> HIDE DEF f, p
<1>3. CreatesNone(p)
  BY <1>2 DEF CreatesNone, CallsWith, Call
<1>4. /\ IsList(Plan) /\ CreatesOnce(Plan)
      /\ Elements(Plan) = FrontSet \union CallsWith("push", Elements(Seeds), FALSE)
  BY <1>1, <1>2, <1>3, CreatedOnce
<1>5. Len(Plan) = Len(f) + Len(p) /\ Len(f) \in Nat /\ Len(p) \in Nat
  BY <1>1, <1>2, ListsAreJoined DEF IsList
<1>6. Front = Len(f)
  BY <1>2, <1>5 DEF Front
<1>7. ASSUME NEW i \in 1..Front
      PROVE  Plan[i] \in FrontSet
  <2>1. Plan[i] = f[i]
    BY <1>1, <1>2, <1>6, ListsAreJoined
  <2>2. f[i] \in Elements(f)
    BY <1>1, <1>6 DEF Elements, IsList
  <2> QED
    BY <1>1, <2>1, <2>2
<1>8. ASSUME NEW c \in FrontSet
      PROVE  \E i \in 1..Front : Plan[i] = c
  <2>1. PICK i \in 1..Len(f) : f[i] = c
    BY <1>1 DEF Elements, IsList
  <2>2. Plan[i] = f[i]
    BY <1>1, <1>2, ListsAreJoined
  <2> QED
    BY <1>6, <2>1, <2>2
<1>9. ASSUME NEW j \in 1..Len(Seeds)
      PROVE  Plan[Front + j] = Call("push", Seeds[j], FALSE)
  <2>1. \A i \in 1..Len(p) : Plan[Len(f) + i] = p[i]
    BY <1>1, <1>2, ListsAreJoined
  <2> QED
    BY <1>2, <1>6, <2>1
<1> QED
  BY <1>2, <1>4, <1>5, <1>6, <1>7, <1>8, <1>9

\* Every call of the plan is for an entry, in the form it was given.
LEMMA PlannedCalls ==
    ASSUME given \in Setups, NEW c \in Elements(Plan)
    PROVE  /\ c.op \in Ops /\ c.op # "wait"
           /\ c.op = "source" => \/ c.native = TRUE /\ c.entry \in Entries("sources").document
                                 \/ c.native = FALSE /\ c.entry \in Entries("sources").builder
           /\ c.op = "query" => \/ c.native = TRUE /\ c.entry \in Entries("queries").document
                                \/ c.native = FALSE /\ c.entry \in Entries("queries").builder
           /\ c.op = "reaction" => \/ c.native = TRUE /\ c.entry \in Entries("reactions").document
                                   \/ c.native = FALSE /\ c.entry \in Entries("reactions").builder
           /\ c \in FrontSet => c.op # "push"
<1>1. c \in FrontSet \union CallsWith("push", Elements(Seeds), FALSE)
  BY PlanPlaces
<1>2. CASE c \in CallsWith("push", Elements(Seeds), FALSE) /\ c \notin FrontSet
  BY <1>2 DEF CallsWith, Call, Ops
<1>3. CASE c \in FrontSet
  <2>1. CASE c \in {Call("create", Absent, TRUE), Call("start", Absent, TRUE),
                    Call("wrap", Absent, TRUE), Call("ask", Absent, FALSE)}
    BY <2>1 DEF Call, Ops
  <2>2. CASE c \in CallsWith("load", Elements(Builder.plugins), FALSE)
    BY <2>2 DEF CallsWith, Call, Ops
  <2>3. CASE c \in CallsWith("source", Entries("sources").document, TRUE)
    BY <2>3 DEF CallsWith, Call, Ops
  <2>4. CASE c \in CallsWith("source", Entries("sources").builder, FALSE)
    BY <2>4 DEF CallsWith, Call, Ops
  <2>5. CASE c \in CallsWith("query", Entries("queries").document, TRUE)
    BY <2>5 DEF CallsWith, Call, Ops
  <2>6. CASE c \in CallsWith("query", Entries("queries").builder, FALSE)
    BY <2>6 DEF CallsWith, Call, Ops
  <2>7. CASE c \in CallsWith("reaction", Entries("reactions").document, TRUE)
    BY <2>7 DEF CallsWith, Call, Ops
  <2>8. CASE c \in CallsWith("reaction", Entries("reactions").builder, FALSE)
    BY <2>8 DEF CallsWith, Call, Ops
  <2> QED
    BY <1>3, <2>1, <2>2, <2>3, <2>4, <2>5, <2>6, <2>7, <2>8 DEF FrontSet
<1> QED
  BY <1>1, <1>2, <1>3

\* Every entry has its call, and something starts the engine: FromConfig or the
\* builder's ApplyAsync.
LEMMA EveryEntryIsPlanned ==
    ASSUME given \in Setups
    PROVE  /\ \A e \in Entries("sources").document : Call("source", e, TRUE) \in FrontSet
           /\ \A e \in Entries("sources").builder : Call("source", e, FALSE) \in FrontSet
           /\ \A e \in Entries("queries").document : Call("query", e, TRUE) \in FrontSet
           /\ \A e \in Entries("queries").builder : Call("query", e, FALSE) \in FrontSet
           /\ \A e \in Entries("reactions").document : Call("reaction", e, TRUE) \in FrontSet
           /\ \A e \in Entries("reactions").builder : Call("reaction", e, FALSE) \in FrontSet
           /\ Call("create", Absent, TRUE) \in FrontSet
           /\ Call("start", Absent, TRUE) \in FrontSet \/ Call("ask", Absent, FALSE) \in FrontSet
<1>1. Document # Absent \/ Builder # Absent
  BY GivenLists
<1>2. Call("start", Absent, TRUE) \in FrontSet \/ Call("ask", Absent, FALSE) \in FrontSet
  BY <1>1 DEF FrontSet
<1> QED
  BY <1>2 DEF FrontSet, CallsWith

\* No step changes what was given, and so neither what follows from it.
LEMMA SameSetup ==
    ASSUME given' = given
    PROVE  /\ Plan' = Plan /\ Seeds' = Seeds /\ Front' = Front
           /\ Document' = Document /\ Builder' = Builder /\ DocumentOptions' = DocumentOptions
           /\ Form' = Form /\ \A c : FormOf(c)' = FormOf(c)
           /\ Entries("sources")' = Entries("sources") /\ Declared("sources")' = Declared("sources")
           /\ Entries("queries")' = Entries("queries") /\ Declared("queries")' = Declared("queries")
           /\ Entries("reactions")' = Entries("reactions")
           /\ Declared("reactions")' = Declared("reactions")
<1>1. Plan' = Plan /\ Document' = Document /\ Builder' = Builder
  BY DEF Plan, Document, Builder
<1>2. Form' = Form /\ DocumentOptions' = DocumentOptions /\ Seeds' = Seeds
  BY <1>1 DEF Form, DocumentOptions, Seeds
<1>3. Front' = Front /\ \A c : FormOf(c)' = FormOf(c)
  BY <1>1, <1>2 DEF Front, FormOf
<1>4. /\ Entries("sources")' = Entries("sources") /\ Entries("queries")' = Entries("queries")
      /\ Entries("reactions")' = Entries("reactions")
  BY <1>1 DEF Entries
<1>5. /\ Declared("sources")' = Declared("sources") /\ Declared("queries")' = Declared("queries")
      /\ Declared("reactions")' = Declared("reactions")
  BY <1>4 DEF Declared
<1> QED
  BY <1>1, <1>2, <1>3, <1>4, <1>5

--------------------------------------------------------------------------------
(* Steps and progress                                                           *)

\* A step that takes nothing away.
Keeps ==
    /\ given' = given
    /\ inForce' = inForce \/ inForce' = MergeCreateOptions(DocumentOptions, given.options)
    /\ \A s \in DOMAIN sources : s \in DOMAIN sources' /\ sources'[s].auto = sources[s].auto
    /\ \A q \in DOMAIN queries : q \in DOMAIN queries' /\ queries'[q].auto = queries[q].auto
    /\ \A r \in DOMAIN reactions :
          /\ r \in DOMAIN reactions' /\ reactions'[r].auto = reactions[r].auto
          /\ reactions'[r].queryIds = reactions[r].queryIds
    /\ started \subseteq started'
    /\ engine = "running" \/ disturbed => engine' = "running" \/ disturbed'

LEMMA NothingIsLost ==
    ASSUME Keeps, NEW c
    PROVE  /\ Added(c) => Added(c)'
           /\ Followed(c) => Followed(c)'
<1>1. DocumentOptions' = DocumentOptions /\ FormOf(c)' = FormOf(c)
  BY SameSetup DEF Keeps
<1>2. ASSUME Followed(c)
      PROVE  Followed(c)'
  BY <1>2 DEF Keeps, Followed
<1>3. ASSUME Added(c)
      PROVE  Added(c)'
  <2>1. c.op = "create" => inForce' = MergeCreateOptions(DocumentOptions', given'.options)
    BY <1>1, <1>3 DEF Keeps, Added
  <2>2. c.op = "source" =>
          /\ c.entry.id \in DOMAIN sources'
          /\ sources'[c.entry.id].auto = AutoStart(Read(FormOf(c)', c.entry.autoStart))
    BY <1>1, <1>3 DEF Keeps, Added
  <2>3. c.op = "query" =>
          /\ c.entry.id \in DOMAIN queries'
          /\ queries'[c.entry.id].auto = (Read(FormOf(c)', QueryOf(c).autoStart) # "false")
    BY <1>1, <1>3 DEF Keeps, Added
  <2>4. c.op = "reaction" =>
          /\ c.entry.id \in DOMAIN reactions'
          /\ reactions'[c.entry.id].auto = AutoStart(Read(FormOf(c)', c.entry.autoStart))
          /\ reactions'[c.entry.id].queryIds =
                IF c.entry.queryIds = Absent THEN {} ELSE c.entry.queryIds
    BY <1>1, <1>3 DEF Keeps, Added
  <2> QED
    BY <2>1, <2>2, <2>3, <2>4 DEF Added
<1> QED
  BY <1>2, <1>3

LEMMA PlanIsTyped ==
    ASSUME given \in Setups
    PROVE  Len(Plan) \in Nat /\ \A i \in 1..Len(Plan) : Plan[i] \in Elements(Plan)
BY PlanPlaces DEF IsList, Elements

\* The next call is the plan's, or the one that the call before it has put there.
LEMMA NextCall ==
    ASSUME given \in Setups, NEW k \in 0..Len(Plan), NEW x \in {0, 1}, At(k, x), todo # << >>
    PROVE  /\ x = 0 => k < Len(Plan) /\ Next1 = Plan[k + 1] /\ Next1 \in Elements(Plan)
           /\ x = 1 => /\ k \in 1..Len(Plan) /\ Next1 = Puts(Plan[k]) /\ Plan[k] \in Elements(Plan)
                       /\ Plan[k].op \in {"ask", "query"}
           /\ Next1.op \in Ops
<1>1. Len(Plan) \in Nat /\ \A i \in 1..Len(Plan) : Plan[i] \in Elements(Plan)
  BY PlanIsTyped
<1>2. Len(todo) > 0
  BY DEF At
<1>3. CASE x = 0
  <2>1. k < Len(Plan)
    BY <1>1, <1>2, <1>3 DEF At
  <2>2. todo[0 + 1] = Plan[k + 1]
    BY <1>1, <1>3, <2>1 DEF At
  <2>3. Next1 = Plan[k + 1] /\ Next1 \in Elements(Plan)
    BY <1>1, <2>1, <2>2 DEF Next1
  <2>4. Next1.op \in Ops
    <3>1. ASSUME NEW c, c = Next1
          PROVE  c.op \in Ops
      BY <2>3, <3>1, PlannedCalls
    <3> QED
      BY <3>1
  <2> QED
    BY <1>3, <2>1, <2>3, <2>4
<1>4. CASE x = 1
  <2>1. k \in 1..Len(Plan) /\ Next1 = Puts(Plan[k]) /\ Plan[k].op \in {"ask", "query"}
    BY <1>1, <1>4 DEF At, Next1
  <2>2. Next1.op \in {"start", "wait"}
    BY <2>1 DEF Puts, Call
  <2> QED
    BY <1>1, <1>4, <2>1, <2>2 DEF Ops
<1> QED
  BY <1>3, <1>4

LEMMA StandsStill ==
    ASSUME given \in Setups, Keeps, NEW k \in 0..Len(Plan), NEW x \in {0, 1}, Underway(k, x),
           todo' = todo, pushed' = pushed, engine = "none" <=> engine' = "none"
    PROVE  Underway(k, x)'
<1>1. Plan' = Plan /\ Seeds' = Seeds /\ Front' = Front
  BY SameSetup DEF Keeps
<1>2. At(k, x)'
  BY <1>1 DEF Underway, At
<1>3. Pushed(k)'
  BY <1>1 DEF Underway, Pushed
<1>4. \A i \in 1..k : Added(Plan[i])'
  BY <1>1, NothingIsLost DEF Underway
<1>5. \A i \in 1..k : (i = k /\ x = 1) \/ Followed(Plan[i])'
  BY <1>1, NothingIsLost DEF Underway
<1> QED
  BY <1>2, <1>3, <1>4, <1>5 DEF Underway

\* The next call is over.
LEMMA GoesOn ==
    ASSUME given \in Setups, Keeps, NEW k \in 0..Len(Plan), Underway(k, 0), k < Len(Plan),
           NEW c, c = Plan[k + 1], todo' = Tail(todo), Added(c)', Followed(c)',
           engine' # "none", Pushed(k + 1)'
    PROVE  Underway(k + 1, 0)'
<1>1. Plan' = Plan
  BY SameSetup DEF Keeps
<1>2. Len(Plan) \in Nat
  BY PlanIsTyped
<1>3. At(k + 1, 0)'
  <2> DEFINE S == Elements(Plan) \union {Puts(e) : e \in Elements(Plan)}
  <2>1. todo \in Seq(S) /\ Len(todo) = Len(Plan) - k
        /\ \A i \in 1..(Len(Plan) - k) : todo[0 + i] = Plan[k + i]
    BY <1>2 DEF Underway, At
  <2> HIDE DEF S
  <2>2. todo' \in Seq(S) /\ Len(todo') = Len(Plan) - (k + 1)
    BY <1>2, <2>1
  <2>3. ASSUME NEW i \in 1..(Len(Plan) - (k + 1))
        PROVE  todo'[0 + i] = Plan[(k + 1) + i]
    <3>1. todo'[0 + i] = todo[i + 1]
      BY <1>2, <2>1
    <3>2. todo[0 + (i + 1)] = Plan[k + (i + 1)]
      BY <1>2, <2>1
    <3>3. 0 + (i + 1) = i + 1 /\ k + (i + 1) = (k + 1) + i
      OBVIOUS
    <3> QED
      BY <3>1, <3>2, <3>3
  <2> QED
    BY <1>1, <1>2, <2>2, <2>3 DEF At, S
<1>4. ASSUME NEW i \in 1..(k + 1)
      PROVE  Added(Plan[i])' /\ Followed(Plan[i])'
  <2>1. CASE i = k + 1
    BY <1>1, <2>1
  <2>2. CASE i # k + 1
    <3>1. i \in 1..k
      BY <2>2
    <3>2. Added(Plan[i]) /\ Followed(Plan[i])
      BY <3>1 DEF Underway
    <3> QED
      BY <1>1, <3>2, NothingIsLost
  <2> QED
    BY <2>1, <2>2
<1> QED
  BY <1>3, <1>4 DEF Underway

\* The next call is over but for the one it has put in front of the others.
LEMMA PutsInFront ==
    ASSUME given \in Setups, Keeps, NEW k \in 0..Len(Plan), Underway(k, 0), k < Len(Plan),
           NEW c, c = Plan[k + 1], c.op \in {"ask", "query"}, todo' = << Puts(c) >> \o Tail(todo),
           Added(c)', engine' # "none", Pushed(k + 1)'
    PROVE  Underway(k + 1, 1)'
<1>1. Plan' = Plan
  BY SameSetup DEF Keeps
<1>2. Len(Plan) \in Nat /\ c \in Elements(Plan)
  BY PlanIsTyped
<1>3. At(k + 1, 1)'
  <2> DEFINE S == Elements(Plan) \union {Puts(e) : e \in Elements(Plan)}
  <2>1. todo \in Seq(S) /\ Len(todo) = Len(Plan) - k
        /\ \A i \in 1..(Len(Plan) - k) : todo[0 + i] = Plan[k + i]
    BY <1>2 DEF Underway, At
  <2>2. Puts(c) \in S
    BY <1>2
  <2> HIDE DEF S
  <2>3. Tail(todo) \in Seq(S) /\ Len(Tail(todo)) = Len(Plan) - (k + 1)
    BY <1>2, <2>1
  <2>4. todo' \in Seq(S) /\ Len(todo') = 1 + Len(Plan) - (k + 1) /\ todo'[1] = Puts(c)
    BY <1>2, <2>2, <2>3
  <2>5. ASSUME NEW i \in 1..(Len(Plan) - (k + 1))
        PROVE  todo'[1 + i] = Plan[(k + 1) + i]
    <3>1. todo'[1 + i] = Tail(todo)[i]
      BY <1>2, <2>2, <2>3
    <3>2. Tail(todo)[i] = todo[i + 1]
      BY <1>2, <2>1
    <3>3. todo[0 + (i + 1)] = Plan[k + (i + 1)]
      BY <1>2, <2>1
    <3>4. 0 + (i + 1) = i + 1 /\ k + (i + 1) = (k + 1) + i
      OBVIOUS
    <3> QED
      BY <3>1, <3>2, <3>3, <3>4
  <2> QED
    BY <1>1, <1>2, <2>4, <2>5 DEF At, S
<1>4. ASSUME NEW i \in 1..(k + 1)
      PROVE  Added(Plan[i])' /\ ((i = k + 1 /\ 1 = 1) \/ Followed(Plan[i])')
  <2>1. CASE i = k + 1
    BY <1>1, <2>1
  <2>2. CASE i # k + 1
    <3>1. i \in 1..k
      BY <2>2
    <3>2. Added(Plan[i]) /\ Followed(Plan[i])
      BY <3>1 DEF Underway
    <3> QED
      BY <1>1, <3>2, NothingIsLost
  <2> QED
    BY <2>1, <2>2
<1> QED
  BY <1>3, <1>4 DEF Underway

\* The call that was put there is over.
LEMMA FrontIsDone ==
    ASSUME given \in Setups, Keeps, NEW k \in 1..Len(Plan), Underway(k, 1),
           NEW c, c = Plan[k], todo' = Tail(todo), Followed(c)', engine' # "none", pushed' = pushed
    PROVE  Underway(k, 0)'
<1>1. Plan' = Plan /\ Seeds' = Seeds /\ Front' = Front
  BY SameSetup DEF Keeps
<1>2. Len(Plan) \in Nat
  BY PlanIsTyped
<1>3. At(k, 0)'
  <2> DEFINE S == Elements(Plan) \union {Puts(e) : e \in Elements(Plan)}
  <2>1. todo \in Seq(S) /\ Len(todo) = 1 + Len(Plan) - k
        /\ \A i \in 1..(Len(Plan) - k) : todo[1 + i] = Plan[k + i]
    BY <1>2 DEF Underway, At
  <2> HIDE DEF S
  <2>2. todo' \in Seq(S) /\ Len(todo') = Len(Plan) - k
    BY <1>2, <2>1
  <2>3. ASSUME NEW i \in 1..(Len(Plan) - k)
        PROVE  todo'[0 + i] = Plan[k + i]
    <3>1. todo'[0 + i] = todo[1 + i]
      BY <1>2, <2>1
    <3> QED
      BY <2>1, <3>1
  <2> QED
    BY <1>1, <1>2, <2>2, <2>3 DEF At, S
<1>4. Pushed(k)'
  BY <1>1 DEF Underway, Pushed
<1>5. ASSUME NEW i \in 1..k
      PROVE  Added(Plan[i])' /\ Followed(Plan[i])'
  <2>1. Added(Plan[i])'
    BY <1>1, NothingIsLost DEF Underway
  <2>2. CASE i = k
    BY <1>1, <2>1, <2>2
  <2>3. CASE i # k
    BY <1>1, <2>1, <2>3, NothingIsLost DEF Underway
  <2> QED
    BY <2>2, <2>3
<1> QED
  BY <1>3, <1>4, <1>5 DEF Underway

LEMMA NextPush ==
    ASSUME NEW n \in Nat, NEW s
    PROVE  Append([j \in 1..n |-> PushOf(s[j])], PushOf(s[n + 1]))
             = [j \in 1..(n + 1) |-> PushOf(s[j])]
<1> DEFINE S == {PushOf(s[j]) : j \in 1..(n + 1)}
           now == [j \in 1..n |-> PushOf(s[j])]
           then == [j \in 1..(n + 1) |-> PushOf(s[j])]
<1>1. \A j \in 1..(n + 1) : PushOf(s[j]) \in S
  OBVIOUS
<1> HIDE DEF S
<1>2. now \in Seq(S) /\ Len(now) = n /\ \A j \in 1..n : now[j] = PushOf(s[j])
  BY <1>1
<1>3. n + 1 \in Nat /\ n + 1 \in 1..(n + 1)
  OBVIOUS
<1>4. then \in [1..(n + 1) -> S]
  BY <1>1
<1>5. then \in Seq(S) /\ Len(then) = n + 1
  BY <1>3, <1>4
<1>6. \A j \in 1..(n + 1) : then[j] = PushOf(s[j])
  OBVIOUS
<1> HIDE DEF now, then
<1>7. PushOf(s[n + 1]) \in S
  BY <1>1, <1>3
<1>8. /\ Append(now, PushOf(s[n + 1])) \in Seq(S) /\ Len(Append(now, PushOf(s[n + 1]))) = n + 1
      /\ \A j \in 1..(n + 1) : Append(now, PushOf(s[n + 1]))[j] = then[j]
  BY <1>2, <1>6, <1>7
<1> QED
  <2>1. Append(now, PushOf(s[n + 1])) = then
    BY <1>5, <1>8
  <2> QED
    BY <2>1 DEF now, then

\* Until the first seed nothing is pushed, and then one seed after the other.
LEMMA SeedsInOrder ==
    ASSUME given \in Setups, given' = given, NEW k \in 0..Len(Plan), k < Len(Plan), Pushed(k)
    PROVE  /\ Plan[k + 1].op # "push" => k + 1 <= Front /\ (pushed' = pushed => Pushed(k + 1)')
           /\ Plan[k + 1].op = "push" =>
               /\ k >= Front /\ k + 1 - Front \in 1..Len(Seeds)
               /\ Plan[k + 1].entry = Seeds[k + 1 - Front]
               /\ pushed' = Append(pushed, PushOf(Plan[k + 1].entry)) => Pushed(k + 1)'
<1>1. /\ Front \in Nat /\ Len(Seeds) \in Nat /\ Len(Plan) = Front + Len(Seeds)
      /\ \A i \in 1..Front : Plan[i] \in FrontSet
      /\ \A j \in 1..Len(Seeds) : Plan[Front + j] = Call("push", Seeds[j], FALSE)
  BY PlanPlaces
<1>2. Seeds' = Seeds /\ Front' = Front
  BY SameSetup
<1>3. CASE k + 1 <= Front
  <2>1. Plan[k + 1] \in FrontSet
    BY <1>1, <1>3
  <2>2. Plan[k + 1].op # "push"
    <3>1. Plan[k + 1] \in Elements(Plan)
      BY <1>1, PlanIsTyped
    <3> QED
      BY <2>1, <3>1, PlannedCalls
  <2>3. k <= Front
    BY <1>1, <1>3
  <2>4. pushed' = pushed => Pushed(k + 1)'
    BY <1>2, <1>3, <2>3 DEF Pushed
  <2> QED
    BY <1>3, <2>2, <2>4
<1>4. CASE ~(k + 1 <= Front)
  <2>1. k >= Front /\ k + 1 - Front \in 1..Len(Seeds) /\ Front + (k + 1 - Front) = k + 1
    BY <1>1, <1>4
  <2>2. Plan[k + 1] = Call("push", Seeds[k + 1 - Front], FALSE)
    BY <1>1, <2>1
  <2>3. Plan[k + 1].op = "push" /\ Plan[k + 1].entry = Seeds[k + 1 - Front]
    BY <2>2 DEF Call
  <2>4. ASSUME pushed' = Append(pushed, PushOf(Plan[k + 1].entry))
        PROVE  Pushed(k + 1)'
    <3> DEFINE n == k - Front
               all(m) == [j \in 1..m |-> PushOf(Seeds[j])]
    <3>1. n \in Nat /\ n + 1 = k + 1 - Front
      BY <1>1, <2>1
    <3>2. pushed = all(n)
      BY <1>1, <2>1 DEF Pushed
    <3>3. pushed' = Append(all(n), PushOf(Seeds[n + 1]))
      BY <2>3, <2>4, <3>1, <3>2
    <3> HIDE DEF n
    <3>4. Append(all(n), PushOf(Seeds[n + 1])) = all(n + 1)
      BY <3>1, NextPush
    <3>5. (IF k + 1 <= Front THEN 0 ELSE (k + 1) - Front) = n + 1
      BY <1>1, <1>4 DEF n
    <3>6. pushed' = [j \in 1..(IF k + 1 <= Front THEN 0 ELSE (k + 1) - Front) |-> PushOf(Seeds[j])]
      BY <3>3, <3>4, <3>5
    <3> QED
      BY <1>2, <3>6 DEF Pushed
  <2> QED
    BY <2>1, <2>3, <2>4
<1> QED
  BY <1>1, <1>3, <1>4

Engines == {"none", "stopped", "running", "closed", "dropped", "orphaned"}

LEMMA SeedsStayBehind ==
    ASSUME Keeps, SeedsFindTopology, pushed' = pushed
    PROVE  SeedsFindTopology'
<1>1. /\ Entries("queries")' = Entries("queries") /\ Entries("reactions")' = Entries("reactions")
      /\ Declared("sources")' = Declared("sources")
  BY SameSetup DEF Keeps
<1>2. ASSUME pushed # << >>
      PROVE  /\ \A q \in Entries("queries").builder :
                   q.options.autoStart # FALSE => q.id \in started'
             /\ Ids(Entries("reactions").builder) \subseteq DOMAIN reactions'
             /\ Ids(Declared("sources")) \subseteq DOMAIN sources'
  BY <1>2 DEF SeedsFindTopology, Keeps
<1> QED
  BY <1>1, <1>2 DEF SeedsFindTopology, Ids

\* No more is pushed than there is to push.
LEMMA PushedAreSeeds ==
    ASSUME given \in Setups, NEW k \in 0..Len(Plan), Pushed(k)
    PROVE  Len(pushed) <= Len(Seeds)
<1>1. Front \in Nat /\ Len(Seeds) \in Nat /\ Len(Plan) = Front + Len(Seeds)
  BY PlanPlaces
<1> DEFINE n == IF k <= Front THEN 0 ELSE k - Front
<1>2. n \in Nat /\ n <= Len(Seeds)
  BY <1>1
<1>3. pushed = [j \in 1..n |-> PushOf(Seeds[j])]
  BY DEF Pushed
<1> HIDE DEF n
<1>4. Len(pushed) = n
  BY <1>2, <1>3
<1> QED
  BY <1>2, <1>4

\* Whatever a step that is no failure does, this is left to show of it.
LEMMA StepEnds ==
    ASSUME IInv, Keeps, result' = None <=> todo' # << >>,
           result' \in {None, "ok"} =>
               /\ \E k \in 0..Len(Plan), x \in {0, 1} : Underway(k, x)'
               /\ Tidy',
           Len(pushed') <= Len(Seeds),
           Known', SeedsFindTopology', engine' \in Engines,
           {cancelled', disturbed', refused'} \subseteq BOOLEAN,
           started' \subseteq Ids(Declared("queries"))
    PROVE  IInv'
<1>1. Plan' = Plan /\ Seeds' = Seeds /\ Declared("queries")' = Declared("queries")
  BY SameSetup DEF Keeps
<1>2. Progress' /\ Tidy'
  <2>1. Progress'
    BY <1>1 DEF Progress
  <2>2. Tidy'
    BY DEF Tidy
  <2> QED
    BY <2>1, <2>2
<1>3. /\ \A s \in DOMAIN sources' :
          sources'[s].auto \in BOOLEAN /\ sources'[s].running \in BOOLEAN
      /\ \A q \in DOMAIN queries' :
          queries'[q].auto \in BOOLEAN /\ queries'[q].status \in Statuses
      /\ \A r \in DOMAIN reactions' :
          reactions'[r].auto \in BOOLEAN /\ reactions'[r].running \in BOOLEAN
  <2>1. ASSUME NEW f, NEW D, NEW A, NEW B, f \in [D -> [kind : A, auto : BOOLEAN, running : BOOLEAN]]
        PROVE  \A s \in D : f[s].auto \in BOOLEAN /\ f[s].running \in BOOLEAN
    BY <2>1
  <2>2. ASSUME NEW f, NEW D, NEW A, f \in [D -> [queryIds : A, auto : BOOLEAN, running : BOOLEAN]]
        PROVE  \A s \in D : f[s].auto \in BOOLEAN /\ f[s].running \in BOOLEAN
    BY <2>2
  <2>3. ASSUME NEW f, NEW D, f \in [D -> [auto : BOOLEAN, status : Statuses]]
        PROVE  \A s \in D : f[s].auto \in BOOLEAN /\ f[s].status \in Statuses
    BY <2>3
  <2> QED
    BY <2>1, <2>2, <2>3 DEF Known
<1>4. given' \in Setups
  BY DEF Keeps, IInv, TypeOK
<1>5. TypeOK'
  BY <1>1, <1>3, <1>4 DEF TypeOK, Engines, Statuses, Ids
<1> QED
  BY <1>2, <1>5 DEF IInv

\* A call that fails ends the bring-up with its code, and leaves what is there.
LEMMA ThrowKeeps ==
    ASSUME IInv, result = None, NEW code, code \notin {None, "ok"}, Throw(code), refused' \in BOOLEAN
    PROVE  IInv'
<1>1. /\ given' = given /\ inForce' = inForce /\ sources' = sources /\ queries' = queries
      /\ reactions' = reactions /\ pushed' = pushed /\ started' = started
      /\ cancelled' = cancelled /\ disturbed' = disturbed
      /\ todo' = << >> /\ result' = code
  BY DEF Throw, topology
<1>2. engine' \in Engines
  BY DEF Throw, IInv, TypeOK, Engines
<1>3. given' \in Setups /\ Seeds' = Seeds /\ Declared("queries")' = Declared("queries")
      /\ Declared("sources")' = Declared("sources") /\ Declared("reactions")' = Declared("reactions")
      /\ Entries("queries")' = Entries("queries") /\ Entries("reactions")' = Entries("reactions")
  BY <1>1, SameSetup DEF IInv, TypeOK
<1>4. TypeOK'
  BY <1>1, <1>2, <1>3 DEF IInv, TypeOK, Engines, Ids
<1>5. Known'
  BY <1>1, <1>3 DEF IInv, Known, Ids
<1>6. SeedsFindTopology'
  BY <1>1, <1>3 DEF IInv, SeedsFindTopology, Ids
<1>7. Progress' /\ Tidy'
  BY <1>1 DEF Progress, Tidy
<1> QED
  BY <1>4, <1>5, <1>6, <1>7 DEF IInv

\* A step of others than the bring-up.
LEMMA AsideKeeps ==
    ASSUME IInv, Keeps, UNCHANGED << todo, result, pushed >>, engine = "none" <=> engine' = "none",
           result' \in {None, "ok"} => Tidy', Known', engine' \in Engines,
           {cancelled', disturbed', refused'} \subseteq BOOLEAN,
           started' \subseteq Ids(Declared("queries"))
    PROVE  IInv'
<1>1. SeedsFindTopology'
  BY SeedsStayBehind DEF IInv
<1>2. Len(pushed') <= Len(Seeds) /\ (result' = None <=> todo' # << >>)
  BY DEF IInv, TypeOK
<1>3. ASSUME result' \in {None, "ok"}
      PROVE  \E k \in 0..Len(Plan), x \in {0, 1} : Underway(k, x)'
  BY <1>3, StandsStill DEF IInv, Progress, TypeOK
<1> QED
  BY <1>1, <1>2, <1>3, StepEnds

LEMMA QueryStepsKeep ==
    ASSUME IInv, NEW q \in DOMAIN queries, QueryRuns(q) \/ QueryBreaks(q)
    PROVE  IInv'
<1>1. /\ UNCHANGED << given, todo, result, pushed, engine, inForce, sources, reactions,
                      cancelled, disturbed, refused >>
      /\ engine = "running" /\ started \subseteq started'
  BY DEF QueryRuns, QueryBreaks
<1>2. PICK st \in {"Running", "Error"} :
          /\ queries' = [queries EXCEPT ![q].status = st]
          /\ st = "Running" => started' = started \union {q}
          /\ st # "Running" => started' = started
          /\ queries[q].status \in {"Starting", "Running"}
  BY DEF QueryRuns, QueryBreaks
<1>3. /\ queries \in [DOMAIN queries -> [auto : BOOLEAN, status : Statuses]]
      /\ q \in Ids(Declared("queries"))
  BY DEF IInv, Known
<1>4. /\ queries' \in [DOMAIN queries -> [auto : BOOLEAN, status : Statuses]]
      /\ DOMAIN queries' = DOMAIN queries
      /\ \A r \in DOMAIN queries : queries'[r].auto = queries[r].auto
      /\ \A r \in DOMAIN queries : r # q => queries'[r].status = queries[r].status
      /\ queries'[q].status = st
  BY <1>2, <1>3 DEF Statuses
<1>5. started' \subseteq Ids(Declared("queries"))
  BY <1>2, <1>3 DEF IInv, TypeOK
<1>6. Keeps
  BY <1>1, <1>4 DEF Keeps
<1>7. Tidy' \/ result' \notin {None, "ok"}
  <2>1. \A r \in DOMAIN queries :
            queries'[r].status # "Stopped" <=> queries[r].status # "Stopped"
    BY <1>2, <1>4
  <2> QED
    BY <1>1, <1>4, <2>1 DEF IInv, Tidy
<1>8. Known'
  <2>1. \A r \in DOMAIN queries : queries'[r].status = "Running" => r \in started'
    BY <1>1, <1>2, <1>4 DEF IInv, Known
  <2>2. /\ Declared("sources")' = Declared("sources") /\ Declared("queries")' = Declared("queries")
        /\ Declared("reactions")' = Declared("reactions")
    BY <1>1, SameSetup
  <2> QED
    BY <1>1, <1>4, <2>1, <2>2 DEF IInv, Known, Ids
<1>9. engine' \in Engines /\ {cancelled', disturbed', refused'} \subseteq BOOLEAN
  BY <1>1 DEF IInv, TypeOK, Engines
<1>10. engine = "none" <=> engine' = "none"
  BY <1>1
<1>11. UNCHANGED << todo, result, pushed >>
  BY <1>1
<1> QED
  BY <1>5, <1>6, <1>7, <1>8, <1>9, <1>10, <1>11, AsideKeeps

\* The application's stop or shutdown: it excuses whatever does not run.
LEMMA HaltKeeps ==
    ASSUME IInv, AppStops \/ Shutdown
    PROVE  IInv'
<1>1. /\ UNCHANGED << given, todo, result, pushed, inForce, started, cancelled, refused >>
      /\ engine \in {"stopped", "running"} /\ engine' \in {"stopped", "closed"}
      /\ disturbed' = TRUE
      /\ sources' = [s \in DOMAIN sources |-> [sources[s] EXCEPT !.running = FALSE]]
      /\ queries' = [q \in DOMAIN queries |-> [queries[q] EXCEPT !.status = "Stopped"]]
      /\ reactions' = [r \in DOMAIN reactions |-> [reactions[r] EXCEPT !.running = FALSE]]
  BY DEF AppStops, Shutdown, Halted, HandedOut
<1>2. Known
  BY DEF IInv
<1>3. /\ DOMAIN sources' = DOMAIN sources /\ DOMAIN queries' = DOMAIN queries
      /\ DOMAIN reactions' = DOMAIN reactions
      /\ sources' \in [DOMAIN sources -> [kind : {e.kind : e \in Declared("sources")},
                                          auto : BOOLEAN, running : BOOLEAN]]
      /\ queries' \in [DOMAIN queries -> [auto : BOOLEAN, status : Statuses]]
      /\ reactions' \in [DOMAIN reactions ->
                         [queryIds : {{}} \union {e.queryIds : e \in Declared("reactions")},
                          auto : BOOLEAN, running : BOOLEAN]]
  <2>1. /\ DOMAIN sources' = DOMAIN sources
        /\ sources' \in [DOMAIN sources -> [kind : {e.kind : e \in Declared("sources")},
                                            auto : BOOLEAN, running : BOOLEAN]]
    BY <1>1, <1>2 DEF Known
  <2>2. /\ DOMAIN queries' = DOMAIN queries
        /\ queries' \in [DOMAIN queries -> [auto : BOOLEAN, status : Statuses]]
    BY <1>1, <1>2 DEF Known, Statuses
  <2>3. /\ DOMAIN reactions' = DOMAIN reactions
        /\ reactions' \in [DOMAIN reactions ->
                           [queryIds : {{}} \union {e.queryIds : e \in Declared("reactions")},
                            auto : BOOLEAN, running : BOOLEAN]]
    BY <1>1, <1>2 DEF Known
  <2> QED
    BY <2>1, <2>2, <2>3
<1>4. /\ \A s \in DOMAIN sources : sources'[s].auto = sources[s].auto
      /\ \A q \in DOMAIN queries : queries'[q].auto = queries[q].auto
      /\ \A q \in DOMAIN queries : queries'[q].status = "Stopped"
      /\ \A r \in DOMAIN reactions : /\ reactions'[r].auto = reactions[r].auto
                                      /\ reactions'[r].queryIds = reactions[r].queryIds
  BY <1>1, <1>2 DEF Known, Statuses
<1>5. Keeps
  BY <1>1, <1>3, <1>4 DEF Keeps
<1>6. Tidy'
  BY <1>1 DEF Tidy
<1>7. Known'
  <2>1. /\ Declared("sources")' = Declared("sources") /\ Declared("queries")' = Declared("queries")
        /\ Declared("reactions")' = Declared("reactions")
    BY <1>1, SameSetup
  <2> QED
    BY <1>2, <1>3, <1>4, <2>1 DEF Known, Ids
<1>8. engine' \in Engines /\ {cancelled', disturbed', refused'} \subseteq BOOLEAN
      /\ started' \subseteq Ids(Declared("queries"))
  BY <1>1 DEF IInv, TypeOK, Engines
<1>9. (engine = "none" <=> engine' = "none") /\ UNCHANGED << todo, result, pushed >>
  BY <1>1
<1> QED
  BY <1>5, <1>6, <1>7, <1>8, <1>9, AsideKeeps

\* The host's cancellation, or no step at all.
LEMMA CancelKeeps ==
    ASSUME IInv, Cancel \/ UNCHANGED vars
    PROVE  IInv'
<1>1. /\ UNCHANGED << given, todo, result, pushed, inForce, started, engine, sources, queries,
                      reactions, disturbed, refused >>
      /\ cancelled' \in {cancelled, TRUE}
  BY DEF Cancel, vars, topology
<1>2. Keeps
  BY <1>1 DEF Keeps
<1>3. Known' /\ (result' \in {None, "ok"} => Tidy')
  <2>1. /\ Declared("sources")' = Declared("sources") /\ Declared("queries")' = Declared("queries")
        /\ Declared("reactions")' = Declared("reactions")
    BY <1>1, SameSetup
  <2>2. Known'
    BY <1>1, <2>1 DEF IInv, Known, Ids
  <2> QED
    BY <1>1, <2>2 DEF IInv, Tidy
<1>4. engine' \in Engines /\ {cancelled', disturbed', refused'} \subseteq BOOLEAN
      /\ started' \subseteq Ids(Declared("queries"))
  BY <1>1 DEF IInv, TypeOK, Engines
<1> QED
  BY <1>1, <1>2, <1>3, <1>4, AsideKeeps

--------------------------------------------------------------------------------
(* The calls of the bring-up                                                    *)

\* Where the bring-up is when it makes a call.
LEMMA CallBegins ==
    ASSUME IInv, NEW op, MayCall(op)
    PROVE  /\ result = None /\ todo # << >> /\ given \in Setups /\ Next1.op = op
           /\ \/ op # "wait" /\ \E k \in 0..Len(Plan) :
                    Underway(k, 0) /\ k < Len(Plan) /\ Next1 = Plan[k + 1]
              \/ op \in {"start", "wait"} /\ \E k \in 1..Len(Plan) :
                    /\ Underway(k, 1) /\ Plan[k] \in Elements(Plan)
                    /\ Plan[k].op \in {"ask", "query"} /\ Next1 = Puts(Plan[k])
<1>1. result = None /\ todo # << >> /\ given \in Setups /\ Next1.op = op
  BY DEF MayCall, IInv, TypeOK
<1>2. PICK k \in 0..Len(Plan), x \in {0, 1} : Underway(k, x)
  BY <1>1 DEF IInv, Progress
<1>3. At(k, x)
  BY <1>2 DEF Underway
<1>4. CASE x = 0
  <2>1. k < Len(Plan) /\ Next1 = Plan[k + 1] /\ Next1 \in Elements(Plan)
    BY <1>1, <1>3, <1>4, NextCall
  <2>2. op # "wait"
    <3>1. ASSUME NEW c, c = Next1
          PROVE  c.op # "wait"
      BY <1>1, <2>1, <3>1, PlannedCalls
    <3> QED
      BY <1>1, <3>1
  <2> QED
    BY <1>1, <1>2, <1>4, <2>1, <2>2
<1>5. CASE x = 1
  <2>1. /\ k \in 1..Len(Plan) /\ Next1 = Puts(Plan[k]) /\ Plan[k] \in Elements(Plan)
        /\ Plan[k].op \in {"ask", "query"}
    BY <1>1, <1>3, <1>5, NextCall
  <2>2. op \in {"start", "wait"}
    BY <1>1, <2>1 DEF Puts, Call
  <2> QED
    BY <1>1, <1>2, <1>5, <2>1, <2>2
<1> QED
  BY <1>4, <1>5

\* The engine is made before anything else is called.
LEMMA EngineIsThere ==
    ASSUME IInv, NEW op, MayCall(op)
    PROVE  op = "create" <=> engine = "none"
<1>1. /\ result = None /\ given \in Setups /\ Next1.op = op
      /\ \/ \E k \in 0..Len(Plan) : Underway(k, 0) /\ k < Len(Plan) /\ Next1 = Plan[k + 1]
         \/ op # "create" /\ \E k \in 1..Len(Plan) : Underway(k, 1)
  BY CallBegins
<1>2. CASE op # "create" /\ \E k \in 1..Len(Plan) : Underway(k, 1)
  <2>1. PICK k \in 1..Len(Plan) : Underway(k, 1)
    BY <1>2
  <2>2. k # 0
    BY <1>1, PlanIsTyped
  <2> QED
    BY <1>2, <2>1, <2>2 DEF Underway
<1>3. CASE \E k \in 0..Len(Plan) : Underway(k, 0) /\ k < Len(Plan) /\ Next1 = Plan[k + 1]
  <2>1. PICK k \in 0..Len(Plan) : Underway(k, 0) /\ k < Len(Plan) /\ Next1 = Plan[k + 1]
    BY <1>3
  <2>2. Plan[1].op = "create" /\ (\A i \in 2..Len(Plan) : Plan[i].op # "create") /\ Len(Plan) \in Nat
    BY <1>1, PlanPlaces, PlanIsTyped DEF CreatesOnce, Call
  <2>3. op = "create" <=> k = 0
    <3>1. CASE k = 0
      <4>1. k + 1 = 1
        BY <3>1
      <4> QED
        BY <1>1, <2>1, <2>2, <3>1, <4>1
    <3>2. CASE k # 0
      <4>1. k + 1 \in 2..Len(Plan)
        BY <2>1, <2>2, <3>2
      <4> QED
        BY <1>1, <2>1, <2>2, <3>2, <4>1
    <3> QED
      BY <3>1, <3>2
  <2> QED
    BY <2>1, <2>3 DEF Underway
<1> QED
  BY <1>1, <1>2, <1>3

\* Whatever a call that succeeds does, this is left to show of it.
LEMMA CallEnds ==
    ASSUME IInv, result = None, Keeps, NEW rest, Proceed(rest),
           \E k \in 0..Len(Plan), x \in {0, 1} : Underway(k, x)',
           Tidy', Known', SeedsFindTopology', engine' \in Engines,
           UNCHANGED << cancelled, disturbed, refused, started >>
    PROVE  IInv'
<1>1. result' = None <=> todo' # << >>
  <2>1. None # "ok"
    BY SetupAssumption
  <2> QED
    BY <2>1 DEF Proceed
<1>2. Len(pushed') <= Len(Seeds)
  <2>1. PICK k \in 0..Len(Plan) : Pushed(k)'
    BY DEF Underway
  <2>2. given \in Setups /\ Seeds' = Seeds /\ Front' = Front /\ Plan' = Plan /\ given' = given
    BY SameSetup DEF Keeps, IInv, TypeOK
  <2>3. Front \in Nat /\ Len(Seeds) \in Nat /\ Len(Plan) = Front + Len(Seeds)
    BY <2>2, PlanPlaces
  <2> DEFINE n == IF k <= Front THEN 0 ELSE k - Front
  <2>4. n \in Nat /\ n <= Len(Seeds)
    BY <2>3
  <2>5. pushed' = [j \in 1..n |-> PushOf(Seeds[j])]
    BY <2>1, <2>2 DEF Pushed
  <2> HIDE DEF n
  <2>6. Len(pushed') = n
    BY <2>4, <2>5
  <2> QED
    BY <2>4, <2>6
<1>3. {cancelled', disturbed', refused'} \subseteq BOOLEAN /\ started' \subseteq Ids(Declared("queries"))
  BY DEF IInv, TypeOK
<1> QED
  BY <1>1, <1>2, <1>3, StepEnds

\* A call that pushes nothing and starts nothing.
LEMMA QuietCallEnds ==
    ASSUME IInv, NEW op, op \notin {"start", "wait", "push"}, MayCall(op), Keeps, Proceed(Tail(todo)),
           \A c : c = Next1 => Added(c)' /\ Followed(c)',
           Tidy', Known', engine' \in Engines \ {"none"},
           UNCHANGED << pushed, cancelled, disturbed, refused, started >>
    PROVE  IInv'
<1>1. /\ result = None /\ given \in Setups /\ Next1.op = op
      /\ \E k \in 0..Len(Plan) : Underway(k, 0) /\ k < Len(Plan) /\ Next1 = Plan[k + 1]
  BY CallBegins
<1>2. PICK k \in 0..Len(Plan) : Underway(k, 0) /\ k < Len(Plan) /\ Next1 = Plan[k + 1]
  BY <1>1
<1>3. Pushed(k + 1)'
  BY <1>1, <1>2, SeedsInOrder DEF Underway, Keeps
<1>4. Underway(k + 1, 0)'
  BY <1>1, <1>2, <1>3, GoesOn DEF Proceed
<1>5. k + 1 \in 0..Len(Plan)
  BY <1>1, <1>2, PlanIsTyped
<1>6. SeedsFindTopology'
  BY SeedsStayBehind DEF IInv
<1> QED
  BY <1>1, <1>4, <1>5, <1>6, CallEnds

\* LoadPluginsAsync, and the Engine that FromConfigAsync makes.
LEMMA PlainCallsKeep ==
    ASSUME IInv, Wrap \/ LoadPlugins
    PROVE  IInv'
<1>1. /\ UNCHANGED << given, engine, inForce, sources, queries, reactions, pushed, cancelled,
                      started, disturbed, refused >>
      /\ \E op \in {"wrap", "load"} : MayCall(op)
      /\ Proceed(Tail(todo))
  BY DEF Wrap, LoadPlugins, Succeed, Passes, topology
<1>2. PICK op \in {"wrap", "load"} : MayCall(op)
  BY <1>1
<1>3. /\ result = None /\ given \in Setups /\ Next1.op = op
      /\ \E k \in 0..Len(Plan) : Underway(k, 0) /\ k < Len(Plan) /\ Next1 = Plan[k + 1]
  BY <1>2, CallBegins
<1>4. Keeps
  BY <1>1 DEF Keeps
<1>5. \A c : c = Next1 => Added(c)' /\ Followed(c)'
  BY <1>3 DEF Added, Followed
<1>6. Tidy'
  BY <1>1, <1>3 DEF IInv, Tidy
<1>7. Known'
  <2>1. /\ Declared("sources")' = Declared("sources") /\ Declared("queries")' = Declared("queries")
        /\ Declared("reactions")' = Declared("reactions")
    BY <1>1, SameSetup
  <2> QED
    BY <1>1, <2>1 DEF IInv, Known, Ids
<1>8. engine # "none"
  BY <1>2, EngineIsThere
<1>9. engine' \in Engines \ {"none"}
  BY <1>1, <1>8 DEF IInv, TypeOK, Engines
<1> QED
  BY <1>1, <1>2, <1>4, <1>5, <1>6, <1>7, <1>9, QuietCallEnds

LEMMA CreateKeeps ==
    ASSUME IInv, Create
    PROVE  IInv'
<1>1. /\ UNCHANGED << given, sources, queries, reactions, pushed, cancelled, started, disturbed,
                      refused >>
      /\ MayCall("create") /\ Proceed(Tail(todo)) /\ engine' = "stopped"
      /\ inForce' = MergeCreateOptions(DocumentOptions, given.options)
  BY DEF Create, Succeed, Passes, topology
<1>2. engine = "none" /\ Next1.op = "create" /\ result = None
  BY <1>1, EngineIsThere, CallBegins
<1>3. Keeps
  BY <1>1, <1>2 DEF Keeps
<1>4. \A c : c = Next1 => Added(c)' /\ Followed(c)'
  <2>1. inForce' = MergeCreateOptions(DocumentOptions', given'.options)
    BY <1>1, SameSetup
  <2> QED
    BY <1>2, <2>1 DEF Added, Followed
<1>5. Tidy'
  BY <1>1, <1>2 DEF IInv, Tidy
<1>6. Known'
  <2>1. /\ Declared("sources")' = Declared("sources") /\ Declared("queries")' = Declared("queries")
        /\ Declared("reactions")' = Declared("reactions")
    BY <1>1, SameSetup
  <2> QED
    BY <1>1, <2>1 DEF IInv, Known, Ids
<1>7. engine' \in Engines \ {"none"}
  BY <1>1 DEF Engines
<1> QED
  BY <1>1, <1>3, <1>4, <1>5, <1>6, <1>7, QuietCallEnds

\* The entries of the calls that add something are declared, and their ids new.
LEMMA AddedEntries ==
    ASSUME IInv, NEW op \in {"source", "query", "reaction"}, MayCall(op), Fault = "ok"
    PROVE  /\ result = None /\ given \in Setups /\ engine # "none" /\ Next1.op = op
           /\ Next1 \in Elements(Plan) /\ Next1.native \in BOOLEAN
           /\ op = "source" => /\ Next1.entry \in Declared("sources")
                               /\ Next1.entry.id \notin DOMAIN sources
           /\ op = "query" => /\ Next1.entry \in IF Next1.native THEN Entries("queries").document
                                                 ELSE Entries("queries").builder
                              /\ Next1.entry.id \notin DOMAIN queries
           /\ op = "reaction" => /\ Next1.entry \in Declared("reactions")
                                 /\ Next1.entry.id \notin DOMAIN reactions
<1>1. engine # "none" /\ Next1.op = op /\ result = None /\ given \in Setups
  BY EngineIsThere, CallBegins
<1>2. Next1 \in Elements(Plan)
  <2>1. PICK k \in 0..Len(Plan) : k < Len(Plan) /\ Next1 = Plan[k + 1]
    BY CallBegins
  <2> QED
    BY <1>1, <2>1, PlanIsTyped
<1>3. PICK c : c = Next1
  OBVIOUS
<1>4. /\ c.op = "source" => \/ c.native = TRUE /\ c.entry \in Entries("sources").document
                            \/ c.native = FALSE /\ c.entry \in Entries("sources").builder
      /\ c.op = "query" => \/ c.native = TRUE /\ c.entry \in Entries("queries").document
                           \/ c.native = FALSE /\ c.entry \in Entries("queries").builder
      /\ c.op = "reaction" => \/ c.native = TRUE /\ c.entry \in Entries("reactions").document
                              \/ c.native = FALSE /\ c.entry \in Entries("reactions").builder
  BY <1>1, <1>2, <1>3, PlannedCalls
<1>5. Next1.op \in Ops
  BY <1>1 DEF Ops
<1>6. /\ op = "source" => Next1.entry.id \notin DOMAIN sources
      /\ op = "query" => Next1.entry.id \notin DOMAIN queries
      /\ op = "reaction" => Next1.entry.id \notin DOMAIN reactions
  BY <1>1, <1>5, FaultAnswers
<1> QED
  BY <1>1, <1>2, <1>3, <1>4, <1>6 DEF Declared

LEMMA AddSourceKeeps ==
    ASSUME IInv, AddSource
    PROVE  IInv'
<1> DEFINE id == Next1.entry.id
           auto == AutoStart(Read(FormOfCall, Next1.entry.autoStart))
           added == [kind |-> Next1.entry.kind, auto |-> auto,
                     running |-> auto /\ engine = "running"]
           S == [kind : {e.kind : e \in Declared("sources")}, auto : BOOLEAN, running : BOOLEAN]
<1>1. /\ UNCHANGED << given, engine, inForce, queries, reactions, pushed, cancelled, started,
                      disturbed, refused >>
      /\ MayCall("source") /\ Proceed(Tail(todo)) /\ Fault = "ok"
      /\ sources' = With(sources, id, added)
  BY DEF AddSource, Succeed, Passes
<1>2. engine # "none" /\ Next1.op = "source" /\ given \in Setups /\ result = None
  BY <1>1, AddedEntries
<1>3. Next1.entry \in Declared("sources") /\ id \notin DOMAIN sources
  BY <1>1, AddedEntries
<1>4. auto \in BOOLEAN /\ added \in S
  <2>1. auto \in BOOLEAN
    BY DEF AutoStart
  <2> HIDE DEF auto
  <2> QED
    BY <1>3, <2>1
<1>5. sources \in [DOMAIN sources -> S] /\ DOMAIN sources \subseteq Ids(Declared("sources"))
  BY DEF IInv, Known
<1> HIDE DEF S
<1>6. /\ sources' \in [DOMAIN sources' -> S] /\ DOMAIN sources' = DOMAIN sources \union {id}
      /\ sources'[id] = added /\ \A s \in DOMAIN sources : sources'[s] = sources[s]
  <2> DEFINE next == With(sources, id, added)
  <2> HIDE DEF id, added
  <2>1. /\ next \in [DOMAIN sources \union {id} -> S] /\ DOMAIN next = DOMAIN sources \union {id}
        /\ next[id] = added /\ \A s \in DOMAIN sources : next[s] = sources[s]
    BY <1>3, <1>4, <1>5 DEF With
  <2> HIDE DEF next
  <2>2. sources' = next
    BY <1>1 DEF next
  <2> QED
    BY <2>1, <2>2
<1>7. sources'[id].auto = auto /\ sources'[id].running = (engine = "running" /\ auto)
  BY <1>4, <1>6
<1> HIDE DEF auto, added
<1>8. Keeps
  BY <1>1, <1>6 DEF Keeps
<1>9. \A c : c = Next1 => Added(c)' /\ Followed(c)'
  <2>1. ASSUME NEW c, c = Next1
        PROVE  Added(c)' /\ Followed(c)'
    <3>1. c.op = "source" /\ c.entry.id = id
      BY <1>2, <2>1
    <3>2. FormOf(c)' = FormOfCall
      BY <1>1, <2>1, SameSetup DEF FormOf, FormOfCall
    <3>3. auto = AutoStart(Read(FormOf(c)', c.entry.autoStart))
      BY <2>1, <3>2 DEF auto
    <3>4. Added(c)'
      BY <1>6, <1>7, <3>1, <3>3 DEF Added
    <3> QED
      BY <3>1, <3>4 DEF Followed
  <2> QED
    BY <2>1
<1>10. Tidy'
  BY <1>1, <1>2, <1>6, <1>7 DEF IInv, Tidy
<1>11. Known'
  <2>1. /\ Declared("sources")' = Declared("sources") /\ Declared("queries")' = Declared("queries")
        /\ Declared("reactions")' = Declared("reactions")
    BY <1>1, SameSetup
  <2>2. id \in Ids(Declared("sources"))
    BY <1>3 DEF Ids
  <2>3. DOMAIN sources' \subseteq Ids(Declared("sources"))
    BY <1>5, <1>6, <2>2
  <2> QED
    BY <1>1, <1>6, <2>1, <2>3 DEF IInv, Known, Ids, S
<1>12. engine' \in Engines \ {"none"}
  BY <1>1, <1>2 DEF IInv, TypeOK, Engines
<1> QED
  BY <1>1, <1>8, <1>9, <1>10, <1>11, <1>12, QuietCallEnds
LEMMA AddReactionKeeps ==
    ASSUME IInv, AddReaction
    PROVE  IInv'
<1> DEFINE id == Next1.entry.id
           auto == AutoStart(Read(FormOfCall, Next1.entry.autoStart))
           ids == IF Next1.entry.queryIds = Absent THEN {} ELSE Next1.entry.queryIds
           added == [queryIds |-> ids, auto |-> auto,
                     running |-> auto /\ engine = "running"]
           S == [queryIds : {{}} \union {e.queryIds : e \in Declared("reactions")},
                 auto : BOOLEAN, running : BOOLEAN]
<1>1. /\ UNCHANGED << given, engine, inForce, sources, queries, pushed, cancelled, started,
                      disturbed, refused >>
      /\ MayCall("reaction") /\ Proceed(Tail(todo)) /\ Fault = "ok"
      /\ reactions' = With(reactions, id, added)
  BY DEF AddReaction, Succeed, Passes
<1>2. engine # "none" /\ Next1.op = "reaction" /\ given \in Setups /\ result = None
  BY <1>1, AddedEntries
<1>3. Next1.entry \in Declared("reactions") /\ id \notin DOMAIN reactions
  BY <1>1, AddedEntries
<1>4. auto \in BOOLEAN /\ added \in S
  <2>1. auto \in BOOLEAN
    BY DEF AutoStart
  <2>2. ids \in {{}} \union {e.queryIds : e \in Declared("reactions")}
    BY <1>3
  <2> HIDE DEF auto, ids
  <2> QED
    BY <2>1, <2>2
<1>5. reactions \in [DOMAIN reactions -> S] /\ DOMAIN reactions \subseteq Ids(Declared("reactions"))
  BY DEF IInv, Known
<1> HIDE DEF S
<1>6. /\ reactions' \in [DOMAIN reactions' -> S] /\ DOMAIN reactions' = DOMAIN reactions \union {id}
      /\ reactions'[id] = added /\ \A r \in DOMAIN reactions : reactions'[r] = reactions[r]
  <2> DEFINE next == With(reactions, id, added)
  <2> HIDE DEF id, added
  <2>1. /\ next \in [DOMAIN reactions \union {id} -> S] /\ DOMAIN next = DOMAIN reactions \union {id}
        /\ next[id] = added /\ \A r \in DOMAIN reactions : next[r] = reactions[r]
    BY <1>3, <1>4, <1>5 DEF With
  <2> HIDE DEF next
  <2>2. reactions' = next
    BY <1>1 DEF next
  <2> QED
    BY <2>1, <2>2
<1>7. reactions'[id].auto = auto /\ reactions'[id].running = (engine = "running" /\ auto)
      /\ reactions'[id].queryIds = ids
  BY <1>4, <1>6
<1> HIDE DEF auto, added, ids
<1>8. Keeps
  BY <1>1, <1>6 DEF Keeps
<1>9. \A c : c = Next1 => Added(c)' /\ Followed(c)'
  <2>1. ASSUME NEW c, c = Next1
        PROVE  Added(c)' /\ Followed(c)'
    <3>1. c.op = "reaction" /\ c.entry.id = id
      BY <1>2, <2>1
    <3>2. FormOf(c)' = FormOfCall
      BY <1>1, <2>1, SameSetup DEF FormOf, FormOfCall
    <3>3. auto = AutoStart(Read(FormOf(c)', c.entry.autoStart))
      BY <2>1, <3>2 DEF auto
    <3>4. Added(c)'
      BY <1>6, <1>7, <2>1, <3>1, <3>3 DEF Added, ids
    <3> QED
      BY <3>1, <3>4 DEF Followed
  <2> QED
    BY <2>1
<1>10. Tidy'
  BY <1>1, <1>2, <1>6, <1>7 DEF IInv, Tidy
<1>11. Known'
  <2>1. /\ Declared("sources")' = Declared("sources") /\ Declared("queries")' = Declared("queries")
        /\ Declared("reactions")' = Declared("reactions")
    BY <1>1, SameSetup
  <2>2. id \in Ids(Declared("reactions"))
    BY <1>3 DEF Ids
  <2>3. DOMAIN reactions' \subseteq Ids(Declared("reactions"))
    BY <1>5, <1>6, <2>2
  <2> QED
    BY <1>1, <1>6, <2>1, <2>3 DEF IInv, Known, Ids, S
<1>12. engine' \in Engines \ {"none"}
  BY <1>1, <1>2 DEF IInv, TypeOK, Engines
<1> QED
  BY <1>1, <1>8, <1>9, <1>10, <1>11, <1>12, QuietCallEnds

\* A builder's query that starts by itself is followed by the wait for it.
LEMMA AddQueryKeeps ==
    ASSUME IInv, AddQuery
    PROVE  IInv'
<1> DEFINE id == Next1.entry.id
           auto == Read(FormOfCall, QueryOfCall.autoStart) # "false"
           status == IF auto /\ engine = "running" THEN "Starting" ELSE "Stopped"
           added == [auto |-> auto, status |-> status]
           S == [auto : BOOLEAN, status : Statuses]
<1>1. /\ UNCHANGED << given, engine, inForce, sources, reactions, pushed, cancelled, started,
                      disturbed, refused >>
      /\ MayCall("query") /\ Proceed(ThenWait(Next1) \o Tail(todo)) /\ Fault = "ok"
      /\ queries' = With(queries, QueryOfCall.id, added)
  BY DEF AddQuery, Passes
<1>2. engine # "none" /\ Next1.op = "query" /\ given \in Setups /\ result = None
  BY <1>1, AddedEntries
<1>3. /\ Next1.native \in BOOLEAN /\ id \notin DOMAIN queries
      /\ Next1.entry \in IF Next1.native THEN Entries("queries").document
                         ELSE Entries("queries").builder
  BY <1>1, AddedEntries
<1>4. QueryOfCall.id = id
  BY DEF QueryOfCall, QueryEntry
<1>5. status \in Statuses /\ auto \in BOOLEAN /\ added \in S
  BY DEF Statuses
<1>6. queries \in [DOMAIN queries -> S] /\ DOMAIN queries \subseteq Ids(Declared("queries"))
  BY DEF IInv, Known
<1>7. (status # "Stopped" <=> engine = "running" /\ auto) /\ status # "Running"
  BY <1>5
<1> HIDE DEF S, auto, status
<1>8. added \in S /\ added.auto = auto /\ added.status = status
  BY <1>5
<1>9. /\ queries' \in [DOMAIN queries' -> S] /\ DOMAIN queries' = DOMAIN queries \union {id}
      /\ queries'[id] = added /\ \A q \in DOMAIN queries : queries'[q] = queries[q]
  <2> DEFINE next == With(queries, id, added)
  <2> HIDE DEF id, added
  <2>1. /\ next \in [DOMAIN queries \union {id} -> S] /\ DOMAIN next = DOMAIN queries \union {id}
        /\ next[id] = added /\ \A q \in DOMAIN queries : next[q] = queries[q]
    BY <1>3, <1>6, <1>8 DEF With
  <2> HIDE DEF next
  <2>2. queries' = next
    BY <1>1, <1>4 DEF next
  <2> QED
    BY <2>1, <2>2
<1>10. queries'[id].auto = auto /\ queries'[id].status = status
  BY <1>8, <1>9
<1> HIDE DEF added
<1>11. Keeps
  BY <1>1, <1>9 DEF Keeps
<1>12. \A c : c = Next1 => Added(c)'
  <2>1. ASSUME NEW c, c = Next1
        PROVE  Added(c)'
    <3>1. c.op = "query" /\ c.entry.id = id
      BY <1>2, <2>1
    <3>2. FormOf(c)' = FormOfCall
      BY <1>1, <2>1, SameSetup DEF FormOf, FormOfCall
    <3>3. QueryOf(c) = QueryOfCall
      BY <2>1 DEF QueryOf, QueryOfCall
    <3>4. auto = (Read(FormOf(c)', QueryOf(c).autoStart) # "false")
      BY <3>2, <3>3 DEF auto
    <3> QED
      BY <1>9, <1>10, <3>1, <3>4 DEF Added
  <2> QED
    BY <2>1
<1>13. Tidy'
  BY <1>1, <1>2, <1>7, <1>9, <1>10 DEF IInv, Tidy
<1>14. Known'
  <2>1. /\ Declared("sources")' = Declared("sources") /\ Declared("queries")' = Declared("queries")
        /\ Declared("reactions")' = Declared("reactions")
    BY <1>1, SameSetup
  <2>2. id \in Ids(Declared("queries"))
    BY <1>3 DEF Ids, Declared
  <2>3. DOMAIN queries' \subseteq Ids(Declared("queries"))
    BY <1>6, <1>9, <2>2
  <2>4. \A q \in DOMAIN queries' : queries'[q].status = "Running" => q \in started'
    BY <1>1, <1>7, <1>9, <1>10 DEF IInv, Known
  <2> QED
    BY <1>1, <1>9, <2>1, <2>3, <2>4 DEF IInv, Known, Ids, S
<1>15. engine' \in Engines \ {"none"}
  BY <1>1, <1>2 DEF IInv, TypeOK, Engines
<1>16. PICK k \in 0..Len(Plan) : Underway(k, 0) /\ k < Len(Plan) /\ Next1 = Plan[k + 1]
  BY <1>1, CallBegins
<1>17. CASE Next1.native \/ Next1.entry.options.autoStart = FALSE
  <2>1. ThenWait(Next1) \o Tail(todo) = Tail(todo)
    <3>1. ThenWait(Next1) = << >>
      BY <1>17 DEF ThenWait
    <3>2. todo \in Seq(Elements(Plan) \union {Puts(c) : c \in Elements(Plan)}) /\ todo # << >>
      BY <1>1, <1>16, CallBegins DEF Underway, At
    <3> QED
      BY <3>1, <3>2
  <2>2. Proceed(Tail(todo))
    BY <1>1, <2>1
  <2>3. \A c : c = Next1 => Followed(c)'
    BY <1>2, <1>17 DEF Followed
  <2> QED
    BY <1>1, <1>11, <1>12, <1>13, <1>14, <1>15, <2>2, <2>3, QuietCallEnds
<1>18. CASE ~(Next1.native \/ Next1.entry.options.autoStart = FALSE)
  <2>1. ThenWait(Next1) = << Puts(Next1) >>
    BY <1>2, <1>18 DEF ThenWait, Puts
  <2>2. todo' = << Puts(Next1) >> \o Tail(todo)
    BY <1>1, <2>1 DEF Proceed
  <2>3. Pushed(k + 1)'
    BY <1>1, <1>2, <1>16, SeedsInOrder DEF Underway
  <2>4. Underway(k + 1, 1)'
    BY <1>1, <1>2, <1>11, <1>12, <1>15, <1>16, <2>2, <2>3, PutsInFront
  <2>5. k + 1 \in 0..Len(Plan)
    BY <1>2, <1>16, PlanIsTyped
  <2>6. SeedsFindTopology'
    BY <1>1, <1>11, SeedsStayBehind DEF IInv
  <2> QED
    BY <1>1, <1>2, <1>11, <1>13, <1>14, <1>15, <2>4, <2>5, <2>6, CallEnds
<1> QED
  BY <1>17, <1>18

\* ApplyAsync asks whether the engine runs, and starts one that does not.
LEMMA AskKeeps ==
    ASSUME IInv, AskRunning
    PROVE  IInv'
<1>1. /\ UNCHANGED << given, engine, inForce, sources, queries, reactions, pushed, cancelled,
                      started, disturbed, refused >>
      /\ MayCall("ask")
      /\ engine = "running" => Proceed(Tail(todo))
      /\ engine # "running" => Proceed(<< Call("start", Absent, FALSE) >> \o Tail(todo))
  BY DEF AskRunning, topology
<1>2. engine # "none" /\ Next1.op = "ask" /\ given \in Setups /\ result = None
  BY <1>1, EngineIsThere, CallBegins
<1>3. Keeps
  BY <1>1 DEF Keeps
<1>4. \A c : c = Next1 => Added(c)'
  BY <1>2 DEF Added
<1>5. Tidy'
  BY <1>1, <1>2 DEF IInv, Tidy
<1>6. Known'
  <2>1. /\ Declared("sources")' = Declared("sources") /\ Declared("queries")' = Declared("queries")
        /\ Declared("reactions")' = Declared("reactions")
    BY <1>1, SameSetup
  <2> QED
    BY <1>1, <2>1 DEF IInv, Known, Ids
<1>7. engine' \in Engines \ {"none"}
  BY <1>1, <1>2 DEF IInv, TypeOK, Engines
<1>8. CASE engine = "running"
  <2>1. \A c : c = Next1 => Followed(c)'
    BY <1>1, <1>2, <1>8 DEF Followed
  <2> QED
    BY <1>1, <1>3, <1>4, <1>5, <1>6, <1>7, <1>8, <2>1, QuietCallEnds
<1>9. CASE engine # "running"
  <2>1. PICK k \in 0..Len(Plan) : Underway(k, 0) /\ k < Len(Plan) /\ Next1 = Plan[k + 1]
    BY <1>1, CallBegins
  <2>2. todo' = << Puts(Next1) >> \o Tail(todo)
    BY <1>1, <1>2, <1>9 DEF Proceed, Puts
  <2>3. Pushed(k + 1)'
    BY <1>1, <1>2, <2>1, SeedsInOrder DEF Underway
  <2>4. Underway(k + 1, 1)'
    BY <1>1, <1>2, <1>3, <1>4, <1>7, <2>1, <2>2, <2>3, PutsInFront
  <2>5. k + 1 \in 0..Len(Plan)
    BY <1>2, <2>1, PlanIsTyped
  <2>6. SeedsFindTopology'
    BY <1>1, <1>3, SeedsStayBehind DEF IInv
  <2> QED
    BY <1>1, <1>2, <1>3, <1>5, <1>6, <1>7, <1>9, <2>4, <2>5, <2>6, CallEnds
<1> QED
  BY <1>8, <1>9

\* FromConfig's start, or the one that ApplyAsync has put there.
LEMMA StartKeeps ==
    ASSUME IInv, Start
    PROVE  IInv'
<1>1. /\ UNCHANGED << given, inForce, pushed, cancelled, started, disturbed, refused >>
      /\ MayCall("start") /\ Proceed(Tail(todo)) /\ engine' = "running"
      /\ sources' = [s \in DOMAIN sources |->
                       [sources[s] EXCEPT !.running = @ \/ sources[s].auto]]
      /\ queries' = [q \in DOMAIN queries |->
                       [queries[q] EXCEPT !.status =
                           IF queries[q].auto /\ @ = "Stopped" THEN "Starting" ELSE @]]
      /\ reactions' = [r \in DOMAIN reactions |->
                         [reactions[r] EXCEPT !.running = @ \/ reactions[r].auto]]
  BY DEF Start, Succeed, Passes
<1>2. engine # "none" /\ Next1.op = "start" /\ given \in Setups /\ result = None
  BY <1>1, EngineIsThere, CallBegins
<1>3. Known
  BY DEF IInv
<1>4. /\ DOMAIN sources' = DOMAIN sources /\ DOMAIN queries' = DOMAIN queries
      /\ DOMAIN reactions' = DOMAIN reactions
      /\ sources' \in [DOMAIN sources -> [kind : {e.kind : e \in Declared("sources")},
                                          auto : BOOLEAN, running : BOOLEAN]]
      /\ queries' \in [DOMAIN queries -> [auto : BOOLEAN, status : Statuses]]
      /\ reactions' \in [DOMAIN reactions ->
                         [queryIds : {{}} \union {e.queryIds : e \in Declared("reactions")},
                          auto : BOOLEAN, running : BOOLEAN]]
  <2>1. /\ DOMAIN sources' = DOMAIN sources
        /\ sources' \in [DOMAIN sources -> [kind : {e.kind : e \in Declared("sources")},
                                            auto : BOOLEAN, running : BOOLEAN]]
    BY <1>1, <1>3 DEF Known
  <2>2. /\ DOMAIN queries' = DOMAIN queries
        /\ queries' \in [DOMAIN queries -> [auto : BOOLEAN, status : Statuses]]
    BY <1>1, <1>3 DEF Known, Statuses
  <2>3. /\ DOMAIN reactions' = DOMAIN reactions
        /\ reactions' \in [DOMAIN reactions ->
                           [queryIds : {{}} \union {e.queryIds : e \in Declared("reactions")},
                            auto : BOOLEAN, running : BOOLEAN]]
    BY <1>1, <1>3 DEF Known
  <2> QED
    BY <2>1, <2>2, <2>3
<1>5. /\ \A s \in DOMAIN sources :
            /\ sources'[s].auto = sources[s].auto
            /\ sources'[s].running = (sources[s].running \/ sources[s].auto)
      /\ \A q \in DOMAIN queries :
            /\ queries'[q].auto = queries[q].auto
            /\ queries'[q].status = IF queries[q].auto /\ queries[q].status = "Stopped"
                                    THEN "Starting" ELSE queries[q].status
      /\ \A r \in DOMAIN reactions :
            /\ reactions'[r].auto = reactions[r].auto
            /\ reactions'[r].queryIds = reactions[r].queryIds
            /\ reactions'[r].running = (reactions[r].running \/ reactions[r].auto)
  BY <1>1, <1>3 DEF Known, Statuses
<1>6. Keeps
  BY <1>1, <1>4, <1>5 DEF Keeps
<1>7. Tidy'
  <2>1. SUFFICES ASSUME ~disturbed
                 PROVE  Tidy'
    BY <1>1 DEF Tidy
  <2>2. Tidy
    BY DEF IInv
  <2>3. engine \in {"stopped", "running"}
    BY <1>2, <2>1, <2>2 DEF Tidy
  <2>4. ASSUME NEW s \in DOMAIN sources
        PROVE  sources'[s].running <=> sources'[s].auto
    <3>1. sources[s].running <=> engine = "running" /\ sources[s].auto
      BY <1>2, <2>1, <2>2 DEF Tidy
    <3> QED
      BY <1>5, <2>3, <3>1
  <2>5. ASSUME NEW q \in DOMAIN queries
        PROVE  queries'[q].status # "Stopped" <=> queries'[q].auto
    <3>1. queries[q].status # "Stopped" <=> engine = "running" /\ queries[q].auto
      BY <1>2, <2>1, <2>2 DEF Tidy
    <3> QED
      BY <1>5, <2>3, <3>1
  <2>6. ASSUME NEW r \in DOMAIN reactions
        PROVE  reactions'[r].running <=> reactions'[r].auto
    <3>1. reactions[r].running <=> engine = "running" /\ reactions[r].auto
      BY <1>2, <2>1, <2>2 DEF Tidy
    <3> QED
      BY <1>5, <2>3, <3>1
  <2> QED
    BY <1>1, <1>4, <2>4, <2>5, <2>6 DEF Tidy
<1>8. Known'
  <2>1. /\ Declared("sources")' = Declared("sources") /\ Declared("queries")' = Declared("queries")
        /\ Declared("reactions")' = Declared("reactions")
    BY <1>1, SameSetup
  <2>2. \A q \in DOMAIN queries : queries'[q].status = "Running" => q \in started'
    BY <1>1, <1>3, <1>5 DEF Known
  <2> QED
    BY <1>3, <1>4, <2>1, <2>2 DEF Known, Ids
<1>9. SeedsFindTopology'
  BY <1>1, <1>6, SeedsStayBehind DEF IInv
<1>10. engine' \in Engines /\ engine' # "none"
  BY <1>1 DEF Engines
<1>11. \E k \in 0..Len(Plan), x \in {0, 1} : Underway(k, x)'
  <2>1. CASE \E k \in 0..Len(Plan) : Underway(k, 0) /\ k < Len(Plan) /\ Next1 = Plan[k + 1]
    <3>1. PICK k \in 0..Len(Plan) : Underway(k, 0) /\ k < Len(Plan) /\ Next1 = Plan[k + 1]
      BY <2>1
    <3>2. \A c : c = Next1 => Added(c)' /\ Followed(c)'
      BY <1>1, <1>2 DEF Added, Followed
    <3>3. Pushed(k + 1)'
      BY <1>1, <1>2, <3>1, SeedsInOrder DEF Underway
    <3>4. Underway(k + 1, 0)'
      BY <1>1, <1>2, <1>6, <1>10, <3>1, <3>2, <3>3, GoesOn DEF Proceed
    <3>5. k + 1 \in 0..Len(Plan)
      BY <1>2, <3>1, PlanIsTyped
    <3> QED
      BY <3>4, <3>5
  <2>2. CASE \E k \in 1..Len(Plan) : /\ Underway(k, 1) /\ Plan[k] \in Elements(Plan)
                                     /\ Plan[k].op \in {"ask", "query"} /\ Next1 = Puts(Plan[k])
    <3>1. PICK k \in 1..Len(Plan) : /\ Underway(k, 1) /\ Plan[k].op \in {"ask", "query"}
                                    /\ Next1 = Puts(Plan[k])
      BY <2>2
    <3>2. Plan[k].op = "ask"
      BY <1>2, <3>1 DEF Puts, Call
    <3>3. \A c : c = Plan[k] => Followed(c)'
      BY <1>1, <3>2 DEF Followed
    <3>4. Underway(k, 0)'
      BY <1>1, <1>2, <1>6, <1>10, <3>1, <3>3, FrontIsDone DEF Proceed
    <3>5. k \in 0..Len(Plan)
      BY <1>2, PlanIsTyped
    <3> QED
      BY <3>4, <3>5
  <2> QED
    BY <1>1, <2>1, <2>2, CallBegins
<1> QED
  BY <1>1, <1>2, <1>6, <1>7, <1>8, <1>9, <1>10, <1>11, CallEnds

LEMMA WaitKeeps ==
    ASSUME IInv, WaitRunning
    PROVE  IInv'
<1>1. /\ UNCHANGED << given, engine, inForce, sources, queries, reactions, pushed, cancelled,
                      started, disturbed, refused >>
      /\ MayCall("wait") /\ Proceed(Tail(todo))
      /\ queries[Next1.entry.id].status = "Running"
  BY DEF WaitRunning, topology
<1>2. engine # "none" /\ Next1.op = "wait" /\ given \in Setups /\ result = None
  BY <1>1, EngineIsThere, CallBegins
<1>3. Keeps
  BY <1>1 DEF Keeps
<1>4. PICK k \in 1..Len(Plan) : /\ Underway(k, 1) /\ Plan[k].op \in {"ask", "query"}
                                /\ Next1 = Puts(Plan[k])
  BY <1>1, CallBegins
<1>5. Plan[k].op = "query" /\ Next1.entry = Plan[k].entry
  BY <1>2, <1>4 DEF Puts, Call
<1>6. Plan[k].entry.id \in DOMAIN queries
  <2>1. k \in 1..k
    BY <1>2, PlanIsTyped
  <2>2. Added(Plan[k])
    BY <1>4, <2>1 DEF Underway
  <2> QED
    BY <1>5, <2>2 DEF Added
<1>7. \A c : c = Plan[k] => Followed(c)'
  <2>1. Plan[k].entry.id \in started'
    BY <1>1, <1>5, <1>6 DEF IInv, Known
  <2> QED
    BY <1>5, <2>1 DEF Followed
<1>8. Underway(k, 0)'
  BY <1>1, <1>2, <1>3, <1>4, <1>7, FrontIsDone DEF Proceed
<1>9. k \in 0..Len(Plan)
  BY <1>2, PlanIsTyped
<1>10. Tidy'
  BY <1>1, <1>2 DEF IInv, Tidy
<1>11. Known'
  <2>1. /\ Declared("sources")' = Declared("sources") /\ Declared("queries")' = Declared("queries")
        /\ Declared("reactions")' = Declared("reactions")
    BY <1>1, SameSetup
  <2> QED
    BY <1>1, <2>1 DEF IInv, Known, Ids
<1>12. engine' \in Engines
  BY <1>1 DEF IInv, TypeOK, Engines
<1>13. SeedsFindTopology'
  BY <1>1, <1>3, SeedsStayBehind DEF IInv
<1> QED
  BY <1>1, <1>2, <1>3, <1>8, <1>9, <1>10, <1>11, <1>12, <1>13, CallEnds

\* The first seed comes after everything that has to be there for it.
LEMMA PushKeeps ==
    ASSUME IInv, Push
    PROVE  IInv'
<1>1. /\ UNCHANGED << given, engine, inForce, sources, queries, reactions, cancelled,
                      started, disturbed, refused >>
      /\ MayCall("push") /\ Proceed(Tail(todo))
      /\ pushed' = Append(pushed, PushOf(Next1.entry))
  BY DEF Push, Succeed, Passes, PushOf
<1>2. engine # "none" /\ Next1.op = "push" /\ given \in Setups /\ result = None
  BY <1>1, EngineIsThere, CallBegins
<1>3. PICK k \in 0..Len(Plan) : Underway(k, 0) /\ k < Len(Plan) /\ Next1 = Plan[k + 1]
  BY <1>1, CallBegins
<1>4. Keeps
  BY <1>1 DEF Keeps
<1>5. k >= Front /\ Pushed(k + 1)'
  BY <1>1, <1>2, <1>3, SeedsInOrder DEF Underway
<1>6. \A c : c = Next1 => Added(c)' /\ Followed(c)'
  BY <1>2 DEF Added, Followed
<1>7. Underway(k + 1, 0)'
  BY <1>1, <1>2, <1>3, <1>4, <1>5, <1>6, GoesOn DEF Proceed
<1>8. k + 1 \in 0..Len(Plan)
  BY <1>2, <1>3, PlanIsTyped
<1>9. \A c \in FrontSet : Added(c) /\ Followed(c)
  <2>1. ASSUME NEW c \in FrontSet
        PROVE  Added(c) /\ Followed(c)
    <3>1. PICK i \in 1..Front : Plan[i] = c
      BY <1>2, PlanPlaces
    <3>2. i \in 1..k
      BY <1>2, <1>5, PlanPlaces
    <3> QED
      BY <1>3, <3>1, <3>2 DEF Underway
  <2> QED
    BY <2>1
<1>10. SeedsFindTopology'
  <2>1. /\ Entries("queries")' = Entries("queries") /\ Entries("reactions")' = Entries("reactions")
        /\ Declared("sources")' = Declared("sources")
    BY <1>1, SameSetup
  <2>2. ASSUME NEW q \in Entries("queries").builder, q.options.autoStart # FALSE
        PROVE  q.id \in started
    <3>1. Followed(Call("query", q, FALSE))
      BY <1>2, <1>9, EveryEntryIsPlanned
    <3> QED
      BY <2>2, <3>1 DEF Followed, Call
  <2>3. ASSUME NEW e \in Entries("reactions").builder
        PROVE  e.id \in DOMAIN reactions
    <3>1. Added(Call("reaction", e, FALSE))
      BY <1>2, <1>9, EveryEntryIsPlanned
    <3> QED
      BY <3>1 DEF Added, Call
  <2>4. ASSUME NEW e \in Declared("sources")
        PROVE  e.id \in DOMAIN sources
    <3>1. Added(Call("source", e, TRUE)) \/ Added(Call("source", e, FALSE))
      BY <1>2, <1>9, EveryEntryIsPlanned DEF Declared
    <3> QED
      BY <3>1 DEF Added, Call
  <2> QED
    BY <1>1, <2>1, <2>2, <2>3, <2>4 DEF SeedsFindTopology, Ids
<1>11. Tidy'
  BY <1>1, <1>2 DEF IInv, Tidy
<1>12. Known'
  <2>1. /\ Declared("sources")' = Declared("sources") /\ Declared("queries")' = Declared("queries")
        /\ Declared("reactions")' = Declared("reactions")
    BY <1>1, SameSetup
  <2> QED
    BY <1>1, <2>1 DEF IInv, Known, Ids
<1>13. engine' \in Engines
  BY <1>1 DEF IInv, TypeOK, Engines
<1> QED
  BY <1>1, <1>2, <1>4, <1>7, <1>8, <1>10, <1>11, <1>12, <1>13, CallEnds

LEMMA FailuresKeep ==
    ASSUME IInv, WaitFails \/ CallFails \/ CoreRefuses \/ ObserveCancel
    PROVE  IInv'
<1>1. None \notin Codes \union {"ok", "cancelled"} /\ "ok" \notin Codes
  BY SetupAssumption DEF Codes, UnknownKinds, ConfigCodes, SourceCodes
<1>2. refused \in BOOLEAN
  BY DEF IInv, TypeOK
<1>3. CASE WaitFails \/ CoreRefuses
  <2>1. result = None /\ Throw("EngineFailure") /\ refused' = TRUE
    BY <1>3 DEF WaitFails, CoreRefuses, MayCall
  <2>2. "EngineFailure" \in Codes
    BY DEF Codes
  <2> QED
    BY <1>1, <2>1, <2>2, ThrowKeeps
<1>4. CASE CallFails
  <2>1. MayCall(Next1.op) /\ Fault # "ok" /\ Throw(Fault) /\ refused' = refused
    BY <1>4 DEF CallFails
  <2>2. result = None /\ todo # << >> /\ given \in Setups
    BY <2>1, CallBegins
  <2>3. Next1.op \in Ops
    <3>1. PICK k \in 0..Len(Plan), x \in {0, 1} : Underway(k, x)
      BY <2>2 DEF IInv, Progress
    <3> QED
      BY <2>2, <3>1, NextCall DEF Underway
  <2>4. Fault \in Codes
    BY <2>1, <2>3, FaultAnswers
  <2>5. PICK code : code = Fault
    OBVIOUS
  <2>6. Throw(code) /\ code \notin {None, "ok"}
    BY <1>1, <2>1, <2>4, <2>5
  <2> QED
    BY <1>2, <2>1, <2>2, <2>6, ThrowKeeps
<1>5. CASE ObserveCancel
  BY <1>1, <1>2, <1>5, ThrowKeeps DEF ObserveCancel
<1> QED
  BY <1>3, <1>4, <1>5

--------------------------------------------------------------------------------
(* The theorems                                                                 *)

LEMMA Begins ==
    ASSUME Init
    PROVE  IInv
<1>1. /\ given \in Setups /\ todo = Plan /\ engine = "none" /\ sources = Empty /\ queries = Empty
      /\ reactions = Empty /\ pushed = << >> /\ result = None /\ cancelled = FALSE
      /\ started = {} /\ disturbed = FALSE /\ refused = FALSE
  BY DEF Init, Plan
<1>2. DOMAIN sources = {} /\ DOMAIN queries = {} /\ DOMAIN reactions = {}
  BY <1>1 DEF Empty
<1>3. /\ IsList(Plan) /\ Len(Plan) > 0 /\ Len(Plan) \in Nat
      /\ Front \in Nat /\ Len(Seeds) \in Nat
  BY <1>1, PlanPlaces, PlanIsTyped DEF CreatesOnce
<1>4. todo # << >>
  BY <1>1, <1>3
<1>5. TypeOK
  <2>1. Len(pushed) <= Len(Seeds)
    BY <1>1, <1>3
  <2>2. {cancelled, disturbed, refused} \subseteq BOOLEAN
    BY <1>1
  <2> QED
    BY <1>1, <1>2, <1>4, <2>1, <2>2 DEF TypeOK
<1>6. Progress
  <2>1. At(0, 0)
    <3>1. Plan \in Seq(Elements(Plan) \union {Puts(c) : c \in Elements(Plan)})
      BY <1>3 DEF IsList
    <3> QED
      BY <1>1, <1>3, <3>1 DEF At
  <2>2. Pushed(0)
    BY <1>1, <1>3 DEF Pushed
  <2>3. Underway(0, 0)
    BY <1>1, <2>1, <2>2 DEF Underway
  <2> QED
    BY <1>3, <2>3 DEF Progress
<1>7. Tidy /\ Known /\ SeedsFindTopology
  BY <1>1, <1>2 DEF Tidy, Known, SeedsFindTopology, Empty
<1> QED
  BY <1>5, <1>6, <1>7 DEF IInv

LEMMA StepKeeps ==
    ASSUME IInv, [Next]_vars
    PROVE  IInv'
<1>1. CASE BringUpStep
  BY <1>1, CreateKeeps, PlainCallsKeep, AskKeeps, StartKeeps, AddSourceKeeps, AddQueryKeeps,
     AddReactionKeeps, PushKeeps, WaitKeeps, FailuresKeep DEF BringUpStep
<1>2. CASE \E q \in DOMAIN queries : QueryRuns(q) \/ QueryBreaks(q)
  BY <1>2, QueryStepsKeep
<1>3. CASE AppStops \/ Shutdown
  BY <1>3, HaltKeeps
<1>4. CASE Cancel \/ UNCHANGED vars
  BY <1>4, CancelKeeps
<1> QED
  BY <1>1, <1>2, <1>3, <1>4 DEF Next

LEMMA Inductive == Spec => []IInv
<1>1. Init => IInv
  BY Begins
<1>2. IInv /\ [Next]_vars => IInv'
  BY StepKeeps
<1> QED
  BY <1>1, <1>2, PTL DEF Spec

\* The bring-up has an answer exactly when no call is left, and what is in the
\* engine has the shapes that engine.rs gives it, for any setup.
THEOREM TypeCorrect == Spec => []TypeOK
BY Inductive, PTL DEF IInv

\* No seed is pushed before everything that is to see it is there and has run,
\* whatever is declared and whoever stops what meanwhile (DrasiBuilder.Seed).
THEOREM SeedsComeLast == Spec => []SeedsFindTopology
BY Inductive, PTL DEF IInv

LEMMA DoneIsAll ==
    ASSUME IInv, result = "ok"
    PROVE  /\ given \in Setups /\ Underway(Len(Plan), 0)
           /\ \A c \in FrontSet : Added(c) /\ Followed(c)
<1>1. given \in Setups /\ todo = << >>
  <2>1. None # "ok"
    BY SetupAssumption
  <2> QED
    BY <2>1 DEF IInv, TypeOK
<1>2. PICK k \in 0..Len(Plan), x \in {0, 1} : Underway(k, x)
  BY DEF IInv, Progress
<1>3. Len(todo) = x + Len(Plan) - k /\ Len(todo) = 0
  BY <1>1, <1>2 DEF Underway, At
<1>4. k = Len(Plan) /\ x = 0
  BY <1>1, <1>3, PlanIsTyped
<1>5. \A i \in 1..Len(Plan) : Added(Plan[i]) /\ Followed(Plan[i])
  BY <1>2, <1>4 DEF Underway
<1>6. ASSUME NEW c \in FrontSet
      PROVE  Added(c) /\ Followed(c)
  <2>1. PICK i \in 1..Front : Plan[i] = c
    BY <1>1, PlanPlaces
  <2>2. i \in 1..Len(Plan)
    BY <1>1, PlanPlaces
  <2> QED
    BY <1>5, <2>1, <2>2
<1> QED
  BY <1>1, <1>2, <1>4, <1>6

\* A bring-up that succeeds leaves an engine that runs, and in it running what
\* is to start by itself and nothing else, unless the application intervened:
\* engine.rs starts the engine first, and ApplyAsync asks and starts it.
THEOREM WhatStartsByItselfRuns == Spec => []AutoStartTakesEffect
<1>1. IInv => AutoStartTakesEffect
  <2>1. SUFFICES ASSUME IInv, result = "ok", ~disturbed
                 PROVE  /\ engine = "running"
                        /\ \A s \in DOMAIN sources : sources[s].running = sources[s].auto
                        /\ \A q \in DOMAIN queries : queries[q].auto <=> queries[q].status # "Stopped"
                        /\ \A r \in DOMAIN reactions : reactions[r].running = reactions[r].auto
    BY DEF AutoStartTakesEffect
  <2>2. given \in Setups /\ \A c \in FrontSet : Followed(c)
    BY <2>1, DoneIsAll
  <2>3. engine = "running"
    <3>1. Followed(Call("start", Absent, TRUE)) \/ Followed(Call("ask", Absent, FALSE))
      BY <2>2, EveryEntryIsPlanned
    <3> QED
      BY <2>1, <3>1 DEF Followed, Call
  <2>4. /\ \A s \in DOMAIN sources : sources[s].auto \in BOOLEAN /\ sources[s].running \in BOOLEAN
        /\ \A r \in DOMAIN reactions :
              reactions[r].auto \in BOOLEAN /\ reactions[r].running \in BOOLEAN
    BY <2>1 DEF IInv, TypeOK
  <2> QED
    BY <2>1, <2>3, <2>4 DEF IInv, Tidy
<1> QED
  BY <1>1, Inductive, PTL

\* What a configuration's text says of a flag is what the flag becomes.
LEMMA FlagsAreRead ==
    ASSUME NEW form, NEW flag \in BOOLEAN, NEW v,
           v \in IF flag THEN {Absent, "true"}
                ELSE {"false"} \union (IF form = "configuration" THEN {"text false"} ELSE {})
    PROVE  (Read(form, v) # "false") = flag
<1>1. Absent \notin {"true", "false", "text false", "number", "negative"}
  BY SetupAssumption
<1>2. CASE flag = TRUE
  <2>1. v \in {Absent, "true"}
    BY <1>2
  <2>2. Read(form, v) = v /\ v # "false"
    BY <1>1, <2>1 DEF Read, Coerce
  <2> QED
    BY <1>2, <2>2
<1>3. CASE flag = FALSE
  <2>1. v = "false" \/ (v = "text false" /\ form = "configuration")
    BY <1>3
  <2>2. Read(form, v) = "false"
    BY <2>1 DEF Read, Coerce
  <2> QED
    BY <1>3, <2>2
<1> QED
  BY <1>2, <1>3

\* What an entry says of its flag, in the words of the form of its call.
LEMMA WhatEntriesSay ==
    ASSUME given \in Setups, NEW flag \in BOOLEAN,
           NEW field \in {"sources", "reactions"}, NEW e \in Declared(field), Says(e, field, flag)
    PROVE  e.autoStart \in IF flag THEN {Absent, "true"}
                           ELSE {"false"} \union (IF e \in Entries(field).document
                                                    /\ Form = "configuration"
                                                  THEN {"text false"} ELSE {})
<1>1. "options" \notin DOMAIN e
  <2>1. CASE e \in Entries(field).document
    <3>1. Document # Absent /\ e \in Elements(Document[field])
      BY <2>1 DEF Entries
    <3>2. DOMAIN e \in {{"id", "kind", "autoStart", "bootstrap"}, {"id", "kind", "queryIds", "autoStart"}}
      <4>1. CASE field = "sources"
        BY <3>1, <4>1, SetupAssumption DEF ListOf, Document
      <4>2. CASE field = "reactions"
        BY <3>1, <4>2, SetupAssumption DEF ListOf, Document
      <4> QED
        BY <4>1, <4>2
    <3> QED
      BY <3>2
  <2>2. CASE e \in Entries(field).builder
    <3>1. Builder # Absent /\ e \in Elements(Builder[field])
      BY <2>2 DEF Entries
    <3>2. DOMAIN e \in {{"id", "kind", "autoStart", "bootstrap"}, {"id", "kind", "queryIds", "autoStart"}}
      <4>1. CASE field = "sources"
        BY <3>1, <4>1, SetupAssumption DEF ListOf, Builder
      <4>2. CASE field = "reactions"
        BY <3>1, <4>2, SetupAssumption DEF ListOf, Builder
      <4> QED
        BY <4>1, <4>2
    <3> QED
      BY <3>2
  <2> QED
    BY <2>1, <2>2 DEF Declared
<1> QED
  BY <1>1 DEF Says

LEMMA FlagsAreKept ==
    ASSUME IInv, result = "ok", NEW flag \in BOOLEAN
    PROVE  /\ \A e \in Declared("sources") :
                 Says(e, "sources", flag) => sources[e.id].auto = flag
           /\ \A e \in Declared("queries") :
                 Says(e, "queries", flag) => queries[e.id].auto = flag
           /\ \A e \in Declared("reactions") :
                 Says(e, "reactions", flag) => reactions[e.id].auto = flag
<1>1. given \in Setups /\ \A c \in FrontSet : Added(c)
  BY DoneIsAll
<1>2. ASSUME NEW field \in {"sources", "reactions"}, NEW e \in Declared(field),
             Says(e, field, flag), NEW native \in BOOLEAN, native <=> e \in Entries(field).document
      PROVE  AutoStart(Read(IF native THEN Form ELSE "json", e.autoStart)) = flag
  <2> DEFINE form == IF native THEN Form ELSE "json"
  <2>1. e.autoStart \in IF flag THEN {Absent, "true"}
                        ELSE {"false"} \union (IF form = "configuration" THEN {"text false"} ELSE {})
    <3>1. form = "configuration" <=> e \in Entries(field).document /\ Form = "configuration"
      BY <1>2
    <3> HIDE DEF form
    <3> QED
      BY <1>1, <1>2, <3>1, WhatEntriesSay
  <2> HIDE DEF form
  <2>2. (Read(form, e.autoStart) # "false") = flag
    BY <2>1, FlagsAreRead
  <2> QED
    BY <2>2 DEF AutoStart, form
<1>3. ASSUME NEW e \in Declared("sources"), Says(e, "sources", flag)
      PROVE  sources[e.id].auto = flag
  <2>1. CASE e \in Entries("sources").document
    <3>1. Added(Call("source", e, TRUE))
      BY <1>1, <2>1, EveryEntryIsPlanned
    <3> QED
      BY <1>2, <1>3, <2>1, <3>1 DEF Added, Call, FormOf
  <2>2. CASE e \notin Entries("sources").document
    <3>1. Added(Call("source", e, FALSE))
      BY <1>1, <1>3, <2>2, EveryEntryIsPlanned DEF Declared
    <3> QED
      BY <1>2, <1>3, <2>2, <3>1 DEF Added, Call, FormOf
  <2> QED
    BY <2>1, <2>2
<1>4. ASSUME NEW e \in Declared("reactions"), Says(e, "reactions", flag)
      PROVE  reactions[e.id].auto = flag
  <2>1. CASE e \in Entries("reactions").document
    <3>1. Added(Call("reaction", e, TRUE))
      BY <1>1, <2>1, EveryEntryIsPlanned
    <3> QED
      BY <1>2, <1>4, <2>1, <3>1 DEF Added, Call, FormOf
  <2>2. CASE e \notin Entries("reactions").document
    <3>1. Added(Call("reaction", e, FALSE))
      BY <1>1, <1>4, <2>2, EveryEntryIsPlanned DEF Declared
    <3> QED
      BY <1>2, <1>4, <2>2, <3>1 DEF Added, Call, FormOf
  <2> QED
    BY <2>1, <2>2
<1>5. ASSUME NEW e \in Entries("queries").document, Says(e, "queries", flag)
      PROVE  queries[e.id].auto = flag
  <2>1. "options" \notin DOMAIN e
    <3>1. Document # Absent /\ e \in Elements(Document["queries"])
      BY <1>5 DEF Entries
    <3>2. DOMAIN e = {"id", "query", "sources", "autoStart", "capacity",
                      "language", "joins", "dispatchMode"}
      BY <1>1, <3>1, SetupAssumption DEF ListOf, Document
    <3> QED
      BY <3>2
  <2>2. e.autoStart \in IF flag THEN {Absent, "true"}
                        ELSE {"false"} \union (IF Form = "configuration" THEN {"text false"} ELSE {})
    BY <1>5, <2>1 DEF Says
  <2>3. (Read(Form, e.autoStart) # "false") = flag
    BY <2>2, FlagsAreRead
  <2>4. Added(Call("query", e, TRUE))
    BY <1>1, <1>5, EveryEntryIsPlanned
  <2> QED
    BY <2>3, <2>4 DEF Added, Call, FormOf, QueryOf
<1>6. ASSUME NEW e \in Entries("queries").builder, Says(e, "queries", flag)
      PROVE  queries[e.id].auto = flag
  <2>1. DOMAIN e = {"id", "options"} /\ e.options.autoStart \in {Absent, TRUE, FALSE}
    <3>1. Builder # Absent /\ e \in Elements(Builder["queries"])
      BY <1>6 DEF Entries
    <3> QED
      BY <1>1, <3>1, SetupAssumption DEF ListOf, Builder
  <2>2. flag <=> e.options.autoStart # FALSE
    <3>1. "options" \in DOMAIN e
      BY <2>1
    <3> QED
      BY <1>6, <3>1 DEF Says
  <2>3. Added(Call("query", e, FALSE))
    BY <1>1, <1>6, EveryEntryIsPlanned
  <2>4. queries[e.id].auto = (QueryEntry(e).autoStart # "false")
    BY <2>3 DEF Added, Call, FormOf, QueryOf, Read
  <2>5. QueryEntry(e).autoStart # "false" <=> e.options.autoStart # FALSE
    <3>1. Absent \notin BOOLEAN /\ Absent # "false"
      BY SetupAssumption
    <3>2. QueryEntry(e).autoStart = CASE e.options.autoStart = Absent -> Absent
                                      [] e.options.autoStart = TRUE -> "true"
                                      [] e.options.autoStart = FALSE -> "false"
      BY DEF QueryEntry, ToQueryOptionsJson
    <3> QED
      BY <2>1, <3>1, <3>2
  <2> QED
    BY <2>2, <2>4, <2>5
<1> QED
  BY <1>3, <1>4, <1>5, <1>6 DEF Declared

\* A bring-up that succeeds builds what was declared, all of it and nothing
\* else, with the flags and queries that were written, the seeds in their order
\* and the document's create options before the caller's, whatever the form of
\* the document and however entries are divided between it and the builder.
THEOREM WhatIsDeclaredIsBuilt == Spec => []BuiltAsDeclared
<1>1. ASSUME IInv
      PROVE  BuiltAsDeclared
  <2>1. SUFFICES ASSUME result = "ok"
                 PROVE  BuiltAsDeclared
    BY DEF BuiltAsDeclared
  <2>2. given \in Setups /\ Underway(Len(Plan), 0) /\ \A c \in FrontSet : Added(c)
    BY <1>1, <2>1, DoneIsAll
  <2>3. /\ Ids(Declared("sources")) \subseteq DOMAIN sources
        /\ Ids(Declared("queries")) \subseteq DOMAIN queries
        /\ Ids(Declared("reactions")) \subseteq DOMAIN reactions
    <3>1. ASSUME NEW e \in Declared("sources")
          PROVE  e.id \in DOMAIN sources
      <4>1. Added(Call("source", e, TRUE)) \/ Added(Call("source", e, FALSE))
        BY <2>2, EveryEntryIsPlanned DEF Declared
      <4> QED
        BY <4>1 DEF Added, Call
    <3>2. ASSUME NEW e \in Declared("queries")
          PROVE  e.id \in DOMAIN queries
      <4>1. Added(Call("query", e, TRUE)) \/ Added(Call("query", e, FALSE))
        BY <2>2, EveryEntryIsPlanned DEF Declared
      <4> QED
        BY <4>1 DEF Added, Call
    <3>3. ASSUME NEW e \in Declared("reactions")
          PROVE  e.id \in DOMAIN reactions
      <4>1. Added(Call("reaction", e, TRUE)) \/ Added(Call("reaction", e, FALSE))
        BY <2>2, EveryEntryIsPlanned DEF Declared
      <4> QED
        BY <4>1 DEF Added, Call
    <3> QED
      BY <3>1, <3>2, <3>3 DEF Ids
  <2>4. /\ DOMAIN sources = Ids(Declared("sources"))
        /\ DOMAIN queries = Ids(Declared("queries"))
        /\ DOMAIN reactions = Ids(Declared("reactions"))
    BY <1>1, <2>3 DEF IInv, Known
  <2>5. ASSUME NEW e \in Declared("reactions"), e.queryIds # Absent
        PROVE  reactions[e.id].queryIds = e.queryIds
    <3>1. Added(Call("reaction", e, TRUE)) \/ Added(Call("reaction", e, FALSE))
      BY <2>2, EveryEntryIsPlanned DEF Declared
    <3> QED
      BY <2>5, <3>1 DEF Added, Call
  <2>6. pushed = [j \in 1..Len(Seeds) |-> PushOf(Seeds[j])] /\ DOMAIN Seeds = 1..Len(Seeds)
    <3>1. Front \in Nat /\ Len(Seeds) \in Nat /\ Len(Plan) = Front + Len(Seeds)
      BY <2>2, PlanPlaces
    <3>2. (IF Len(Plan) <= Front THEN 0 ELSE Len(Plan) - Front) = Len(Seeds)
      BY <3>1
    <3>3. pushed = [j \in 1..Len(Seeds) |-> PushOf(Seeds[j])]
      BY <2>2, <3>2 DEF Underway, Pushed
    <3>4. DOMAIN Seeds = 1..Len(Seeds)
      BY <2>2, PlanParts DEF IsList
    <3> QED
      BY <3>3, <3>4
  <2>7. ASSUME NEW i \in DOMAIN Seeds
        PROVE  LET change == pushed[i].change
               IN  /\ << pushed[i].source, change.op, change.id >>
                        = << Seeds[i].source, Seeds[i].op, Seeds[i].id >>
                   /\ change.element = "relation"
                        <=> Seeds[i].op # "delete" /\ Seeds[i].startId /\ Seeds[i].endId
    <3>1. pushed[i] = PushOf(Seeds[i])
      BY <2>6
    <3>2. Seeds[i].startId \in BOOLEAN /\ Seeds[i].endId \in BOOLEAN
      <4>1. Builder # Absent /\ Seeds = Builder.seeds
        BY DEF Seeds
      <4>2. Seeds[i] \in Elements(Builder.seeds)
        BY <4>1 DEF Elements
      <4> QED
        BY <2>2, <4>1, <4>2, SetupAssumption DEF Builder
    <3> QED
      BY <3>1, <3>2 DEF PushOf, SourceChangeOf
  <2>8. inForce = Settings
    <3>1. Added(Call("create", Absent, TRUE))
      BY <2>2, EveryEntryIsPlanned
    <3>2. inForce = MergeCreateOptions(DocumentOptions, given.options)
      BY <3>1 DEF Added, Call
    <3> QED
      BY <3>2 DEF MergeCreateOptions, Settings
  <2>9. DOMAIN pushed = DOMAIN Seeds
    BY <2>6
  <2> QED
    BY <1>1, <2>1, <2>4, <2>5, <2>7, <2>8, <2>9, FlagsAreKept DEF BuiltAsDeclared
<1> QED
  BY <1>1, Inductive, PTL

--------------------------------------------------------------------------------
(* An answer is about what is wrong                                             *)

\* The entries of the calls of a kind that are over when k calls of the plan are.
Over(op, k) == {Plan[i].entry : i \in {j \in 1..k : Plan[j].op = op}}

\* Nothing was wrong with what is over; the options, the kinds and the components
\* there are, are those of the calls that are over, each under its own id.
Checked(k) ==
    /\ \A i \in 1..k : ~IsWrong(Plan[i])
    /\ k > 0 => inForce = Settings
    /\ k > 0 => kinds = Available(TRUE) \union {p.kind : p \in Over("load", k)}
    /\ DOMAIN sources = Ids(Over("source", k))
    /\ DOMAIN queries = Ids(Over("query", k))
    /\ DOMAIN reactions = Ids(Over("reaction", k))
    /\ \A e \in Over("source", k) : sources[e.id].kind = e.kind
    /\ \A i, j \in 1..k :
          i # j /\ Plan[i].op \in {"source", "query", "reaction"} /\ Plan[i].op = Plan[j].op
            => Plan[i].entry.id # Plan[j].entry.id

Judged ==
    /\ result \in {None, "ok"} => \E k \in 0..Len(Plan), x \in {0, 1} : At(k, x) /\ Checked(k)
    /\ result \notin {None, "ok"} => ErrorsAreDeserved

\* What a call leaves behind, as far as that goes.
Leaves(c) ==
    /\ given' = given
    /\ inForce' = IF c.op = "create" THEN Settings ELSE inForce
    /\ kinds' = IF c.op = "create" THEN Available(TRUE)
                ELSE IF c.op = "load" THEN kinds \union {c.entry.kind} ELSE kinds
    /\ DOMAIN sources' = DOMAIN sources \union IF c.op = "source" THEN {c.entry.id} ELSE {}
    /\ DOMAIN queries' = DOMAIN queries \union IF c.op = "query" THEN {c.entry.id} ELSE {}
    /\ DOMAIN reactions' =
          DOMAIN reactions \union IF c.op = "reaction" THEN {c.entry.id} ELSE {}
    /\ \A s \in DOMAIN sources : sources'[s].kind = sources[s].kind
    /\ c.op = "source" => sources'[c.entry.id].kind = c.entry.kind

\* Nothing new.
Same ==
    /\ UNCHANGED << given, inForce, kinds >>
    /\ DOMAIN sources' = DOMAIN sources
    /\ DOMAIN queries' = DOMAIN queries
    /\ DOMAIN reactions' = DOMAIN reactions
    /\ \A s \in DOMAIN sources : sources'[s].kind = sources[s].kind

LEMMA SameIsWrong ==
    ASSUME given' = given
    PROVE  /\ Plan' = Plan /\ Settings' = Settings /\ Available(TRUE)' = Available(TRUE)
           /\ \A op, k : Over(op, k)' = Over(op, k)
           /\ \A c : IsWrong(c)' = IsWrong(c)
           /\ \A ops : Flawed(ops)' = Flawed(ops)
           /\ SomeIdTwice' = SomeIdTwice
<1>1. /\ Plan' = Plan /\ DocumentOptions' = DocumentOptions /\ Form' = Form
      /\ Document' = Document /\ Builder' = Builder /\ Declared("sources")' = Declared("sources")
  BY SameSetup
<1>2. Snake' = Snake /\ Settings' = Settings
  BY <1>1 DEF Snake, Settings
<1>3. \A native : Available(native)' = Available(native)
  BY <1>1, <1>2 DEF Available
<1>4. OptionsAreWrong' = OptionsAreWrong
  BY <1>1, <1>2 DEF OptionsAreWrong
<1>5. \A q : QueryIsWrong(q)' = QueryIsWrong(q)
  BY <1>1 DEF QueryIsWrong
<1>6. \A r, available : ReactionIsWrong(r, available)' = ReactionIsWrong(r, available)
  BY <1>2 DEF ReactionIsWrong
<1>7. \A c : SeedIsWrong(c)' = SeedIsWrong(c)
  BY <1>1 DEF SeedIsWrong
<1>8. ASSUME NEW c
      PROVE  IsWrong(c)' = IsWrong(c)
  BY <1>1, <1>3, <1>4, <1>5, <1>6, <1>7 DEF IsWrong
<1>9. \A op, k : Over(op, k)' = Over(op, k)
  BY <1>1 DEF Over
<1>10. \A ops : Flawed(ops)' = Flawed(ops)
  BY <1>8 DEF Flawed
<1>11. SomeIdTwice' = SomeIdTwice
  BY DEF SomeIdTwice
<1> QED
  BY <1>1, <1>2, <1>3, <1>8, <1>9, <1>10, <1>11

\* One more call is over.
LEMMA OneMoreIsOver ==
    ASSUME given \in Setups, NEW k \in 0..Len(Plan), k < Len(Plan), NEW op
    PROVE  /\ Plan[k + 1].op = op => Over(op, k + 1) = Over(op, k) \union {Plan[k + 1].entry}
           /\ Plan[k + 1].op # op => Over(op, k + 1) = Over(op, k)
<1>1. Len(Plan) \in Nat
  BY PlanIsTyped
<1>2. \A i : i \in 1..(k + 1) <=> i \in 1..k \/ i = k + 1
  BY <1>1
<1>3. CASE Plan[k + 1].op = op
  <2>1. {j \in 1..(k + 1) : Plan[j].op = op} = {j \in 1..k : Plan[j].op = op} \union {k + 1}
    BY <1>2, <1>3
  <2> QED
    BY <1>3, <2>1 DEF Over
<1>4. CASE Plan[k + 1].op # op
  <2>1. {j \in 1..(k + 1) : Plan[j].op = op} = {j \in 1..k : Plan[j].op = op}
    BY <1>2, <1>4
  <2> QED
    BY <1>4, <2>1 DEF Over
<1> QED
  BY <1>3, <1>4

\* The place in the plan, as calls end and are put in front of the others.
LEMMA PlaceMoves ==
    ASSUME given \in Setups, given' = given,
           NEW k \in 0..Len(Plan), NEW x \in {0, 1}, At(k, x), todo # << >>
    PROVE  /\ todo' = Tail(todo) => At(IF x = 0 THEN k + 1 ELSE k, 0)'
           /\ x = 0 /\ Plan[k + 1].op \in {"ask", "query"}
                /\ todo' = << Puts(Plan[k + 1]) >> \o Tail(todo) => At(k + 1, 1)'
           /\ todo' = todo => At(k, x)'
<1> DEFINE S == Elements(Plan) \union {Puts(c) : c \in Elements(Plan)}
<1>1. Plan' = Plan /\ \A c : Puts(c)' = Puts(c)
  BY SameSetup DEF Puts, Call
<1>2. /\ Len(Plan) \in Nat
      /\ x = 0 => k < Len(Plan) /\ Plan[k + 1] \in Elements(Plan)
  BY PlanIsTyped, NextCall
<1>3. todo \in Seq(S) /\ Len(todo) = x + Len(Plan) - k
      /\ \A i \in 1..(Len(Plan) - k) : todo[x + i] = Plan[k + i]
  BY DEF At
<1>4. S' = S
  BY <1>1
<1>5. ASSUME todo' = Tail(todo)
      PROVE  At(IF x = 0 THEN k + 1 ELSE k, 0)'
  <2> HIDE DEF S
  <2>1. todo' \in Seq(S) /\ Len(todo') = x + Len(Plan) - k - 1
        /\ \A i \in 1..Len(todo') : todo'[i] = todo[i + 1]
    BY <1>2, <1>3, <1>5
  <2>2. CASE x = 0
    <3>1. ASSUME NEW i \in 1..(Len(Plan) - (k + 1))
          PROVE  todo'[0 + i] = Plan[(k + 1) + i]
      <4>1. todo'[0 + i] = todo[0 + (i + 1)] /\ i + 1 \in 1..(Len(Plan) - k)
        BY <1>2, <2>1, <2>2
      <4>2. todo[0 + (i + 1)] = Plan[k + (i + 1)] /\ k + (i + 1) = (k + 1) + i
        BY <1>3, <2>2, <4>1
      <4> QED
        BY <4>1, <4>2
    <3>2. Len(todo') = 0 + Len(Plan) - (k + 1)
      BY <1>2, <2>1, <2>2
    <3>3. At(k + 1, 0)'
      BY <1>1, <1>4, <2>1, <3>1, <3>2 DEF At, S
    <3> QED
      BY <2>2, <3>3
  <2>3. CASE x = 1
    <3>1. ASSUME NEW i \in 1..(Len(Plan) - k)
          PROVE  todo'[0 + i] = Plan[k + i]
      <4>1. todo'[0 + i] = todo[1 + i]
        BY <1>2, <2>1, <2>3
      <4> QED
        BY <1>3, <2>3, <4>1
    <3>2. Len(todo') = 0 + Len(Plan) - k
      BY <1>2, <2>1, <2>3
    <3>3. todo' \in Seq(S)' /\ Len(todo') = 0 + Len(Plan)' - k
      BY <1>1, <1>4, <2>1, <3>2
    <3>4. \A i \in 1..(Len(Plan)' - k) : todo'[0 + i] = Plan'[k + i]
      BY <1>1, <3>1
    <3>5. At(k, 0)'
      BY <3>3, <3>4 DEF At, S
    <3> QED
      BY <2>3, <3>5
  <2> QED
    BY <2>2, <2>3
<1>6. ASSUME x = 0, Plan[k + 1].op \in {"ask", "query"},
             todo' = << Puts(Plan[k + 1]) >> \o Tail(todo)
      PROVE  At(k + 1, 1)'
  <2>1. Puts(Plan[k + 1]) \in S
    BY <1>2, <1>6
  <2> DEFINE put == Puts(Plan[k + 1])
  <2> HIDE DEF S, put
  <2>2. Tail(todo) \in Seq(S) /\ Len(Tail(todo)) = Len(Plan) - (k + 1)
        /\ \A i \in 1..Len(Tail(todo)) : Tail(todo)[i] = todo[i + 1]
    BY <1>2, <1>3, <1>6
  <2>3. todo' \in Seq(S) /\ Len(todo') = 1 + Len(Plan) - (k + 1) /\ todo'[1] = put
        /\ \A i \in 1..Len(Tail(todo)) : todo'[1 + i] = Tail(todo)[i]
    BY <1>2, <1>6, <2>1, <2>2 DEF put
  <2>4. ASSUME NEW i \in 1..(Len(Plan) - (k + 1))
        PROVE  todo'[1 + i] = Plan[(k + 1) + i]
    <3>1. todo'[1 + i] = todo[0 + (i + 1)] /\ i + 1 \in 1..(Len(Plan) - k)
      BY <1>2, <2>2, <2>3
    <3>2. todo[0 + (i + 1)] = Plan[k + (i + 1)] /\ k + (i + 1) = (k + 1) + i
      BY <1>3, <1>6, <3>1
    <3> QED
      BY <3>1, <3>2
  <2> QED
    BY <1>1, <1>2, <1>4, <1>6, <2>3, <2>4 DEF At, S, put
<1>7. ASSUME todo' = todo
      PROVE  At(k, x)'
  BY <1>1, <1>7 DEF At
<1> QED
  BY <1>5, <1>6, <1>7

\* The native part loads nothing, and the builder loads before all else.
Ordered(s) ==
    \A i, j \in 1..Len(s) :
        s[j].op = "load" => /\ s[i].native => i < j
                            /\ ~s[i].native /\ s[i].op # "load" => j < i

OnlyNative(s) == \A c \in Elements(s) : c.native = TRUE /\ c.op # "load"
NeverNative(s) == \A c \in Elements(s) : c.native = FALSE
NeverLoads(s) == \A c \in Elements(s) : c.op # "load"

LEMMA InOneOfTwo ==
    ASSUME NEW s, NEW t, IsList(s), IsList(t), NEW i \in 1..Len(s \o t)
    PROVE  /\ Len(s) \in Nat /\ Len(t) \in Nat /\ Len(s \o t) = Len(s) + Len(t)
           /\ \/ i \in 1..Len(s) /\ (s \o t)[i] = s[i] /\ s[i] \in Elements(s)
              \/ /\ i - Len(s) \in 1..Len(t) /\ i > Len(s)
                 /\ (s \o t)[i] = t[i - Len(s)] /\ t[i - Len(s)] \in Elements(t)
<1>1. Len(s) \in Nat /\ Len(t) \in Nat /\ Len(s \o t) = Len(s) + Len(t)
  BY ListsAreJoined DEF IsList
<1>2. CASE i \in 1..Len(s)
  <2>1. (s \o t)[i] = s[i]
    BY <1>2, ListsAreJoined
  <2>2. s[i] \in Elements(s)
    BY <1>2 DEF Elements, IsList
  <2> QED
    BY <1>1, <1>2, <2>1, <2>2
<1>3. CASE i \notin 1..Len(s)
  <2>1. i - Len(s) \in 1..Len(t) /\ i > Len(s) /\ Len(s) + (i - Len(s)) = i
    BY <1>1, <1>3
  <2>2. (s \o t)[i] = t[i - Len(s)]
    BY <2>1, ListsAreJoined
  <2>3. t[i - Len(s)] \in Elements(t)
    BY <2>1 DEF Elements, IsList
  <2> QED
    BY <1>1, <2>1, <2>2, <2>3
<1> QED
  BY <1>2, <1>3

LEMMA LaterCallsInOrder ==
    ASSUME NEW s, NEW t, IsList(s), IsList(t), Ordered(s), NeverNative(s), NeverNative(t),
           NeverLoads(t)
    PROVE  IsList(s \o t) /\ Ordered(s \o t) /\ NeverNative(s \o t)
<1>1. ASSUME NEW i \in 1..Len(s \o t), NEW j \in 1..Len(s \o t), (s \o t)[j].op = "load"
      PROVE  /\ (s \o t)[i].native => i < j
             /\ ~(s \o t)[i].native /\ (s \o t)[i].op # "load" => j < i
  <2>1. j \in 1..Len(s) /\ (s \o t)[j] = s[j] /\ Len(s) \in Nat
    BY <1>1, InOneOfTwo DEF NeverLoads
  <2>2. CASE i \in 1..Len(s) /\ (s \o t)[i] = s[i]
    BY <1>1, <2>1, <2>2 DEF Ordered
  <2>3. CASE i > Len(s) /\ (s \o t)[i] \in Elements(t)
    BY <2>1, <2>3 DEF NeverNative
  <2> QED
    BY <2>2, <2>3, InOneOfTwo
<1>2. IsList(s \o t) /\ NeverNative(s \o t)
  BY ListsAreJoined DEF NeverNative
<1> QED
  BY <1>1, <1>2 DEF Ordered

LEMMA NativeCallsInOrder ==
    ASSUME NEW s, NEW t, IsList(s), IsList(t), OnlyNative(s), NeverNative(t), Ordered(t)
    PROVE  Ordered(s \o t)
<1>1. ASSUME NEW i \in 1..Len(s \o t), NEW j \in 1..Len(s \o t), (s \o t)[j].op = "load"
      PROVE  /\ (s \o t)[i].native => i < j
             /\ ~(s \o t)[i].native /\ (s \o t)[i].op # "load" => j < i
  <2>1. /\ j - Len(s) \in 1..Len(t) /\ j > Len(s) /\ Len(s) \in Nat
        /\ (s \o t)[j] = t[j - Len(s)]
    BY <1>1, InOneOfTwo DEF OnlyNative
  <2>2. CASE i \in 1..Len(s) /\ (s \o t)[i] \in Elements(s)
    BY <2>1, <2>2 DEF OnlyNative
  <2>3. CASE i - Len(s) \in 1..Len(t) /\ (s \o t)[i] = t[i - Len(s)]
    <3>1. /\ t[i - Len(s)].native => i - Len(s) < j - Len(s)
          /\ ~t[i - Len(s)].native /\ t[i - Len(s)].op # "load" => j - Len(s) < i - Len(s)
      <4>1. t[j - Len(s)].op = "load"
        BY <1>1, <2>1
      <4> QED
        BY <2>1, <2>3, <4>1 DEF Ordered
    <3>2. i \in Nat /\ j \in Nat
      OBVIOUS
    <3> QED
      BY <2>1, <2>3, <3>1, <3>2
  <2> QED
    BY <2>2, <2>3, InOneOfTwo
<1> QED
  BY <1>1 DEF Ordered

LEMMA PlanIsOrdered ==
    ASSUME given \in Setups
    PROVE  Ordered(Plan)
<1> DEFINE native == IF Document = Absent THEN << Call("create", Absent, TRUE) >>
                     ELSE DocumentCalls(Document)
<1>1. IsList(native) /\ OnlyNative(native)
  <2>1. CASE Document = Absent
    <3>1. native = << Call("create", Absent, TRUE) >>
      BY <2>1
    <3> HIDE DEF native
    <3>2. IsList(native) /\ Elements(native) = {Call("create", Absent, TRUE)}
      BY <3>1, ElementsOfOne DEF IsList
    <3> QED
      BY <3>2 DEF OnlyNative, Call
  <2>2. CASE Document # Absent
    <3>1. /\ IsList(DocumentCalls(Document))
          /\ Elements(DocumentCalls(Document)) =
                {Call("create", Absent, TRUE), Call("start", Absent, TRUE),
                 Call("wrap", Absent, TRUE)}
                  \union CallsWith("source", Elements(Document.sources), TRUE)
                  \union CallsWith("query", Elements(Document.queries), TRUE)
                  \union CallsWith("reaction", Elements(Document.reactions), TRUE)
      BY <2>2, GivenLists, DocumentPart
    <3> QED
      BY <2>2, <3>1 DEF OnlyNative, CallsWith, Call
  <2> HIDE DEF native
  <2> QED
    BY <2>1, <2>2
<1> HIDE DEF native
<1>2. CASE Builder = Absent
  <2>1. Plan = native \o << >>
    BY <1>2 DEF Plan, CallsOf, native, Document, Builder
  <2>2. IsList(<< >>) /\ NeverNative(<< >>) /\ Ordered(<< >>)
    BY DEF IsList, NeverNative, Ordered, Elements
  <2> QED
    BY <1>1, <2>1, <2>2, NativeCallsInOrder
<1>3. CASE Builder # Absent
  <2> DEFINE ls == CallEach("load", Builder.plugins, FALSE)
             ask == << Call("ask", Absent, FALSE) >>
             ss == CallEach("source", Builder.sources, FALSE)
             qs == CallEach("query", Builder.queries, FALSE)
             rs == CallEach("reaction", Builder.reactions, FALSE)
             ps == CallEach("push", Builder.seeds, FALSE)
  <2>1. Plan = native \o (ls \o ask \o ss \o qs \o rs \o ps)
    BY <1>3 DEF Plan, CallsOf, ApplyAsync, native, Document, Builder
  <2>2. /\ IsList(ls) /\ Elements(ls) = CallsWith("load", Elements(Builder.plugins), FALSE)
        /\ IsList(ss) /\ Elements(ss) = CallsWith("source", Elements(Builder.sources), FALSE)
        /\ IsList(qs) /\ Elements(qs) = CallsWith("query", Elements(Builder.queries), FALSE)
        /\ IsList(rs) /\ Elements(rs) = CallsWith("reaction", Elements(Builder.reactions), FALSE)
        /\ IsList(ps) /\ Elements(ps) = CallsWith("push", Elements(Builder.seeds), FALSE)
    BY <1>3, GivenLists, EachIsCallsWith
  <2>3. IsList(ask) /\ Elements(ask) = {Call("ask", Absent, FALSE)}
    BY ElementsOfOne DEF IsList
  <2> HIDE DEF ls, ask, ss, qs, rs, ps
  <2>4. /\ NeverNative(ls) /\ NeverNative(ask) /\ NeverNative(ss)
        /\ NeverNative(qs) /\ NeverNative(rs) /\ NeverNative(ps)
    BY <2>2, <2>3 DEF NeverNative, CallsWith, Call
  <2>5. /\ NeverLoads(ask) /\ NeverLoads(ss) /\ NeverLoads(qs) /\ NeverLoads(rs)
        /\ NeverLoads(ps)
    BY <2>2, <2>3 DEF NeverLoads, CallsWith, Call
  <2>6. Ordered(ls)
    <3>1. ASSUME NEW i \in 1..Len(ls)
          PROVE  ls[i].op = "load" /\ ls[i].native = FALSE
      <4>1. ls[i] \in Elements(ls)
        BY <2>2 DEF Elements, IsList
      <4> QED
        BY <2>2, <4>1 DEF CallsWith, Call
    <3> QED
      BY <3>1 DEF Ordered
  <2>7. IsList(ls \o ask) /\ Ordered(ls \o ask) /\ NeverNative(ls \o ask)
    BY <2>2, <2>3, <2>4, <2>5, <2>6, LaterCallsInOrder
  <2>8. /\ IsList(ls \o ask \o ss) /\ Ordered(ls \o ask \o ss)
        /\ NeverNative(ls \o ask \o ss)
    BY <2>2, <2>4, <2>5, <2>7, LaterCallsInOrder
  <2>9. /\ IsList(ls \o ask \o ss \o qs) /\ Ordered(ls \o ask \o ss \o qs)
        /\ NeverNative(ls \o ask \o ss \o qs)
    BY <2>2, <2>4, <2>5, <2>8, LaterCallsInOrder
  <2>10. /\ IsList(ls \o ask \o ss \o qs \o rs) /\ Ordered(ls \o ask \o ss \o qs \o rs)
         /\ NeverNative(ls \o ask \o ss \o qs \o rs)
    BY <2>2, <2>4, <2>5, <2>9, LaterCallsInOrder
  <2>11. /\ IsList(ls \o ask \o ss \o qs \o rs \o ps)
         /\ Ordered(ls \o ask \o ss \o qs \o rs \o ps)
         /\ NeverNative(ls \o ask \o ss \o qs \o rs \o ps)
    BY <2>2, <2>4, <2>5, <2>10, LaterCallsInOrder
  <2> QED
    BY <1>1, <2>1, <2>11, NativeCallsInOrder
<1> QED
  BY <1>2, <1>3

\* The kinds there are when an entry is looked at are those its part can name.
LEMMA KindsAreThere ==
    ASSUME given \in Setups, NEW k \in 0..Len(Plan), k < Len(Plan), Checked(k),
           NEW c, c = Plan[k + 1], c.op \in {"source", "reaction"}
    PROVE  /\ k > 0 /\ kinds = Available(c.native) /\ inForce = Settings
<1>1. /\ k > 0 /\ kinds = Available(TRUE) \union {p.kind : p \in Over("load", k)}
      /\ inForce = Settings
  <2>1. CreatesOnce(Plan) /\ k \in Nat
    BY PlanPlaces
  <2>2. Call("create", Absent, TRUE).op = "create"
    BY DEF Call
  <2>3. k # 0
    <3>1. k = 0 => c = Plan[1]
      OBVIOUS
    <3> QED
      BY <2>1, <2>2, <3>1 DEF CreatesOnce
  <2>4. k > 0
    BY <2>1, <2>3
  <2>5. /\ k > 0 => kinds = Available(TRUE) \union {p.kind : p \in Over("load", k)}
        /\ k > 0 => inForce = Settings
    BY DEF Checked
  <2> QED
    BY <2>4, <2>5
<1>2. c \in Elements(Plan) /\ k + 1 \in 1..Len(Plan) /\ Len(Plan) \in Nat
  BY PlanIsTyped
<1>3. c.native \in BOOLEAN
  BY <1>2, PlannedCalls
<1>4. CASE c.native = TRUE
  <2>1. ASSUME NEW j \in 1..k
        PROVE  Plan[j].op # "load"
    <3>1. j \in 1..Len(Plan) /\ j < k + 1
      BY <1>2
    <3> QED
      BY <1>2, <1>4, <3>1, PlanIsOrdered DEF Ordered
  <2>2. Over("load", k) = {}
    BY <2>1 DEF Over
  <2> QED
    BY <1>1, <1>4, <2>2
<1>5. CASE c.native = FALSE
  <2>1. Over("load", k) \subseteq Elements(Builder.plugins)
    <3>1. ASSUME NEW j \in 1..k, Plan[j].op = "load"
          PROVE  Plan[j].entry \in Elements(Builder.plugins)
      <4>1. Plan[j] \in Elements(Plan)
        BY <1>2, PlanIsTyped
      <4> QED
        BY <3>1, <4>1, PlanPlaces DEF FrontSet, CallsWith, Call
    <3> QED
      BY <3>1 DEF Over
  <2>2. Builder # Absent
    BY <1>2, <1>5, PlannedCalls DEF Entries
  <2>3. ASSUME NEW p \in Elements(Builder.plugins)
        PROVE  p \in Over("load", k)
    <3>1. Call("load", p, FALSE) \in FrontSet
      BY <2>2 DEF FrontSet, CallsWith
    <3>2. PICK j \in 1..Front : Plan[j] = Call("load", p, FALSE)
      BY <3>1, PlanPlaces
    <3>3. Plan[j].op = "load" /\ Plan[j].entry = p
      BY <3>2 DEF Call
    <3>4. j < k + 1
      <4>1. j \in 1..Len(Plan)
        BY PlanPlaces
      <4>2. ~Plan[k + 1].native /\ Plan[k + 1].op # "load"
        BY <1>5
      <4> QED
        BY <1>2, <3>3, <4>1, <4>2, PlanIsOrdered DEF Ordered
    <3>5. j \in 1..k
      BY <1>2, <3>4
    <3> QED
      BY <3>3, <3>5 DEF Over
  <2>4. Over("load", k) = Elements(Builder.plugins)
    BY <2>1, <2>3
  <2> QED
    BY <1>1, <1>5, <2>4 DEF Available
<1> QED
  BY <1>3, <1>4, <1>5

LEMMA CreationComesFirst ==
    ASSUME given \in Setups, NEW k \in 0..Len(Plan), k < Len(Plan)
    PROVE  Plan[k + 1].op = "create" <=> k = 0
<1>1. CreatesOnce(Plan) /\ Len(Plan) \in Nat
  BY PlanPlaces, PlanIsTyped
<1>2. CASE k = 0
  <2>1. k + 1 = 1
    BY <1>2
  <2>2. Plan[1] = Call("create", Absent, TRUE)
    BY <1>1 DEF CreatesOnce
  <2> QED
    BY <1>2, <2>1, <2>2 DEF Call
<1>3. CASE k # 0
  <2>1. k + 1 \in 2..Len(Plan)
    BY <1>1, <1>3
  <2> QED
    BY <1>1, <1>3, <2>1 DEF CreatesOnce
<1> QED
  BY <1>2, <1>3

\* The next call is over, as it should be.
LEMMA CheckedGoesOn ==
    ASSUME given \in Setups, NEW k \in 0..Len(Plan), k < Len(Plan), Checked(k),
           NEW c, c = Plan[k + 1], Leaves(c), ~IsWrong(c),
           c.op = "source" => c.entry.id \notin DOMAIN sources,
           c.op = "query" => c.entry.id \notin DOMAIN queries,
           c.op = "reaction" => c.entry.id \notin DOMAIN reactions
    PROVE  Checked(k + 1)'
<1>1. /\ Plan' = Plan /\ Settings' = Settings /\ Available(TRUE)' = Available(TRUE)
      /\ \A op, n : Over(op, n)' = Over(op, n) /\ \A d : IsWrong(d)' = IsWrong(d)
  BY SameIsWrong DEF Leaves
<1>2. Len(Plan) \in Nat /\ \A i \in 1..(k + 1) : i \in 1..k \/ i = k + 1
  BY PlanIsTyped
<1>3. ASSUME NEW i \in 1..(k + 1)
      PROVE  ~IsWrong(Plan[i])'
  <2>1. ~IsWrong(Plan[i])
    BY <1>2 DEF Checked
  <2>2. ASSUME NEW d, d = Plan[i]
        PROVE  ~IsWrong(d)'
    BY <1>1, <2>1, <2>2
  <2> QED
    BY <1>1, <2>2
<1>4. k > 0 <=> c.op # "create"
  BY CreationComesFirst
<1>5. inForce' = Settings'
  BY <1>1, <1>4 DEF Leaves, Checked
<1>6. /\ c.op = "load" => Over("load", k + 1) = Over("load", k) \union {c.entry}
      /\ c.op # "load" => Over("load", k + 1) = Over("load", k)
  BY OneMoreIsOver
<1>7. kinds' = Available(TRUE)' \union {p.kind : p \in Over("load", k + 1)'}
  <2>1. CASE c.op = "create"
    <3>1. Over("load", k + 1) = {}
      <4>1. k = 0
        BY <1>4, <2>1
      <4>2. Over("load", 0) = {}
        BY DEF Over
      <4> QED
        BY <1>6, <2>1, <4>1, <4>2
    <3> QED
      BY <1>1, <2>1, <3>1 DEF Leaves
  <2>2. CASE c.op = "load"
    <3>1. kinds = Available(TRUE) \union {p.kind : p \in Over("load", k)}
      BY <1>4, <2>2 DEF Checked
    <3>2. kinds' = kinds \union {c.entry.kind}
      BY <2>2 DEF Leaves
    <3> QED
      BY <1>1, <1>6, <2>2, <3>1, <3>2
  <2>3. CASE c.op \notin {"create", "load"}
    <3>1. kinds = Available(TRUE) \union {p.kind : p \in Over("load", k)}
      BY <1>4, <2>3 DEF Checked
    <3>2. kinds' = kinds
      BY <2>3 DEF Leaves
    <3> QED
      BY <1>1, <1>6, <2>3, <3>1, <3>2
  <2> QED
    BY <2>1, <2>2, <2>3
<1>8. DOMAIN sources' = Ids(Over("source", k + 1)')
  <2>1. /\ c.op = "source" => Over("source", k + 1) = Over("source", k) \union {c.entry}
        /\ c.op # "source" => Over("source", k + 1) = Over("source", k)
    BY OneMoreIsOver
  <2>2. DOMAIN sources = Ids(Over("source", k))
    BY DEF Checked
  <2>3. DOMAIN sources' = DOMAIN sources \union IF c.op = "source" THEN {c.entry.id} ELSE {}
    BY DEF Leaves
  <2> QED
    BY <1>1, <2>1, <2>2, <2>3 DEF Ids
<1>9. DOMAIN queries' = Ids(Over("query", k + 1)')
  <2>1. /\ c.op = "query" => Over("query", k + 1) = Over("query", k) \union {c.entry}
        /\ c.op # "query" => Over("query", k + 1) = Over("query", k)
    BY OneMoreIsOver
  <2>2. DOMAIN queries = Ids(Over("query", k))
    BY DEF Checked
  <2>3. DOMAIN queries' = DOMAIN queries \union IF c.op = "query" THEN {c.entry.id} ELSE {}
    BY DEF Leaves
  <2> QED
    BY <1>1, <2>1, <2>2, <2>3 DEF Ids
<1>10. DOMAIN reactions' = Ids(Over("reaction", k + 1)')
  <2>1. /\ c.op = "reaction" => Over("reaction", k + 1) = Over("reaction", k) \union {c.entry}
        /\ c.op # "reaction" => Over("reaction", k + 1) = Over("reaction", k)
    BY OneMoreIsOver
  <2>2. DOMAIN reactions = Ids(Over("reaction", k))
    BY DEF Checked
  <2>3. DOMAIN reactions' =
           DOMAIN reactions \union IF c.op = "reaction" THEN {c.entry.id} ELSE {}
    BY DEF Leaves
  <2> QED
    BY <1>1, <2>1, <2>2, <2>3 DEF Ids
<1>11. ASSUME NEW e \in Over("source", k + 1)
       PROVE  sources'[e.id].kind = e.kind
  <2>1. CASE e \in Over("source", k)
    <3>1. e.id \in DOMAIN sources /\ sources[e.id].kind = e.kind
      BY <2>1 DEF Checked, Ids
    <3> QED
      BY <3>1 DEF Leaves
  <2>2. CASE e \notin Over("source", k)
    <3>1. c.op = "source" /\ e = c.entry
      BY <2>2, OneMoreIsOver
    <3> QED
      BY <3>1 DEF Leaves
  <2> QED
    BY <2>1, <2>2
<1>12. ASSUME NEW i \in 1..k, c.op \in {"source", "query", "reaction"}, Plan[i].op = c.op
       PROVE  Plan[i].entry.id # c.entry.id
  <2>1. Plan[i].entry \in Over(c.op, k)
    BY <1>12 DEF Over
  <2>2. Plan[i].entry.id \in Ids(Over(c.op, k))
    BY <2>1 DEF Ids
  <2> QED
    BY <1>12, <2>2 DEF Checked
<1>13. ASSUME NEW i \in 1..(k + 1), NEW j \in 1..(k + 1), i # j,
              Plan[i].op \in {"source", "query", "reaction"}, Plan[i].op = Plan[j].op
       PROVE  Plan[i].entry.id # Plan[j].entry.id
  <2>1. CASE i \in 1..k /\ j \in 1..k
    BY <1>13, <2>1 DEF Checked
  <2>2. CASE i = k + 1 /\ j \in 1..k
    BY <1>12, <1>13, <2>2
  <2>3. CASE j = k + 1 /\ i \in 1..k
    BY <1>12, <1>13, <2>3
  <2> QED
    BY <1>2, <1>13, <2>1, <2>2, <2>3
<1> QED
  BY <1>1, <1>3, <1>5, <1>7, <1>8, <1>9, <1>10, <1>11, <1>13 DEF Checked

LEMMA CheckedStays ==
    ASSUME Same, NEW k, Checked(k)
    PROVE  Checked(k)'
<1>1. /\ Plan' = Plan /\ Settings' = Settings /\ Available(TRUE)' = Available(TRUE)
      /\ \A op, n : Over(op, n)' = Over(op, n) /\ \A d : IsWrong(d)' = IsWrong(d)
  BY SameIsWrong DEF Same
<1>2. ASSUME NEW e \in Over("source", k)
      PROVE  sources'[e.id].kind = e.kind
  <2>1. e.id \in DOMAIN sources /\ sources[e.id].kind = e.kind
    BY DEF Checked, Ids
  <2> QED
    BY <2>1 DEF Same
<1>3. /\ DOMAIN sources' = Ids(Over("source", k)')
      /\ DOMAIN queries' = Ids(Over("query", k)')
      /\ DOMAIN reactions' = Ids(Over("reaction", k)')
  BY <1>1 DEF Checked, Same
<1>4. /\ k > 0 => inForce' = Settings'
      /\ k > 0 => kinds' = Available(TRUE)' \union {p.kind : p \in Over("load", k)'}
  BY <1>1 DEF Checked, Same
<1>5. ASSUME NEW i \in 1..k
      PROVE  ~IsWrong(Plan[i])'
  <2>1. ~IsWrong(Plan[i])
    BY DEF Checked
  <2>2. ASSUME NEW d, d = Plan[i]
        PROVE  ~IsWrong(d)'
    BY <1>1, <2>1, <2>2
  <2> QED
    BY <1>1, <2>2
<1>6. \A i, j \in 1..k :
         i # j /\ Plan'[i].op \in {"source", "query", "reaction"} /\ Plan'[i].op = Plan'[j].op
           => Plan'[i].entry.id # Plan'[j].entry.id
  BY <1>1 DEF Checked
<1> QED
  BY <1>1, <1>2, <1>3, <1>4, <1>5, <1>6 DEF Checked

\* What a step does that ends no call.
LEMMA AsideStaysJudged ==
    ASSUME IInv, Judged, Same, UNCHANGED << todo, result, cancelled, refused >>,
           disturbed => disturbed'
    PROVE  Judged'
<1>1. given \in Setups /\ given' = given
  BY DEF IInv, TypeOK, Same
<1>2. CASE result \in {None, "ok"}
  <2>1. PICK k \in 0..Len(Plan), x \in {0, 1} : At(k, x) /\ Checked(k)
    BY <1>2 DEF Judged
  <2>2. At(k, x)'
    <3>1. Plan' = Plan /\ \A c : Puts(c)' = Puts(c)
      BY <1>1, SameSetup DEF Puts, Call
    <3> QED
      BY <2>1, <3>1 DEF At
  <2>3. Checked(k)'
    BY <2>1, CheckedStays
  <2>4. Len(Plan)' = Len(Plan)
    BY <1>1, SameSetup
  <2> QED
    BY <1>2, <2>2, <2>3, <2>4 DEF Judged
<1>3. CASE result \notin {None, "ok"}
  <2>1. ErrorsAreDeserved
    BY <1>3 DEF Judged
  <2>2. /\ Plan' = Plan /\ \A ops : Flawed(ops)' = Flawed(ops)
        /\ SomeIdTwice' = SomeIdTwice
    BY <1>1, SameIsWrong
  <2>3. result' = result /\ cancelled' = cancelled /\ refused' = refused
    OBVIOUS
  <2>4. \A exception : Explains(exception) => Explains(exception)'
    BY <2>2, <2>3 DEF Explains
  <2>5. /\ FromCode(result)' = FromCode(result)
        /\ Explains(FromCode(result)) => Explains(FromCode(result))'
    <3>1. FromCode(result)' = FromCode(result)
      BY <2>3 DEF FromCode
    <3>2. ASSUME NEW exception, exception = FromCode(result), Explains(exception)
          PROVE  Explains(exception)'
      BY <2>4, <3>2
    <3> QED
      BY <3>1, <3>2
  <2>6. ErrorsAreDeserved'
    BY <1>3, <2>1, <2>2, <2>3, <2>5 DEF ErrorsAreDeserved
  <2> QED
    BY <1>3, <2>3, <2>6 DEF Judged
<1> QED
  BY <1>2, <1>3

\* The codes of the checks that fail.
Failing(checks) == {x.code : x \in {y \in Elements(checks) : y.fails}}

LEMMA OneFaultAnswers ==
    ASSUME NEW checks \in Seq(Checks)
    PROVE  /\ FirstFault(checks) = "ok" <=> Failing(checks) = {}
           /\ FirstFault(checks) # "ok" => FirstFault(checks) \in Failing(checks)
<1> DEFINE failing == {i \in DOMAIN checks : checks[i].fails}
           first == CHOOSE i \in failing : \A j \in failing : i <= j
<1>1. CASE failing = {}
  <2>1. Failing(checks) = {}
    BY <1>1 DEF Failing, Elements
  <2> QED
    BY <1>1, <2>1 DEF FirstFault
<1>2. CASE failing # {}
  <2>1. failing \in SUBSET Nat
    OBVIOUS
  <2>2. first \in failing
    BY <1>2, <2>1, LeastExists
  <2>3. FirstFault(checks) = checks[first].code
    BY <1>2 DEF FirstFault
  <2> HIDE DEF first
  <2>4. checks[first] \in Elements(checks) /\ checks[first].fails
    BY <2>2 DEF Elements
  <2>5. checks[first].code \in Failing(checks)
    BY <2>4 DEF Failing
  <2>6. checks[first] \in Checks
    <3>1. first \in 1..Len(checks)
      BY <2>2
    <3> QED
      BY <3>1
  <2>7. checks[first].code # "ok"
    BY <2>6 DEF Checks, Codes, UnknownKinds, ConfigCodes, SourceCodes
  <2> QED
    BY <2>3, <2>5, <2>7
<1> QED
  BY <1>1, <1>2

LEMMA FailingOfJoined ==
    ASSUME NEW s \in Seq(Checks), NEW t \in Seq(Checks)
    PROVE  Failing(s \o t) = Failing(s) \union Failing(t)
BY ElementsOfConcat DEF Failing

\* What fails in a list whose checks are known.
LEMMA FailingOfTwo ==
    ASSUME NEW a, NEW b
    PROVE  /\ Failing(<<a, b>>) # {} <=> a.fails \/ b.fails
           /\ Failing(<<a, b>>) \subseteq {a.code, b.code}
<1>1. Elements(<<a, b>>) = {a, b}
  BY DEF Elements
<1> QED
  BY <1>1 DEF Failing

LEMMA FailingOfThree ==
    ASSUME NEW a, NEW b, NEW c
    PROVE  /\ Failing(<<a, b, c>>) # {} <=> a.fails \/ b.fails \/ c.fails
           /\ Failing(<<a, b, c>>) \subseteq {a.code, b.code, c.code}
<1>1. Elements(<<a, b, c>>) = {a, b, c}
  BY DEF Elements
<1> QED
  BY <1>1 DEF Failing

LEMMA FailingOfFour ==
    ASSUME NEW a, NEW b, NEW c, NEW d
    PROVE  /\ Failing(<<a, b, c, d>>) # {} <=> a.fails \/ b.fails \/ c.fails \/ d.fails
           /\ Failing(<<a, b, c, d>>) \subseteq {a.code, b.code, c.code, d.code}
<1>1. Elements(<<a, b, c, d>>) = {a, b, c, d}
  BY DEF Elements
<1> QED
  BY <1>1 DEF Failing

LEMMA FailingOfFive ==
    ASSUME NEW a, NEW b, NEW c, NEW d, NEW e
    PROVE  /\ Failing(<<a, b, c, d, e>>) # {}
                <=> a.fails \/ b.fails \/ c.fails \/ d.fails \/ e.fails
           /\ Failing(<<a, b, c, d, e>>) \subseteq {a.code, b.code, c.code, d.code, e.code}
<1>1. Elements(<<a, b, c, d, e>>) = {a, b, c, d, e}
  BY DEF Elements
<1> QED
  BY <1>1 DEF Failing

LEMMA FailingOfSeven ==
    ASSUME NEW a, NEW b, NEW c, NEW d, NEW e, NEW f, NEW g
    PROVE  /\ Failing(<<a, b, c, d, e, f, g>>) # {}
                <=> \/ a.fails \/ b.fails \/ c.fails \/ d.fails \/ e.fails
                    \/ f.fails \/ g.fails
           /\ Failing(<<a, b, c, d, e, f, g>>)
                \subseteq {a.code, b.code, c.code, d.code, e.code, f.code, g.code}
<1>1. Elements(<<a, b, c, d, e, f, g>>) = {a, b, c, d, e, f, g}
  BY DEF Elements
<1> QED
  BY <1>1 DEF Failing

LEMMA CheckIs == \A fails, code : Check(fails, code).fails = fails /\ Check(fails, code).code = code
BY DEF Check

\* The codes that tell of an entry.
EntryCodes == UnknownKinds \union ConfigCodes

LEMMA SourceFails ==
    ASSUME NEW s, NEW available
    PROVE  /\ Failing(SourceChecks(s, available)) # {} <=> SourceIsWrong(s, available)
           /\ Failing(SourceChecks(s, available)) \subseteq EntryCodes
<1> DEFINE plugin == s.kind \notin {Absent, "csharp"}
           a == Check(s.id = Absent, "ConfigInvalid")
           b == Check(plugin /\ s.kind \notin available, "UnknownSourceKind")
           c == Check(plugin /\ s.bootstrap = "no kind", "BootstrapKindRequired")
           d == Check(plugin /\ s.bootstrap = "unknown kind", "UnknownBootstrapKind")
<1>1. SourceChecks(s, available) = <<a, b, c, d>>
  BY DEF SourceChecks
<1>2. /\ a.fails = (s.id = Absent)
      /\ b.fails = (plugin /\ s.kind \notin available)
      /\ c.fails = (plugin /\ s.bootstrap = "no kind")
      /\ d.fails = (plugin /\ s.bootstrap = "unknown kind")
  BY CheckIs
<1>3. {a.code, b.code, c.code, d.code} \subseteq EntryCodes
  <2>1. /\ a.code = "ConfigInvalid" /\ b.code = "UnknownSourceKind"
        /\ c.code = "BootstrapKindRequired" /\ d.code = "UnknownBootstrapKind"
    BY CheckIs
  <2> HIDE DEF a, b, c, d
  <2> QED
    BY <2>1 DEF EntryCodes, UnknownKinds, ConfigCodes
<1> HIDE DEF a, b, c, d
<1>4. (a.fails \/ b.fails \/ c.fails \/ d.fails) <=> SourceIsWrong(s, available)
  BY <1>2 DEF SourceIsWrong
<1> QED
  BY <1>1, <1>3, <1>4, FailingOfFour

LEMMA ReactionFails ==
    ASSUME NEW r, NEW available, NEW durable \in BOOLEAN,
           durable = (Settings.stateStore # Absent)
    PROVE  /\ Failing(ReactionChecks(r, available, durable)) # {} <=> ReactionIsWrong(r, available)
           /\ Failing(ReactionChecks(r, available, durable)) \subseteq EntryCodes
<1> DEFINE a == Check(r.kind = Absent \/ r.id = Absent, "ConfigInvalid")
           b == Check(r.kind \notin available, "UnknownReactionKind")
           c == Check(r.kind = "durable" /\ ~durable, "DurableRequiresStateStore")
<1>1. ReactionChecks(r, available, durable) = <<a, b, c>>
  BY DEF ReactionChecks
<1>2. /\ a.fails = (r.kind = Absent \/ r.id = Absent)
      /\ b.fails = (r.kind \notin available)
      /\ c.fails = (r.kind = "durable" /\ ~durable)
  BY CheckIs
<1>3. {a.code, b.code, c.code} \subseteq EntryCodes
  <2>1. /\ a.code = "ConfigInvalid" /\ b.code = "UnknownReactionKind"
        /\ c.code = "DurableRequiresStateStore"
    BY CheckIs
  <2> HIDE DEF a, b, c
  <2> QED
    BY <2>1 DEF EntryCodes, UnknownKinds, ConfigCodes
<1> HIDE DEF a, b, c
<1>4. (a.fails \/ b.fails \/ c.fails) <=> ReactionIsWrong(r, available)
  BY <1>2 DEF ReactionIsWrong
<1> QED
  BY <1>1, <1>3, <1>4, FailingOfThree

\* A query's checks, put as one condition.
QueryFaults(q, form) ==
    \/ Absent \in {q.id, q.query}
    \/ Read(form, q.sources) \notin {Absent, "list", "text"}
    \/ Read(form, q.autoStart) \notin {Absent, "true", "false"}
    \/ Read(form, q.capacity) \notin {Absent, "number"}
    \/ q.language = "unknown" \/ q.joins = "without keys" \/ q.dispatchMode = "unknown"

LEMMA QueryFails ==
    ASSUME NEW q, NEW form
    PROVE  /\ Failing(QueryChecks(q, form)) # {} <=> QueryFaults(q, form)
           /\ Failing(QueryChecks(q, form)) \subseteq EntryCodes
<1> DEFINE a == Check(q.id = Absent \/ q.query = Absent, "ConfigInvalid")
           b == Check(Read(form, q.sources) \notin {Absent, "list", "text"}, "ConfigInvalid")
           c == Check(Read(form, q.autoStart) \notin {Absent, "true", "false"}, "ConfigInvalid")
           d == Check(Read(form, q.capacity) \notin {Absent, "number"}, "ConfigInvalid")
           e == Check(q.language = "unknown", "UnknownQueryLanguage")
           f == Check(q.joins = "without keys", "ConfigInvalid")
           g == Check(q.dispatchMode = "unknown", "ConfigInvalid")
<1>1. QueryChecks(q, form) = <<a, b, c, d, e, f, g>>
  BY DEF QueryChecks
<1>2. /\ a.fails = (q.id = Absent \/ q.query = Absent)
      /\ b.fails = (Read(form, q.sources) \notin {Absent, "list", "text"})
      /\ c.fails = (Read(form, q.autoStart) \notin {Absent, "true", "false"})
      /\ d.fails = (Read(form, q.capacity) \notin {Absent, "number"})
      /\ e.fails = (q.language = "unknown")
      /\ f.fails = (q.joins = "without keys")
      /\ g.fails = (q.dispatchMode = "unknown")
  BY CheckIs
<1>3. {a.code, b.code, c.code, d.code, e.code, f.code, g.code} \subseteq EntryCodes
  <2>1. /\ a.code = "ConfigInvalid" /\ b.code = "ConfigInvalid" /\ c.code = "ConfigInvalid"
        /\ d.code = "ConfigInvalid" /\ e.code = "UnknownQueryLanguage"
        /\ f.code = "ConfigInvalid" /\ g.code = "ConfigInvalid"
    BY CheckIs
  <2> HIDE DEF a, b, c, d, e, f, g
  <2> QED
    BY <2>1 DEF EntryCodes, UnknownKinds, ConfigCodes
<1> HIDE DEF a, b, c, d, e, f, g
<1>4. (a.fails \/ b.fails \/ c.fails \/ d.fails \/ e.fails \/ f.fails \/ g.fails)
         <=> QueryFaults(q, form)
  BY <1>2 DEF QueryFaults
<1> QED
  BY <1>1, <1>3, <1>4, FailingOfSeven

\* A query of a document is read in the form the document has.
LEMMA QueryFaultsAreWrong ==
    ASSUME NEW q
    PROVE  QueryFaults(q, Form) <=> QueryIsWrong(q)
<1>1. Absent \notin {"true", "false", "text false", "number", "negative", "text", "without keys"}
  BY SetupAssumption
<1>2. CASE Form = "configuration"
  <2>1. ASSUME NEW v
        PROVE  /\ Coerce(v) \notin {Absent, "list", "text"}
                     <=> v \notin {Absent, "list", "text"} \union {"number", "negative"}
               /\ Coerce(v) \notin {Absent, "true", "false"}
                     <=> v \notin {Absent, "true", "false"} \union {"text false"}
               /\ Coerce(v) \notin {Absent, "number"} <=> v \notin {Absent} \union {}
    <3>1. CASE v \in {"number", "negative"}
      BY <1>1, <3>1 DEF Coerce
    <3>2. CASE v = "text false"
      BY <1>1, <3>2 DEF Coerce
    <3>3. CASE v \notin {"number", "negative", "text false"}
      BY <1>1, <3>3 DEF Coerce
    <3> QED
      BY <3>1, <3>2, <3>3
  <2> QED
    BY <1>2, <2>1 DEF QueryFaults, QueryIsWrong, Read
<1>3. CASE Form # "configuration"
  BY <1>3 DEF QueryFaults, QueryIsWrong, Read
<1> QED
  BY <1>2, <1>3

\* A builder's query has a boolean for a flag, or none.
FlagIsTyped(q) == q.options.autoStart \in {Absent, TRUE, FALSE}

\* The query of a builder as it is put into JSON.
LEMMA TypedQueryFaultsAreWrong ==
    ASSUME NEW q, FlagIsTyped(q)
    PROVE  QueryFaults(QueryEntry(q), "json") <=> TypedQueryIsWrong(q)
<1> DEFINE o == ToQueryOptionsJson(q.options)
<1>1. Absent \notin {"true", "false", "text false", "number", "negative", "text", "without keys"}
  BY SetupAssumption
<1>2. o.autoStart \in {Absent, "true", "false"}
  BY DEF ToQueryOptionsJson, FlagIsTyped
<1>3. o.capacity \notin {Absent, "number"} <=> q.options.capacity # Absent /\ q.options.capacity < 0
  <2>1. o.capacity = CASE q.options.capacity = Absent -> Absent
                       [] q.options.capacity # Absent /\ q.options.capacity < 0 -> "negative"
                       [] OTHER -> "number"
    BY DEF ToQueryOptionsJson
  <2> HIDE DEF o
  <2> QED
    BY <1>1, <2>1
<1>4. o.joins = "without keys" <=> \E i \in DOMAIN q.options.joins : q.options.joins[i] = 0
  <2>1. o.joins = CASE q.options.joins = << >> -> Absent
                    [] \E i \in DOMAIN q.options.joins : q.options.joins[i] = 0 -> "without keys"
                    [] OTHER -> "good"
    BY DEF ToQueryOptionsJson
  <2>2. q.options.joins = << >> => ~\E i \in DOMAIN q.options.joins : q.options.joins[i] = 0
    OBVIOUS
  <2> HIDE DEF o
  <2> QED
    BY <1>1, <2>1, <2>2
<1>5. o.dispatchMode = q.options.dispatchMode
  BY DEF ToQueryOptionsJson
<1>6. QueryEntry(q) = [id |-> q.id, query |-> "text", sources |-> "list",
                       autoStart |-> o.autoStart, capacity |-> o.capacity, language |-> "known",
                       joins |-> o.joins, dispatchMode |-> o.dispatchMode]
  BY DEF QueryEntry, ToQueryOptionsJson
<1> DEFINE n == QueryEntry(q)
<1> HIDE DEF o
<1>7. /\ n.id = q.id /\ n.query = "text" /\ n.sources = "list" /\ n.autoStart = o.autoStart
      /\ n.capacity = o.capacity /\ n.language = "known" /\ n.joins = o.joins
      /\ n.dispatchMode = q.options.dispatchMode
  BY <1>5, <1>6
<1> HIDE DEF n
<1>8. \A v : Read("json", v) = v
  BY DEF Read
<1>9. QueryFaults(n, "json") <=> TypedQueryIsWrong(q)
  BY <1>1, <1>2, <1>3, <1>4, <1>7, <1>8 DEF QueryFaults, TypedQueryIsWrong
<1> QED
  BY <1>9 DEF n

LEMMA FailingOfOne ==
    ASSUME NEW fails \in BOOLEAN, NEW code \in Codes
    PROVE  /\ << Check(fails, code) >> \in Seq(Checks)
           /\ Failing(<< Check(fails, code) >>) # {} <=> fails
           /\ Failing(<< Check(fails, code) >>) \subseteq {code}
<1>1. Elements(<< Check(fails, code) >>) = {Check(fails, code)}
  BY ElementsOfOne
<1>2. Check(fails, code) \in Checks
  BY DEF Check, Checks
<1> QED
  BY <1>1, <1>2, CheckIs DEF Failing

LEMMA StoreFails ==
    ASSUME NEW setting, NEW kindCode \in EntryCodes, NEW pathCode \in EntryCodes
    PROVE  LET checks == StoreChecks(setting, kindCode, pathCode)
           IN  /\ checks \in Seq(Checks) /\ Failing(checks) \subseteq EntryCodes
               /\ Failing(checks) # {} <=> setting \in {"unknown kind", "no path", "cannot open"}
<1> DEFINE a == Check(setting = "unknown kind", kindCode)
           b == Check(setting = "no path", pathCode)
           c == Check(setting = "cannot open", "ConfigInvalid")
<1>1. StoreChecks(setting, kindCode, pathCode) = <<a, b, c>>
  BY DEF StoreChecks
<1>2. a \in Checks /\ b \in Checks /\ c \in Checks
  <2>1. "ConfigInvalid" \in EntryCodes
    BY DEF EntryCodes, ConfigCodes
  <2>2. \A code \in EntryCodes : code \in Codes
    BY DEF Codes, EntryCodes
  <2>3. kindCode \in Codes /\ pathCode \in Codes /\ "ConfigInvalid" \in Codes
    BY <2>1, <2>2
  <2> QED
    BY <2>3 DEF Check, Checks
<1>3. /\ a.fails = (setting = "unknown kind") /\ b.fails = (setting = "no path")
      /\ c.fails = (setting = "cannot open")
      /\ a.code = kindCode /\ b.code = pathCode /\ c.code = "ConfigInvalid"
  <2>1. a.fails = (setting = "unknown kind") /\ a.code = kindCode
    BY CheckIs
  <2>2. b.fails = (setting = "no path") /\ b.code = pathCode
    BY CheckIs
  <2>3. c.fails = (setting = "cannot open") /\ c.code = "ConfigInvalid"
    BY CheckIs
  <2> QED
    BY <2>1, <2>2, <2>3
<1>4. "ConfigInvalid" \in EntryCodes
  BY DEF EntryCodes, ConfigCodes
<1> HIDE DEF a, b, c
<1>5. <<a, b, c>> \in Seq(Checks)
  BY <1>2
<1>6. (a.fails \/ b.fails \/ c.fails) <=> setting \in {"unknown kind", "no path", "cannot open"}
  BY <1>3
<1>7. {a.code, b.code, c.code} \subseteq EntryCodes
  BY <1>3, <1>4
<1>8. /\ Failing(<<a, b, c>>) # {} <=> a.fails \/ b.fails \/ c.fails
      /\ Failing(<<a, b, c>>) \subseteq {a.code, b.code, c.code}
  BY FailingOfThree
<1> QED
  BY <1>1, <1>5, <1>6, <1>7, <1>8

LEMMA WalFails ==
    ASSUME NEW setting
    PROVE  LET checks == WalChecks(setting)
           IN  /\ checks \in Seq(Checks) /\ Failing(checks) \subseteq EntryCodes
               /\ Failing(checks) # {} <=> setting \in {"unknown kind", "no path"}
<1> DEFINE a == Check(setting = "unknown kind", "UnknownWalProviderKind")
           b == Check(setting = "no path", "WalProviderPathRequired")
<1>1. WalChecks(setting) = <<a, b>>
  BY DEF WalChecks
<1>2. a \in Checks /\ b \in Checks
  BY DEF Check, Checks, Codes, UnknownKinds, ConfigCodes, SourceCodes
<1>3. a.fails = (setting = "unknown kind") /\ b.fails = (setting = "no path")
  BY CheckIs
<1>4. a.code = "UnknownWalProviderKind" /\ b.code = "WalProviderPathRequired"
  BY CheckIs
<1> HIDE DEF a, b
<1>5. <<a, b>> \in Seq(Checks)
  BY <1>2
<1>6. (a.fails \/ b.fails) <=> setting \in {"unknown kind", "no path"}
  BY <1>3
<1>7. {a.code, b.code} \subseteq EntryCodes
  BY <1>4 DEF EntryCodes, UnknownKinds, ConfigCodes
<1>8. /\ Failing(<<a, b>>) # {} <=> a.fails \/ b.fails
      /\ Failing(<<a, b>>) \subseteq {a.code, b.code}
  BY FailingOfTwo
<1> QED
  BY <1>1, <1>5, <1>6, <1>7, <1>8

IdentityIsWrong(o) ==
    \/ o.identity \in {"no kind", "incomplete"}
    \/ o.identity = "of a plugin" /\ o.pluginsDir \in {Absent, "not a directory", "empty"}

LEMMA IdentityFails ==
    ASSUME NEW o
    PROVE  /\ Failing(IdentityChecks(o)) # {} <=> IdentityIsWrong(o)
           /\ IdentityChecks(o) \in Seq(Checks)
           /\ Failing(IdentityChecks(o)) \subseteq EntryCodes \union {"PluginNotFound"}
<1> DEFINE plugin == o.identity = "of a plugin"
           a == Check(o.identity = "no kind", "IdentityKindRequired")
           b == Check(o.identity = "incomplete", "IdentityConfigInvalid")
           c == Check(plugin /\ o.pluginsDir = Absent, "UnknownIdentityKind")
           d == Check(plugin /\ o.pluginsDir = "not a directory", "PluginNotFound")
           e == Check(plugin /\ o.pluginsDir = "empty", "UnknownIdentityKind")
<1>1. IdentityChecks(o) = <<a, b, c, d, e>>
  BY DEF IdentityChecks
<1>2. /\ a.fails = (o.identity = "no kind") /\ b.fails = (o.identity = "incomplete")
      /\ c.fails = (plugin /\ o.pluginsDir = Absent)
      /\ d.fails = (plugin /\ o.pluginsDir = "not a directory")
      /\ e.fails = (plugin /\ o.pluginsDir = "empty")
  BY CheckIs
<1>3. {a.code, b.code, c.code, d.code, e.code} \subseteq EntryCodes \union {"PluginNotFound"}
  <2>1. /\ a.code = "IdentityKindRequired" /\ b.code = "IdentityConfigInvalid"
        /\ c.code = "UnknownIdentityKind" /\ d.code = "PluginNotFound"
        /\ e.code = "UnknownIdentityKind"
    BY CheckIs
  <2> HIDE DEF a, b, c, d, e
  <2> QED
    BY <2>1 DEF EntryCodes, UnknownKinds, ConfigCodes
<1>4. a \in Checks /\ b \in Checks /\ c \in Checks /\ d \in Checks /\ e \in Checks
  BY DEF Check, Checks, Codes, UnknownKinds, ConfigCodes, SourceCodes
<1> HIDE DEF a, b, c, d, e
<1>5. <<a, b, c, d, e>> \in Seq(Checks)
  BY <1>4
<1>6. (a.fails \/ b.fails \/ c.fails \/ d.fails \/ e.fails) <=> IdentityIsWrong(o)
  BY <1>2 DEF IdentityIsWrong
<1> QED
  BY <1>1, <1>3, <1>5, <1>6, FailingOfFive

LEMMA OptionsFail ==
    LET checks == CreateChecks(MergeCreateOptions(DocumentOptions, given.options),
                               SpelledTwice(DocumentOptions, Snake, given.options))
    IN  /\ Failing(checks) # {} <=> OptionsAreWrong
        /\ Failing(checks) \subseteq EntryCodes \union {"PluginNotFound"}
<1> DEFINE twice == SpelledTwice(DocumentOptions, Snake, given.options)
           checks == CreateChecks(Settings, twice)
           a == ParseChecks(Settings, twice)
           b == IdentityChecks(Settings)
           c == StoreChecks(Settings.stateStore, "UnknownStateStoreKind", "StateStorePathRequired")
           d == WalChecks(Settings.walProvider)
           e == StoreChecks(Settings.indexStore, "UnknownIndexStoreKind", "IndexStorePathRequired")
           f == << Check(Settings.pluginsDir = "not a directory", "PluginNotFound") >>
           all == EntryCodes \union {"PluginNotFound"}
<1>1. MergeCreateOptions(DocumentOptions, given.options) = Settings
  BY DEF MergeCreateOptions, Settings
<1>2. checks = a \o b \o c \o d \o e \o f
  BY DEF CreateChecks
<1>3. "ConfigInvalid" \in Codes /\ "PluginNotFound" \in Codes /\ "ConfigInvalid" \in EntryCodes
  BY DEF Codes, ConfigCodes, EntryCodes
<1>4. /\ a \in Seq(Checks) /\ Failing(a) \subseteq all
      /\ Failing(a) # {} <=> twice # {} \/ Settings.secrets = "not text"
  <2> HIDE DEF twice
  <2> DEFINE bad == twice # {} \/ Settings.secrets = "not text"
             one == << Check(bad, "ConfigInvalid") >>
  <2>1. a = one
    BY DEF ParseChecks
  <2>2. bad \in BOOLEAN
    OBVIOUS
  <2> HIDE DEF bad
  <2>3. /\ one \in Seq(Checks) /\ Failing(one) \subseteq {"ConfigInvalid"}
        /\ Failing(one) # {} <=> bad
    BY <1>3, <2>2, FailingOfOne
  <2> HIDE DEF a, one
  <2>4. Failing(a) \subseteq all
    BY <1>3, <2>1, <2>3
  <2> QED
    BY Zenon, <2>1, <2>3, <2>4 DEF bad
<1>5. /\ b \in Seq(Checks) /\ Failing(b) \subseteq all
      /\ Failing(b) # {} <=> IdentityIsWrong(Settings)
  BY IdentityFails
<1>6. /\ c \in Seq(Checks) /\ Failing(c) \subseteq all
      /\ Failing(c) # {} <=> Settings.stateStore \in {"unknown kind", "no path", "cannot open"}
  <2>1. "UnknownStateStoreKind" \in EntryCodes /\ "StateStorePathRequired" \in EntryCodes
    BY DEF EntryCodes, UnknownKinds, ConfigCodes
  <2> QED
    BY <2>1, StoreFails
<1>7. /\ d \in Seq(Checks) /\ Failing(d) \subseteq all
      /\ Failing(d) # {} <=> Settings.walProvider \in {"unknown kind", "no path"}
  BY WalFails
<1>8. /\ e \in Seq(Checks) /\ Failing(e) \subseteq all
      /\ Failing(e) # {} <=> Settings.indexStore \in {"unknown kind", "no path", "cannot open"}
  <2>1. "UnknownIndexStoreKind" \in EntryCodes /\ "IndexStorePathRequired" \in EntryCodes
    BY DEF EntryCodes, UnknownKinds, ConfigCodes
  <2> QED
    BY <2>1, StoreFails
<1>9. /\ f \in Seq(Checks) /\ Failing(f) \subseteq all
      /\ Failing(f) # {} <=> Settings.pluginsDir = "not a directory"
  BY <1>3, FailingOfOne
<1>10. twice # {} <=> \E k \in Snake : Absent \notin {DocumentOptions[k], given.options[k]}
  BY DEF SpelledTwice
<1> HIDE DEF a, b, c, d, e, f, twice
<1>11. /\ a \o b \in Seq(Checks) /\ a \o b \o c \in Seq(Checks)
       /\ a \o b \o c \o d \in Seq(Checks) /\ a \o b \o c \o d \o e \in Seq(Checks)
  <2>1. \A s, t \in Seq(Checks) : s \o t \in Seq(Checks)
    OBVIOUS
  <2> QED
    BY <1>4, <1>5, <1>6, <1>7, <1>8, <2>1
<1>12. Failing(checks) = Failing(a) \union Failing(b) \union Failing(c)
                           \union Failing(d) \union Failing(e) \union Failing(f)
  <2>1. Failing(a \o b) = Failing(a) \union Failing(b)
    BY <1>4, <1>5, FailingOfJoined
  <2>2. Failing(a \o b \o c) = Failing(a \o b) \union Failing(c)
    BY <1>6, <1>11, FailingOfJoined
  <2>3. Failing(a \o b \o c \o d) = Failing(a \o b \o c) \union Failing(d)
    BY <1>7, <1>11, FailingOfJoined
  <2>4. Failing(a \o b \o c \o d \o e) = Failing(a \o b \o c \o d) \union Failing(e)
    BY <1>8, <1>11, FailingOfJoined
  <2>5. Failing(a \o b \o c \o d \o e \o f) = Failing(a \o b \o c \o d \o e) \union Failing(f)
    BY <1>9, <1>11, FailingOfJoined
  <2> QED
    BY <1>2, <2>1, <2>2, <2>3, <2>4, <2>5
<1>13. Failing(checks) # {} <=> OptionsAreWrong
  <2>1. Failing(checks) # {} <=> \/ Failing(a) # {} \/ Failing(b) # {} \/ Failing(c) # {}
                                 \/ Failing(d) # {} \/ Failing(e) # {} \/ Failing(f) # {}
    BY <1>12
  <2> HIDE DEF checks
  <2> QED
    BY <1>4, <1>5, <1>6, <1>7, <1>8, <1>9, <1>10, <2>1 DEF IdentityIsWrong, OptionsAreWrong
<1>14. Failing(checks) \subseteq all
  BY <1>4, <1>5, <1>6, <1>7, <1>8, <1>9, <1>12
<1> QED
  BY <1>1, <1>13, <1>14 DEF twice

LEMMA PairAnswers ==
    ASSUME NEW a \in Seq(Checks), NEW b \in Seq(Checks)
    PROVE  /\ FirstFault(a \o b) = "ok" => Failing(a) = {} /\ Failing(b) = {}
           /\ FirstFault(a \o b) # "ok" => FirstFault(a \o b) \in Failing(a) \union Failing(b)
<1>1. a \o b \in Seq(Checks) /\ Failing(a \o b) = Failing(a) \union Failing(b)
  BY FailingOfJoined
<1> QED
  BY <1>1, OneFaultAnswers

LEMMA ChainAnswers ==
    ASSUME NEW a \in Seq(Checks), NEW b \in Seq(Checks), NEW c \in Seq(Checks)
    PROVE  /\ FirstFault(a \o b \o c) = "ok" =>
                 Failing(a) = {} /\ Failing(b) = {} /\ Failing(c) = {}
           /\ FirstFault(a \o b \o c) # "ok" =>
                 FirstFault(a \o b \o c) \in Failing(a) \union Failing(b) \union Failing(c)
<1>1. a \o b \in Seq(Checks) /\ Failing(a \o b) = Failing(a) \union Failing(b)
  BY FailingOfJoined
<1> QED
  BY <1>1, PairAnswers

\* The class of a code.
LEMMA ClassOfCode ==
    ASSUME NEW code
    PROVE  /\ code \in EntryCodes => FromCode(code) \in {"ConfigException", "UnknownKindException"}
           /\ code \in SourceCodes => FromCode(code) = "SourceException"
           /\ code = "PluginNotFound" => FromCode(code) = "PluginNotFoundException"
           /\ code \in {"EngineClosed", "EngineFailure"} => FromCode(code) = "DrasiException"
BY DEF FromCode, EntryCodes, UnknownKinds, ConfigCodes, SourceCodes

\* A call that is wrong is a flaw of the setup.
LEMMA WrongIsFlawed ==
    ASSUME given \in Setups, NEW k \in 1..Len(Plan), IsWrong(Plan[k]), NEW ops, Plan[k].op \in ops
    PROVE  Flawed(ops)
<1>1. Plan[k] \in Elements(Plan)
  BY PlanIsTyped
<1> QED
  BY <1>1 DEF Flawed, Plan

\* An id that is taken was given to an entry before.
LEMMA TakenIsTwice ==
    ASSUME given \in Setups, NEW k \in 0..Len(Plan), k < Len(Plan), Checked(k),
           Plan[k + 1].op \in {"source", "query", "reaction"},
           \/ Plan[k + 1].op = "source" /\ Plan[k + 1].entry.id \in DOMAIN sources
           \/ Plan[k + 1].op = "query" /\ Plan[k + 1].entry.id \in DOMAIN queries
           \/ Plan[k + 1].op = "reaction" /\ Plan[k + 1].entry.id \in DOMAIN reactions
    PROVE  SomeIdTwice
<1>1. Plan[k + 1].entry.id \in Ids(Over(Plan[k + 1].op, k))
  BY DEF Checked
<1>2. PICK e \in Over(Plan[k + 1].op, k) : e.id = Plan[k + 1].entry.id
  BY <1>1 DEF Ids
<1>3. PICK i \in 1..k : Plan[i].op = Plan[k + 1].op /\ Plan[i].entry = e
  BY <1>2 DEF Over
<1>4. DOMAIN Plan = 1..Len(Plan) /\ Len(Plan) \in Nat
  BY PlanPlaces, PlanIsTyped DEF IsList
<1>5. i \in DOMAIN Plan /\ k + 1 \in DOMAIN Plan /\ i # k + 1
  BY <1>4
<1> QED
  BY <1>2, <1>3, <1>5 DEF SomeIdTwice, Plan

\* When a seed is looked at, the C# sources are those that are declared.
LEMMA SourcesAreThere ==
    ASSUME given \in Setups, NEW k \in 0..Len(Plan), k < Len(Plan), Checked(k),
           Plan[k + 1].op = "push", NEW id
    PROVE  id \notin CsharpSources <=>
              \A s \in Declared("sources") : s.id = id => s.kind \notin {Absent, "csharp"}
<1>1. /\ Front \in Nat /\ Len(Plan) \in Nat
      /\ \A i \in 1..Front : Plan[i] \in FrontSet /\ Plan[i].op # "push"
  <2>1. Front \in Nat /\ Len(Plan) \in Nat /\ Front <= Len(Plan)
    BY PlanPlaces, PlanIsTyped
  <2>2. ASSUME NEW i \in 1..Front
        PROVE  Plan[i] \in FrontSet /\ Plan[i].op # "push"
    <3>1. Plan[i] \in FrontSet /\ Plan[i] \in Elements(Plan)
      BY <2>1, PlanPlaces, PlanIsTyped
    <3>2. ASSUME NEW c, c = Plan[i]
          PROVE  c.op # "push"
      BY <3>1, <3>2, PlannedCalls
    <3> QED
      BY <3>1, <3>2
  <2> QED
    BY <2>1, <2>2
<1>2. Front <= k
  <2>1. k + 1 \notin 1..Front
    BY <1>1
  <2> QED
    BY <1>1, <2>1
<1>3. ASSUME NEW s \in Declared("sources")
      PROVE  s.id \in DOMAIN sources /\ sources[s.id].kind = s.kind
  <2>1. Call("source", s, TRUE) \in FrontSet \/ Call("source", s, FALSE) \in FrontSet
    BY EveryEntryIsPlanned DEF Declared
  <2>2. PICK i \in 1..Front : Plan[i] \in {Call("source", s, TRUE), Call("source", s, FALSE)}
    BY <2>1, PlanPlaces
  <2>3. Plan[i].op = "source" /\ Plan[i].entry = s
    BY <2>2 DEF Call
  <2>4. i \in 1..k
    BY <1>1, <1>2
  <2>5. s \in Over("source", k)
    BY <2>3, <2>4 DEF Over
  <2> QED
    BY <2>5 DEF Checked, Ids
<1>4. ASSUME NEW s \in DOMAIN sources
      PROVE  \E e \in Declared("sources") : e.id = s /\ sources[s].kind = e.kind
  <2>1. PICK e \in Over("source", k) : e.id = s
    BY DEF Checked, Ids
  <2>2. PICK i \in 1..k : Plan[i].op = "source" /\ Plan[i].entry = e
    BY <2>1 DEF Over
  <2>3. Plan[i] \in Elements(Plan)
    BY <1>1, PlanIsTyped
  <2>4. ASSUME NEW c, c = Plan[i]
        PROVE  c.entry \in Declared("sources")
    BY <2>2, <2>3, <2>4, PlannedCalls DEF Declared
  <2>5. e \in Declared("sources") /\ sources[e.id].kind = e.kind
    BY <2>1, <2>2, <2>4 DEF Checked
  <2> QED
    BY <2>1, <2>5
<1> QED
  BY <1>3, <1>4 DEF CsharpSources

\* The next call ends early only if it is wrong, if its id is taken or the
\* application closed the engine, and its answer says which; if it goes through
\* it is not wrong.
LEMMA CallIsJudged ==
    ASSUME IInv, result = None, NEW k \in 0..Len(Plan), Checked(k),
           \/ k < Len(Plan) /\ Next1 = Plan[k + 1]
           \/ Next1.op \in {"start", "wait"}
    PROVE  /\ Fault = "ok" => ~IsWrong(Next1)
           /\ Fault # "ok" => /\ Fault = "InvalidOperation" => Flawed({"wrap"})
                              /\ Fault # "InvalidOperation" => Explains(FromCode(Fault))
<1> DEFINE open == << Check(engine = "closed", "EngineClosed") >>
           new(ids) == << Check(Next1.entry.id \in ids, "EngineFailure") >>
<1>1. given \in Setups /\ (engine = "closed" => disturbed)
  BY DEF IInv, TypeOK, Tidy
<1>2. /\ open \in Seq(Checks) /\ Failing(open) \subseteq {"EngineClosed"}
      /\ Failing(open) # {} => disturbed
  <2>1. "EngineClosed" \in Codes /\ (engine = "closed") \in BOOLEAN
    BY DEF Codes
  <2> QED
    BY <1>1, <2>1, FailingOfOne
<1>3. ASSUME NEW ids
      PROVE  /\ new(ids) \in Seq(Checks) /\ Failing(new(ids)) \subseteq {"EngineFailure"}
             /\ Failing(new(ids)) # {} => Next1.entry.id \in ids
  <2>1. "EngineFailure" \in Codes /\ (Next1.entry.id \in ids) \in BOOLEAN
    BY DEF Codes
  <2> QED
    BY <2>1, FailingOfOne
<1> HIDE DEF open, new
<1>4. /\ "EngineClosed" # "InvalidOperation" /\ "EngineFailure" # "InvalidOperation"
      /\ "InvalidOperation" \notin EntryCodes \union SourceCodes \union {"PluginNotFound"}
  BY DEF EntryCodes, UnknownKinds, ConfigCodes, SourceCodes
<1>5. Fault \in Failing(open) => Explains(FromCode(Fault)) /\ Fault # "InvalidOperation"
  BY <1>2, <1>4, ClassOfCode DEF Explains
<1>6. /\ Fault = "EngineFailure" /\ SomeIdTwice => Explains(FromCode(Fault))
      /\ Fault \in EntryCodes /\ Flawed({"create", "source", "query", "reaction"})
            => Explains(FromCode(Fault))
      /\ Fault = "PluginNotFound" /\ Flawed({"create", "load"}) => Explains(FromCode(Fault))
      /\ Fault \in SourceCodes /\ Flawed({"push"}) => Explains(FromCode(Fault))
  BY ClassOfCode DEF Explains
<1>7. CASE Next1.op \in {"start", "wait", "ask"}
  <2>1. Next1.op = "start" => Fault = FirstFault(open)
    BY <1>7 DEF Fault, open
  <2>2. Next1.op # "start" => Fault = "ok"
    <3>1. Next1.op # "start" => Fault = FirstFault(<< >>)
      BY <1>7 DEF Fault
    <3> QED
      BY <3>1 DEF FirstFault
  <2>3. Fault # "ok" => Fault \in Failing(open)
    BY <1>2, <2>1, <2>2, OneFaultAnswers
  <2>4. ~IsWrong(Next1)
    BY <1>7 DEF IsWrong
  <2> QED
    BY <1>5, <2>3, <2>4
<1>8. ASSUME Next1.op \notin {"start", "wait", "ask"}
      PROVE  /\ k < Len(Plan) /\ k + 1 \in 1..Len(Plan) /\ Next1 = Plan[k + 1]
             /\ Next1 \in Elements(Plan) /\ Next1.op \in Ops
             /\ Next1.op \in {"source", "query", "reaction"} => Next1.native \in BOOLEAN
             /\ \A ops : IsWrong(Next1) /\ Next1.op \in ops => Flawed(ops)
  <2>1. k < Len(Plan) /\ k + 1 \in 1..Len(Plan) /\ Next1 = Plan[k + 1] /\ Next1 \in Elements(Plan)
    BY <1>1, <1>8, PlanIsTyped
  <2>2. ASSUME NEW c, c = Next1
        PROVE  c.op \in Ops /\ (c.op \in {"source", "query", "reaction"} => c.native \in BOOLEAN)
    BY <1>1, <2>1, <2>2, PlannedCalls
  <2>3. ASSUME NEW ops, IsWrong(Next1), Next1.op \in ops
        PROVE  Flawed(ops)
    <3>1. IsWrong(Plan[k + 1])
      <4>1. ASSUME NEW c, c = Next1, c = Plan[k + 1]
            PROVE  IsWrong(c)
        BY <2>3, <4>1
      <4> QED
        BY <2>1, <4>1
    <3> QED
      BY <1>1, <2>1, <2>3, <3>1, WrongIsFlawed
  <2> QED
    BY <2>1, <2>2, <2>3
<1>9. CASE Next1.op = "create"
  <2> DEFINE checks == CreateChecks(MergeCreateOptions(DocumentOptions, given.options),
                                    SpelledTwice(DocumentOptions, Snake, given.options))
  <2>1. Fault = FirstFault(checks) /\ checks \in Seq(Checks)
    BY <1>9, ChecksAreTyped DEF Fault
  <2>2. /\ Failing(checks) # {} <=> OptionsAreWrong
        /\ Failing(checks) \subseteq EntryCodes \union {"PluginNotFound"}
    BY OptionsFail
  <2> HIDE DEF checks
  <2>3. /\ Fault = "ok" => ~OptionsAreWrong
        /\ Fault # "ok" => OptionsAreWrong /\ Fault \in EntryCodes \union {"PluginNotFound"}
    BY <2>1, <2>2, OneFaultAnswers
  <2>4. IsWrong(Next1) <=> OptionsAreWrong
    BY <1>9 DEF IsWrong
  <2>5. IsWrong(Next1) =>
           Flawed({"create", "source", "query", "reaction"}) /\ Flawed({"create", "load"})
    BY <1>8, <1>9
  <2> QED
    BY <1>4, <1>6, <1>8, <1>9, <2>3, <2>4, <2>5
<1>10. CASE Next1.op = "load"
  <2> DEFINE own == << Check(Next1.entry.kind = Absent, "PluginNotFound") >>
  <2>1. Fault = FirstFault(open \o own)
    BY <1>10 DEF Fault, open
  <2>2. /\ own \in Seq(Checks) /\ Failing(own) \subseteq {"PluginNotFound"}
        /\ Failing(own) # {} <=> Next1.entry.kind = Absent
    <3>1. "PluginNotFound" \in Codes /\ (Next1.entry.kind = Absent) \in BOOLEAN
      BY DEF Codes
    <3> QED
      BY <3>1, FailingOfOne
  <2> HIDE DEF own
  <2>3. /\ Fault = "ok" => Failing(own) = {}
        /\ Fault # "ok" =>
             Fault \in Failing(open) \/ (Failing(own) # {} /\ Fault = "PluginNotFound")
    BY <1>2, <2>1, <2>2, PairAnswers
  <2>4. IsWrong(Next1) <=> Next1.entry.kind = Absent
    BY <1>10 DEF IsWrong
  <2>5. IsWrong(Next1) => Flawed({"create", "load"})
    BY <1>8, <1>10
  <2> QED
    BY <1>4, <1>5, <1>6, <1>8, <1>10, <2>2, <2>3, <2>4, <2>5
<1> DEFINE Chain(own, last) ==
               /\ Next1.op \in {"source", "query", "reaction"}
               /\ Fault = FirstFault(open \o own \o last)
               /\ own \in Seq(Checks) /\ Failing(own) \subseteq EntryCodes
               /\ Failing(own) # {} <=> IsWrong(Next1)
               /\ last \in Seq(Checks) /\ Failing(last) \subseteq {"EngineFailure"}
               /\ Failing(last) # {} => SomeIdTwice
<1>11. ASSUME NEW own, NEW last, Chain(own, last)
       PROVE  /\ Fault = "ok" => ~IsWrong(Next1)
              /\ Fault # "ok" => Fault # "InvalidOperation" /\ Explains(FromCode(Fault))
  <2>1. /\ Fault = "ok" => Failing(own) = {}
        /\ Fault # "ok" => Fault \in Failing(open) \union Failing(own) \union Failing(last)
    BY <1>2, <1>11, ChainAnswers
  <2>2. ASSUME Fault \in Failing(own)
        PROVE  Fault # "InvalidOperation" /\ Explains(FromCode(Fault))
    <3>1. Fault \in EntryCodes /\ IsWrong(Next1)
      BY <1>11, <2>2
    <3>2. Flawed({"create", "source", "query", "reaction"})
      BY <1>8, <1>11, <3>1
    <3> QED
      BY <1>4, <1>6, <3>1, <3>2
  <2>3. ASSUME Fault \in Failing(last)
        PROVE  Fault # "InvalidOperation" /\ Explains(FromCode(Fault))
    <3>1. Fault = "EngineFailure" /\ SomeIdTwice
      BY <1>11, <2>3
    <3> QED
      BY <1>4, <1>6, <3>1
  <2> QED
    BY <1>5, <1>11, <2>1, <2>2, <2>3
<1> HIDE DEF Chain
<1>12. CASE Next1.op = "source"
  <2> DEFINE last == new(DOMAIN sources)
             own == SourceChecks(Next1.entry, kinds)
  <2>1. kinds = Available(Next1.native)
    BY <1>1, <1>8, <1>12, KindsAreThere
  <2>2. /\ own \in Seq(Checks) /\ Failing(own) \subseteq EntryCodes
        /\ Failing(own) # {} <=> SourceIsWrong(Next1.entry, kinds)
    BY ChecksAreTyped, SourceFails
  <2>3. Fault = FirstFault(open \o own \o last)
    BY <1>12 DEF Fault, open, new
  <2>4. IsWrong(Next1) <=> SourceIsWrong(Next1.entry, kinds)
    BY <1>12, <2>1 DEF IsWrong
  <2>9. /\ last \in Seq(Checks) /\ Failing(last) \subseteq {"EngineFailure"}
        /\ Failing(last) # {} => SomeIdTwice
    <3>1. k < Len(Plan) /\ Next1 = Plan[k + 1]
      BY <1>8, <1>12
    <3> QED
      BY <1>1, <1>3, <1>12, <3>1, TakenIsTwice
  <2> HIDE DEF own, last
  <2>10. Chain(own, last)
    BY <1>12, <2>9, <2>2, <2>3, <2>4 DEF Chain
  <2> QED
    BY <1>4, <1>11, <2>10
<1>13. CASE Next1.op = "query"
  <2> DEFINE last == new(DOMAIN queries)
             own == QueryChecks(QueryOfCall, FormOfCall)
  <2>1. /\ own \in Seq(Checks) /\ Failing(own) \subseteq EntryCodes
        /\ Failing(own) # {} <=> QueryFaults(QueryOfCall, FormOfCall)
    BY ChecksAreTyped, QueryFails
  <2>2. Fault = FirstFault(open \o own \o last)
    BY <1>13 DEF Fault, open, new
  <2>3. QueryFaults(QueryOfCall, FormOfCall) <=> IsWrong(Next1)
    <3>1. CASE Next1.native = TRUE
      <4>1. QueryOfCall = Next1.entry /\ FormOfCall = Form
        BY <3>1 DEF QueryOfCall, FormOfCall
      <4>2. IsWrong(Next1) <=> QueryIsWrong(Next1.entry)
        BY <1>13, <3>1 DEF IsWrong
      <4> QED
        BY <4>1, <4>2, QueryFaultsAreWrong
    <3>2. CASE Next1.native = FALSE
      <4>1. QueryOfCall = QueryEntry(Next1.entry) /\ FormOfCall = "json"
        BY <3>2 DEF QueryOfCall, FormOfCall
      <4>2. IsWrong(Next1) <=> TypedQueryIsWrong(Next1.entry)
        BY <1>13, <3>2 DEF IsWrong
      <4>3. Next1.entry \in Entries("queries").builder
        <5>1. ASSUME NEW c, c = Next1
              PROVE  c.entry \in Entries("queries").builder
          BY <1>1, <1>8, <1>13, <3>2, <5>1, PlannedCalls
        <5> QED
          BY <5>1
      <4>4. FlagIsTyped(Next1.entry)
        <5>1. Builder # Absent /\ Next1.entry \in Elements(Builder.queries)
          BY <4>3 DEF Entries
        <5> QED
          BY <1>1, <5>1, SetupAssumption DEF Builder, FlagIsTyped
      <4> QED
        BY <4>1, <4>2, <4>4, TypedQueryFaultsAreWrong
    <3> QED
      BY <1>8, <1>13, <3>1, <3>2
  <2>9. /\ last \in Seq(Checks) /\ Failing(last) \subseteq {"EngineFailure"}
        /\ Failing(last) # {} => SomeIdTwice
    <3>1. k < Len(Plan) /\ Next1 = Plan[k + 1]
      BY <1>8, <1>13
    <3> QED
      BY <1>1, <1>3, <1>13, <3>1, TakenIsTwice
  <2> HIDE DEF own, last
  <2>10. Chain(own, last)
    BY <1>13, <2>9, <2>1, <2>2, <2>3 DEF Chain
  <2> QED
    BY <1>4, <1>11, <2>10
<1>14. CASE Next1.op = "reaction"
  <2> DEFINE last == new(DOMAIN reactions)
             durable == inForce.stateStore # Absent
             own == ReactionChecks(Next1.entry, KindsOfCall, durable)
             named == Available(Next1.native)
                        \union IF Next1.native THEN {} ELSE {"callback", "durable"}
  <2>1. kinds = Available(Next1.native) /\ inForce = Settings
    BY <1>1, <1>8, <1>14, KindsAreThere
  <2>2. KindsOfCall = named /\ durable \in BOOLEAN /\ durable = (Settings.stateStore # Absent)
    BY <2>1 DEF KindsOfCall
  <2>3. Fault = FirstFault(open \o own \o last)
    BY <1>14 DEF Fault, open, new
  <2>4. IsWrong(Next1) <=> ReactionIsWrong(Next1.entry, named)
    BY <1>14 DEF IsWrong
  <2> HIDE DEF named, durable
  <2>5. /\ own \in Seq(Checks) /\ Failing(own) \subseteq EntryCodes
        /\ Failing(own) # {} <=> ReactionIsWrong(Next1.entry, named)
    BY <2>2, ChecksAreTyped, ReactionFails
  <2>9. /\ last \in Seq(Checks) /\ Failing(last) \subseteq {"EngineFailure"}
        /\ Failing(last) # {} => SomeIdTwice
    <3>1. k < Len(Plan) /\ Next1 = Plan[k + 1]
      BY <1>8, <1>14
    <3> QED
      BY <1>1, <1>3, <1>14, <3>1, TakenIsTwice
  <2> HIDE DEF own, last
  <2>10. Chain(own, last)
    BY <1>14, <2>9, <2>3, <2>4, <2>5 DEF Chain
  <2> QED
    BY <1>4, <1>11, <2>10
<1>15. CASE Next1.op = "push"
  <2> DEFINE a == Check(Next1.entry.op # "delete" /\ Next1.entry.startId # Next1.entry.endId,
                        "RelationRequiresBothEnds")
             b == Check(Next1.entry.source \notin CsharpSources, "NoCsharpSource")
             own == SeedChecks(Next1.entry, CsharpSources)
  <2>1. Fault = FirstFault(open \o own) /\ own \in Seq(Checks)
    BY <1>15, ChecksAreTyped DEF Fault, open
  <2>2. own = << a, b >>
    BY DEF SeedChecks
  <2>3. /\ a.fails = (Next1.entry.op # "delete" /\ Next1.entry.startId # Next1.entry.endId)
        /\ b.fails = (Next1.entry.source \notin CsharpSources)
        /\ a.code \in SourceCodes /\ b.code \in SourceCodes
    BY CheckIs DEF SourceCodes
  <2> HIDE DEF a, b
  <2>4. Failing(own) \subseteq SourceCodes /\ (Failing(own) # {} <=> a.fails \/ b.fails)
    <3>1. Elements(<<a, b>>) = {a, b}
      BY DEF Elements
    <3> QED
      BY <2>2, <2>3, <3>1 DEF Failing
  <2>5. b.fails <=> \A s \in Declared("sources") :
                       s.id = Next1.entry.source => s.kind \notin {Absent, "csharp"}
    <3>1. k < Len(Plan) /\ Plan[k + 1].op = "push"
      BY <1>8, <1>15
    <3> QED
      BY <1>1, <2>3, <3>1, SourcesAreThere
  <2>6. IsWrong(Next1) <=> a.fails \/ b.fails
    BY <1>15, <2>3, <2>5 DEF IsWrong, SeedIsWrong
  <2> HIDE DEF own
  <2>7. /\ Fault = "ok" => Failing(own) = {}
        /\ Fault # "ok" => Fault \in Failing(open) \/ Fault \in Failing(own)
    BY <1>2, <2>1, PairAnswers
  <2>8. IsWrong(Next1) => Flawed({"push"})
    BY <1>8, <1>15
  <2> QED
    BY <1>4, <1>5, <1>6, <1>8, <1>15, <2>4, <2>6, <2>7, <2>8
<1>16. CASE Next1.op = "wrap"
  <2> DEFINE own == << Check(Document.id \notin {Absent, "text"}, "InvalidOperation") >>
  <2>1. Fault = FirstFault(own)
    BY <1>16 DEF Fault
  <2>2. /\ own \in Seq(Checks) /\ Failing(own) \subseteq {"InvalidOperation"}
        /\ Failing(own) # {} <=> Document.id \notin {Absent, "text"}
    <3>1. "InvalidOperation" \in Codes /\ (Document.id \notin {Absent, "text"}) \in BOOLEAN
      BY DEF Codes
    <3> QED
      BY <3>1, FailingOfOne
  <2> HIDE DEF own
  <2>3. IsWrong(Next1) <=> Document.id \notin {Absent, "text"}
    BY <1>16 DEF IsWrong
  <2>4. IsWrong(Next1) => Flawed({"wrap"})
    BY <1>8, <1>16
  <2> QED
    BY <1>8, <1>16, <2>1, <2>2, <2>3, <2>4, OneFaultAnswers
<1> QED
  BY <1>7, <1>8, <1>9, <1>10, <1>12, <1>13, <1>14, <1>15, <1>16 DEF Ops

\* A call that goes through was right, and what it left behind belongs to it.
LEMMA CallStaysJudged ==
    ASSUME IInv, Judged, result = None, todo # << >>, Fault = "ok", Leaves(Next1),
           result' \in {None, "ok"},
           \/ todo' = Tail(todo)
           \/ Next1.op \in {"ask", "query"} /\ todo' = << Puts(Next1) >> \o Tail(todo)
    PROVE  Judged'
<1>1. given \in Setups /\ given' = given
  BY DEF IInv, TypeOK, Leaves
<1>2. PICK k \in 0..Len(Plan), x \in {0, 1} : At(k, x) /\ Checked(k)
  BY DEF Judged
<1>3. Len(Plan)' = Len(Plan) /\ Len(Plan) \in Nat
  BY <1>1, SameSetup, PlanIsTyped
<1>4. CASE x = 0
  <2>1. k < Len(Plan) /\ Next1 = Plan[k + 1] /\ Next1.op \in Ops
    BY <1>1, <1>2, <1>4, NextCall
  <2>2. ~IsWrong(Next1)
    BY <1>2, <2>1, CallIsJudged
  <2>3. /\ Next1.op = "source" => Next1.entry.id \notin DOMAIN sources
        /\ Next1.op = "query" => Next1.entry.id \notin DOMAIN queries
        /\ Next1.op = "reaction" => Next1.entry.id \notin DOMAIN reactions
    BY <2>1, FaultAnswers
  <2>4. Checked(k + 1)'
    <3>1. ASSUME NEW c, c = Next1
          PROVE  /\ c = Plan[k + 1] /\ Leaves(c) /\ ~IsWrong(c)
                 /\ c.op = "source" => c.entry.id \notin DOMAIN sources
                 /\ c.op = "query" => c.entry.id \notin DOMAIN queries
                 /\ c.op = "reaction" => c.entry.id \notin DOMAIN reactions
      BY <2>1, <2>2, <2>3, <3>1
    <3>2. ASSUME NEW c, c = Next1
          PROVE  Checked(k + 1)'
      BY <1>1, <1>2, <2>1, <3>1, <3>2, CheckedGoesOn
    <3> QED
      BY <3>2
  <2>5. At(k + 1, 0)' \/ At(k + 1, 1)'
    BY <1>1, <1>2, <1>4, <2>1, PlaceMoves
  <2>6. k + 1 \in 0..Len(Plan)'
    BY <1>2, <1>3, <2>1
  <2> QED
    BY <2>4, <2>5, <2>6 DEF Judged
<1>5. CASE x = 1
  <2>1. Next1.op \in {"start", "wait"}
    BY <1>1, <1>2, <1>5, NextCall DEF Puts, Call
  <2>2. Same
    BY <2>1 DEF Leaves, Same
  <2>3. At(k, 0)'
    <3>1. todo' = Tail(todo)
      BY <2>1
    <3>2. At(IF x = 0 THEN k + 1 ELSE k, 0)'
      BY <1>1, <1>2, <3>1, PlaceMoves
    <3> QED
      BY <1>5, <3>2
  <2>4. Checked(k)'
    BY <1>2, <2>2, CheckedStays
  <2> QED
    BY <1>2, <1>3, <2>3, <2>4 DEF Judged
<1> QED
  BY <1>2, <1>4, <1>5

LEMMA AskAndWaitPass ==
    ASSUME Next1.op \in {"ask", "wait"}
    PROVE  Fault = "ok"
<1>1. Fault = FirstFault(<< >>)
  BY DEF Fault
<1> QED
  BY <1>1 DEF FirstFault

\* The calls that add nothing.
LEMMA QuietCallsStayJudged ==
    ASSUME IInv, Judged, Wrap \/ AskRunning \/ Start \/ Push \/ WaitRunning
    PROVE  Judged'
<1>1. /\ result = None /\ todo # << >> /\ Fault = "ok"
      /\ Next1.op \in {"wrap", "ask", "start", "push", "wait"}
  BY AskAndWaitPass DEF Wrap, AskRunning, Start, Push, WaitRunning, Succeed, Passes, MayCall
<1>2. UNCHANGED << given, inForce, kinds >>
  BY DEF Wrap, AskRunning, Start, Push, WaitRunning
<1>3. /\ DOMAIN sources' = DOMAIN sources /\ DOMAIN queries' = DOMAIN queries
      /\ DOMAIN reactions' = DOMAIN reactions
      /\ \A s \in DOMAIN sources : sources'[s].kind = sources[s].kind
  <2>1. CASE Start
    <3>1. sources \in [DOMAIN sources -> [kind : {e.kind : e \in Declared("sources")},
                                          auto : BOOLEAN, running : BOOLEAN]]
      BY DEF IInv, Known
    <3> QED
      BY <2>1, <3>1 DEF Start
  <2>2. CASE ~Start
    BY <2>2 DEF Wrap, AskRunning, Push, WaitRunning, topology
  <2> QED
    BY <2>1, <2>2
<1>4. Leaves(Next1)
  BY <1>1, <1>2, <1>3 DEF Leaves
<1>5. /\ \/ todo' = Tail(todo)
         \/ Next1.op = "ask" /\ todo' = << Puts(Next1) >> \o Tail(todo)
      /\ result' \in {None, "ok"}
  BY DEF Wrap, AskRunning, Start, Push, WaitRunning, Succeed, Passes, MayCall, Proceed, Puts
<1> QED
  BY <1>1, <1>4, <1>5, CallStaysJudged

LEMMA CreateStaysJudged ==
    ASSUME IInv, Judged, Create
    PROVE  Judged'
<1>1. /\ result = None /\ todo # << >> /\ Fault = "ok" /\ Next1.op = "create"
      /\ todo' = Tail(todo) /\ result' \in {None, "ok"}
      /\ UNCHANGED << given, sources, queries, reactions >>
  BY DEF Create, Succeed, Passes, MayCall, Proceed, topology
<1>2. inForce' = Settings /\ kinds' = Available(TRUE)
  <2>1. inForce' = MergeCreateOptions(DocumentOptions, given.options)
        /\ kinds' = IF inForce'.pluginsDir = "good" THEN {"plugin"} ELSE {}
    BY DEF Create
  <2>2. inForce' = Settings
    BY <2>1 DEF MergeCreateOptions, Settings
  <2> QED
    BY <2>1, <2>2 DEF Available
<1>3. Leaves(Next1)
  BY <1>1, <1>2 DEF Leaves
<1> QED
  BY <1>1, <1>3, CallStaysJudged

LEMMA LoadStaysJudged ==
    ASSUME IInv, Judged, LoadPlugins
    PROVE  Judged'
<1>1. /\ result = None /\ todo # << >> /\ Fault = "ok" /\ Next1.op = "load"
      /\ todo' = Tail(todo) /\ result' \in {None, "ok"}
      /\ UNCHANGED << given, inForce, sources, queries, reactions >>
      /\ kinds' = kinds \union {Next1.entry.kind}
  BY DEF LoadPlugins, Succeed, Passes, MayCall, Proceed, topology
<1>2. Leaves(Next1)
  BY <1>1 DEF Leaves
<1> QED
  BY <1>1, <1>2, CallStaysJudged

\* The calls that add a component.
LEMMA AddSourceStaysJudged ==
    ASSUME IInv, Judged, AddSource
    PROVE  Judged'
<1> DEFINE s == Next1.entry
           auto == AutoStart(Read(FormOfCall, s.autoStart))
           added == [kind |-> s.kind, auto |-> auto, running |-> auto /\ engine = "running"]
<1>1. /\ result = None /\ todo # << >> /\ Fault = "ok" /\ Next1.op = "source"
      /\ todo' = Tail(todo) /\ result' \in {None, "ok"}
      /\ UNCHANGED << given, inForce, kinds, queries, reactions >>
      /\ sources' = With(sources, s.id, added)
  BY DEF AddSource, Succeed, Passes, MayCall, Proceed
<1>2. s.id \notin DOMAIN sources
  <2>1. Next1.op \in Ops
    BY <1>1 DEF Ops
  <2> QED
    BY <1>1, <2>1, FaultAnswers
<1>3. added.kind = s.kind
  OBVIOUS
<1> HIDE DEF added
<1>4. /\ DOMAIN sources' = DOMAIN sources \union {Next1.entry.id}
      /\ sources'[Next1.entry.id].kind = Next1.entry.kind
      /\ \A i \in DOMAIN sources : sources'[i] = sources[i]
  BY <1>1, <1>2, <1>3 DEF With
<1>5. Leaves(Next1)
  BY <1>1, <1>4 DEF Leaves
<1> QED
  BY <1>1, <1>5, CallStaysJudged

LEMMA AddQueryStaysJudged ==
    ASSUME IInv, Judged, AddQuery
    PROVE  Judged'
<1> DEFINE auto == Read(FormOfCall, QueryOfCall.autoStart) # "false"
           added == [auto |-> auto,
                     status |-> IF auto /\ engine = "running" THEN "Starting" ELSE "Stopped"]
<1>1. /\ result = None /\ todo # << >> /\ Fault = "ok" /\ Next1.op = "query"
      /\ todo' = ThenWait(Next1) \o Tail(todo) /\ result' \in {None, "ok"}
      /\ UNCHANGED << given, inForce, kinds, sources, reactions >>
      /\ queries' = With(queries, QueryOfCall.id, added)
  BY DEF AddQuery, Passes, MayCall, Proceed
<1> HIDE DEF added
<1>2. QueryOfCall.id = Next1.entry.id
  BY DEF QueryOfCall, QueryEntry
<1>3. DOMAIN queries' = DOMAIN queries \union {Next1.entry.id}
  BY <1>1, <1>2 DEF With
<1>4. Leaves(Next1)
  BY <1>1, <1>3 DEF Leaves
<1>5. todo' = Tail(todo) \/ todo' = << Puts(Next1) >> \o Tail(todo)
  <2>1. CASE ThenWait(Next1) = << >>
    <3>1. PICK k \in 0..Len(Plan), x \in {0, 1} : At(k, x)
      BY <1>1 DEF Judged
    <3>2. todo \in Seq(Elements(Plan) \union {Puts(c) : c \in Elements(Plan)}) /\ todo # << >>
      BY <1>1, <3>1 DEF At
    <3>3. << >> \o Tail(todo) = Tail(todo)
      BY <3>2
    <3> QED
      BY <1>1, <2>1, <3>3
  <2>2. CASE ThenWait(Next1) # << >>
    <3>1. ThenWait(Next1) = << Puts(Next1) >>
      BY <1>1, <2>2 DEF ThenWait, Puts
    <3> QED
      BY <1>1, <3>1
  <2> QED
    BY <2>1, <2>2
<1> QED
  BY <1>1, <1>4, <1>5, CallStaysJudged

LEMMA AddReactionStaysJudged ==
    ASSUME IInv, Judged, AddReaction
    PROVE  Judged'
<1> DEFINE r == Next1.entry
           auto == AutoStart(Read(FormOfCall, r.autoStart))
           added == [queryIds |-> IF r.queryIds = Absent THEN {} ELSE r.queryIds,
                     auto |-> auto, running |-> auto /\ engine = "running"]
<1>1. /\ result = None /\ todo # << >> /\ Fault = "ok" /\ Next1.op = "reaction"
      /\ todo' = Tail(todo) /\ result' \in {None, "ok"}
      /\ UNCHANGED << given, inForce, kinds, sources, queries >>
      /\ reactions' = With(reactions, r.id, added)
  BY DEF AddReaction, Succeed, Passes, MayCall, Proceed
<1> HIDE DEF added
<1>2. DOMAIN reactions' = DOMAIN reactions \union {Next1.entry.id}
  BY <1>1 DEF With
<1>3. Leaves(Next1)
  BY <1>1, <1>2 DEF Leaves
<1> QED
  BY <1>1, <1>3, CallStaysJudged

\* What a class is about does not go away.
LEMMA ExplainedStays ==
    ASSUME given' = given, disturbed => disturbed', refused => refused',
           NEW exception, Explains(exception)
    PROVE  Explains(exception)'
<1>1. /\ \A ops : Flawed(ops)' = Flawed(ops)
      /\ SomeIdTwice' = SomeIdTwice
  BY SameIsWrong
<1> QED
  BY <1>1 DEF Explains

LEMMA FailuresStayJudged ==
    ASSUME IInv, Judged, WaitFails \/ CallFails \/ CoreRefuses \/ ObserveCancel
    PROVE  Judged'
<1>1. /\ result = None /\ todo # << >> /\ given \in Setups
      /\ given' = given /\ disturbed' = disturbed /\ cancelled' = cancelled
      /\ refused \in BOOLEAN
  BY DEF WaitFails, CallFails, CoreRefuses, ObserveCancel, MayCall, Throw, IInv, TypeOK
<1>2. /\ None \notin Codes \union {"ok", "cancelled"}
      /\ "ok" \notin Codes /\ "cancelled" \notin Codes
  BY SetupAssumption DEF Codes, UnknownKinds, ConfigCodes, SourceCodes
<1>3. CASE WaitFails \/ CoreRefuses
  <2>1. result' = "EngineFailure" /\ refused' = TRUE
    BY <1>3 DEF WaitFails, CoreRefuses, Throw
  <2>2. Explains("DrasiException")'
    BY <2>1 DEF Explains
  <2>3. FromCode(result)' = "DrasiException"
    <3>1. FromCode("EngineFailure") = "DrasiException"
      BY ClassOfCode
    <3> QED
      BY <2>1, <3>1
  <2>4. "EngineFailure" \in Codes
    BY DEF Codes
  <2>5. Explains(FromCode(result))'
    BY <2>2, <2>3
  <2> QED
    BY <1>2, <2>1, <2>4, <2>5 DEF Judged, ErrorsAreDeserved
<1>4. CASE CallFails
  <2>1. result' = Fault /\ Fault # "ok" /\ refused' = refused
    BY <1>4 DEF CallFails, Throw
  <2>2. PICK k \in 0..Len(Plan), x \in {0, 1} : At(k, x) /\ Checked(k)
    BY <1>1 DEF Judged
  <2>3. /\ Next1.op \in Ops
        /\ \/ k < Len(Plan) /\ Next1 = Plan[k + 1]
           \/ Next1.op \in {"start", "wait"}
    <3>1. Next1.op \in Ops
      BY <1>1, <2>2, NextCall
    <3>2. CASE x = 0
      BY <1>1, <2>2, <3>1, <3>2, NextCall
    <3>3. CASE x = 1
      <4>1. Next1 = Puts(Plan[k])
        BY <1>1, <2>2, <3>3, NextCall
      <4> QED
        BY <3>1, <4>1 DEF Puts, Call
    <3> QED
      BY <2>2, <3>2, <3>3
  <2>4. /\ Fault = "InvalidOperation" => Flawed({"wrap"})
        /\ Fault # "InvalidOperation" => Explains(FromCode(Fault))
    BY <1>1, <2>1, <2>2, <2>3, CallIsJudged
  <2>5. Fault \in Codes
    BY <2>1, <2>3, FaultAnswers
  <2>6. CASE Fault = "InvalidOperation"
    <3>1. Flawed({"wrap"})'
      BY <1>1, <2>4, <2>6, SameIsWrong
    <3> QED
      BY <1>2, <2>1, <2>5, <2>6, <3>1 DEF Judged, ErrorsAreDeserved
  <2>7. CASE Fault # "InvalidOperation"
    <3>1. ASSUME NEW exception, exception = FromCode(Fault)
          PROVE  Explains(exception)'
      BY <1>1, <2>1, <2>4, <2>7, <3>1, ExplainedStays
    <3>2. FromCode(result)' = FromCode(Fault)
      BY <2>1
    <3>3. Explains(FromCode(result))'
      BY <3>1, <3>2
    <3> QED
      BY <1>2, <2>1, <2>5, <2>7, <3>3 DEF Judged, ErrorsAreDeserved
  <2> QED
    BY <2>6, <2>7
<1>5. CASE ObserveCancel
  BY <1>1, <1>2, <1>5 DEF ObserveCancel, Throw, Judged, ErrorsAreDeserved
<1> QED
  BY <1>3, <1>4, <1>5

\* What the others do.
LEMMA OthersStayJudged ==
    ASSUME IInv, Judged,
           \/ \E q \in DOMAIN queries : QueryRuns(q) \/ QueryBreaks(q)
           \/ Cancel \/ AppStops \/ Shutdown \/ UNCHANGED vars
    PROVE  Judged'
<1>1. CASE Cancel
  <2>1. /\ result = None /\ result' = None
        /\ UNCHANGED << given, todo, inForce, kinds, sources, queries, reactions >>
    BY <1>1 DEF Cancel, topology
  <2>2. Same
    BY <2>1 DEF Same
  <2>3. PICK k \in 0..Len(Plan), x \in {0, 1} : At(k, x) /\ Checked(k)
    BY <2>1 DEF Judged
  <2>4. Checked(k)'
    BY <2>2, <2>3, CheckedStays
  <2>5. At(k, x)' /\ Len(Plan)' = Len(Plan)
    <3>1. Plan' = Plan /\ \A c : Puts(c)' = Puts(c)
      BY <2>1, SameSetup DEF Puts, Call
    <3> QED
      BY <2>1, <2>3, <3>1 DEF At
  <2> QED
    BY <2>1, <2>3, <2>4, <2>5 DEF Judged
<1>2. CASE ~Cancel
  <2>1. UNCHANGED << given, inForce, kinds, todo, result, cancelled, refused >>
    BY <1>2 DEF QueryRuns, QueryBreaks, AppStops, Shutdown, Halted, vars, topology
  <2>2. disturbed => disturbed'
    BY <1>2 DEF QueryRuns, QueryBreaks, AppStops, Shutdown, Halted, vars, topology
  <2>3. /\ DOMAIN sources' = DOMAIN sources /\ DOMAIN queries' = DOMAIN queries
        /\ DOMAIN reactions' = DOMAIN reactions
        /\ \A s \in DOMAIN sources : sources'[s].kind = sources[s].kind
    <3>1. CASE AppStops \/ Shutdown
      <4>1. sources \in [DOMAIN sources -> [kind : {e.kind : e \in Declared("sources")},
                                            auto : BOOLEAN, running : BOOLEAN]]
        BY DEF IInv, Known
      <4> QED
        BY <3>1, <4>1 DEF AppStops, Shutdown, Halted
    <3>2. CASE \E q \in DOMAIN queries : QueryRuns(q) \/ QueryBreaks(q)
      BY <3>2 DEF QueryRuns, QueryBreaks
    <3>3. CASE UNCHANGED vars
      BY <3>3 DEF vars, topology
    <3> QED
      BY <1>2, <3>1, <3>2, <3>3
  <2>4. Same
    BY <2>1, <2>3 DEF Same
  <2> QED
    BY <2>1, <2>2, <2>4, AsideStaysJudged
<1> QED
  BY <1>1, <1>2

LEMMA StepStaysJudged ==
    ASSUME IInv, Judged, [Next]_vars
    PROVE  Judged'
<1>1. CASE BringUpStep
  BY <1>1, CreateStaysJudged, LoadStaysJudged, QuietCallsStayJudged, AddSourceStaysJudged,
     AddQueryStaysJudged, AddReactionStaysJudged, FailuresStayJudged DEF BringUpStep
<1>2. CASE ~BringUpStep
  BY <1>2, OthersStayJudged DEF Next
<1> QED
  BY <1>1, <1>2

LEMMA BeginsJudged ==
    ASSUME Init
    PROVE  Judged
<1>1. /\ given \in Setups /\ todo = Plan /\ sources = Empty /\ queries = Empty
      /\ reactions = Empty /\ result = None
  BY DEF Init, Plan
<1>2. IsList(Plan) /\ Len(Plan) \in Nat
  BY <1>1, PlanPlaces, PlanIsTyped
<1>3. At(0, 0)
  <2>1. Plan \in Seq(Elements(Plan) \union {Puts(c) : c \in Elements(Plan)})
    BY <1>2 DEF IsList
  <2> QED
    BY <1>1, <1>2, <2>1 DEF At
<1>4. Checked(0)
  <2>1. \A op : Over(op, 0) = {}
    BY DEF Over
  <2> QED
    BY <1>1, <2>1 DEF Checked, Ids, Empty
<1>5. 0 \in 0..Len(Plan)
  BY <1>2
<1> QED
  BY <1>1, <1>3, <1>4, <1>5 DEF Judged

\* Whoever interferes, and wherever it fails: what a bring-up answers with is
\* about something that is wrong with what it was given, or about the
\* application or drasi-lib; and it succeeds only with what has nothing wrong,
\* although every check looks at one part at its time (DrasiException.FromCode).
THEOREM WhatIsWrongIsBlamed == Spec => []ErrorsAreDeserved
<1>1. ASSUME IInv, Judged
      PROVE  ErrorsAreDeserved
  <2>1. given \in Setups /\ (result = None <=> todo # << >>)
    BY <1>1 DEF IInv, TypeOK
  <2>2. CASE result = None
    <3>1. None \notin {"ok", "cancelled", "InvalidOperation"}
      BY SetupAssumption DEF Codes
    <3> QED
      BY <2>2, <3>1 DEF ErrorsAreDeserved
  <2>3. CASE result = "ok"
    <3>1. None # "ok"
      BY SetupAssumption
    <3>2. PICK k \in 0..Len(Plan), x \in {0, 1} : At(k, x) /\ Checked(k)
      BY <1>1, <2>3 DEF Judged
    <3>3. k = Len(Plan) /\ Len(Plan) \in Nat
      <4>1. Len(todo) = x + Len(Plan) - k /\ Len(todo) = 0 /\ Len(Plan) \in Nat
        BY <2>1, <2>3, <3>1, <3>2, PlanIsTyped DEF At
      <4> QED
        BY <4>1
    <3>4. DOMAIN Plan = 1..Len(Plan)
      BY <2>1, PlanPlaces DEF IsList
    <3>5. ASSUME NEW ops
          PROVE  ~Flawed(ops)
      <4>1. ASSUME NEW c \in Elements(Plan)
            PROVE  ~IsWrong(c)
        <5>1. PICK i \in 1..Len(Plan) : c = Plan[i]
          BY <3>4 DEF Elements
        <5>2. ~IsWrong(Plan[i])
          BY <3>2, <3>3 DEF Checked
        <5> QED
          BY <5>1, <5>2
      <4> QED
        BY <4>1 DEF Flawed, Plan
    <3>6. ~SomeIdTwice
      BY <3>2, <3>3, <3>4 DEF SomeIdTwice, Checked, Plan
    <3> QED
      BY <2>3, <3>1, <3>5, <3>6 DEF ErrorsAreDeserved
  <2>4. CASE result \notin {None, "ok"}
    BY <1>1, <2>4 DEF Judged
  <2> QED
    BY <2>2, <2>3, <2>4
<1>2. Init => Judged
  BY BeginsJudged
<1>3. IInv /\ Judged /\ [Next]_vars => Judged'
  BY StepStaysJudged
<1> QED
  BY <1>1, <1>2, <1>3, Inductive, PTL DEF Spec
================================================================================
