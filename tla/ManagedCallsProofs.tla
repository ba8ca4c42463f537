-------------------------- MODULE ManagedCallsProofs --------------------------
(***************************************************************************)
(* The safety properties of ManagedCalls, for any number of callers, pool  *)
(* threads, reaction ids, handle slots and calls.                          *)
(***************************************************************************)
EXTENDS ManagedCalls, TLAPS

\* What the place a call has reached says of its locals.
Shape(r) ==
    /\ r \in Call /\ r.delegate \in 0..made
    /\ r.at = "idle" => r = NoCall
    /\ r.at \in {"alloc", "track", "untrack"} => r.op \in AddOps
    /\ r.at = "reading" => r.op = "stream"
    /\ r.at = "closing" => r.op = "shutdown"
    /\ r.op = "endStream" => r.at \in {"queued", "native", "throw"} /\ r.delegate # 0
    /\ r.op \in {"remove", "other", "shutdown"} \/ r.at = "alloc" => r.delegate = 0
    /\ r.op \in AddOps /\ r.at \notin {"idle", "alloc"} => r.handle \in Slots /\ r.delegate # 0
    /\ r.at \in {"native", "closing", "throw", "untrack"} => r.worker \in Workers
    /\ r.op \in AddOps \cup {"remove", "endStream"} => r.id \in Ids

CallInv ==
    /\ call \in [Callers -> Call]
    /\ \A c \in Callers : Shape(call[c])

OtherTypes ==
    /\ disposed \in BOOLEAN
    /\ tracked \in SUBSET Slots /\ captured \in SUBSET Slots
    /\ captured # {} => disposed
    /\ slot \in [Slots -> 0..made]
    /\ dispose \in {"no", "destroy", "closing", "free", "done"}
    /\ engine \in {"open", "closing", "closed", "gone"}
    /\ reactions \in [Ids -> Reaction \cup {NoReaction}]
    /\ \A i \in Ids : reactions[i].delegate \in 0..made
    /\ \A i \in Registered : reactions[i] \in Reaction /\ reactions[i].delegate # 0
    /\ lastError \in [Workers -> Callers \cup {None}]
    /\ reported \in [Callers -> Callers \cup {None}]
    /\ made \in Nat /\ calls \in Nat
    /\ streams \in SUBSET (1..made) /\ kept \in SUBSET (1..made)
    /\ stranded \in SUBSET Slots

Types == CallInv /\ OtherTypes

\* A thread runs one call, so that the error it keeps is that call's.
Errors ==
    /\ \A c, d \in Callers : c # d /\ call[c].worker # None => call[c].worker # call[d].worker
    /\ ErrorIsOwn

\* The call may still free the handle it allocated, and has not given it to a reaction.
Holds(c) ==
    /\ call[c].op \in AddOps
    /\ call[c].at \in {"track", "queued", "native", "throw", "untrack"}

Live == engine \in {"open", "closing"}

\* Slots are freed, and used again, only when nothing native refers to them.
Handles ==
    /\ \A c, d \in Callers : c # d /\ call[c].delegate # 0 => call[c].delegate # call[d].delegate
    /\ \A c \in Callers : Holds(c) => \A i \in Ids : reactions[i].delegate # call[c].delegate
    /\ Live => \A c \in Callers : Holds(c) => slot[call[c].handle] = call[c].delegate
    /\ CallbackReachesItsDelegate
    /\ dispose \in {"free", "done"} => engine = "gone"

\* Only the call that made a stream's reaction can have its delegate, and it
\* remembers the id; once the removal has failed, drasi-lib keeps the reaction.
Streams ==
    /\ \A c \in Callers : call[c].op = "add" => call[c].delegate \notin streams
    /\ \A c \in Callers, i \in Ids :
          call[c].delegate # 0 /\ reactions[i].delegate = call[c].delegate =>
              /\ i = call[c].id
              /\ call[c].op = "endStream" /\ call[c].at = "throw" => call[c].delegate \in kept
    /\ NoOrphanStream

IInv == Types /\ Errors /\ Handles /\ HandlesAccounted /\ Streams

-----------------------------------------------------------------------------
(* How a step changes the call it belongs to. *)

Becomes(c, r) ==
    /\ call' \in [Callers -> Call]
    /\ call'[c] = r
    /\ \A d \in Callers \ {c} : call'[d] = call[d]

LEMMA NoCallType == NoCall \in Call
BY DEF NoCall, Call, Places, Ops, AddOps

LEMMA Returns ==
    ASSUME CallInv, NEW c \in Callers, Return(c)
    PROVE  Becomes(c, NoCall)
BY NoCallType DEF CallInv, Return, Becomes

LEMMA Goes ==
    ASSUME CallInv, NEW c \in Callers, NEW place \in Places, Goto(c, place)
    PROVE  Becomes(c, [call[c] EXCEPT !.at = place])
<1>1. [call[c] EXCEPT !.at = place] \in Call
  BY DEF CallInv, Call
<1>2. call' = [call EXCEPT ![c] = [call[c] EXCEPT !.at = place]]
  BY DEF Goto
<1> QED
  BY <1>1, <1>2 DEF CallInv, Becomes

LEMMA Begins ==
    ASSUME CallInv, NEW c \in Callers, NEW r \in Call, call' = [call EXCEPT ![c] = r]
    PROVE  Becomes(c, r)
BY DEF CallInv, Becomes

\* One call changes, to one of the right shape, and delegates are only added.
LEMMA ShapeKept ==
    ASSUME CallInv, NEW c \in Callers, made \in Nat, made' \in Nat, made' >= made,
           call' \in [Callers -> Call], \A d \in Callers \ {c} : call'[d] = call[d],
           Shape(call[c])'
    PROVE  CallInv'
<1> SUFFICES ASSUME NEW d \in Callers PROVE Shape(call[d])'
  BY DEF CallInv
<1>1. CASE d = c
  BY <1>1
<1>2. CASE d # c
  BY <1>2 DEF CallInv, Shape, NoCall
<1> QED
  BY <1>1, <1>2
-----------------------------------------------------------------------------
(* Init *)

LEMMA InitHolds == Init => IInv
<1> SUFFICES ASSUME Init PROVE IInv
  OBVIOUS
<1>1. CallInv
  BY NoCallType DEF Init, CallInv, Shape, NoCall, AddOps
<1>2. OtherTypes
  <2>1. /\ reactions \in [Ids -> Reaction \cup {NoReaction}] /\ Registered = {}
        /\ \A i \in Ids : reactions[i].delegate = 0
    BY DEF Init, Registered, NoReaction
  <2>2. 0 \in 0..made /\ made \in Nat /\ calls \in Nat
    BY DEF Init
  <2> QED
    BY <2>1, <2>2 DEF Init, OtherTypes
<1>3. Errors
  BY DEF Init, Errors, ErrorIsOwn, NoCall, At
<1>4. Handles /\ HandlesAccounted /\ Streams
  BY DEF Init, Handles, Holds, CallbackReachesItsDelegate, Registered, NoReaction, NoCall,
         AddOps, HandlesAccounted, Streams, NoOrphanStream
<1> QED
  BY <1>1, <1>2, <1>3, <1>4 DEF IInv, Types

-----------------------------------------------------------------------------
(* The managed part of a call *)

LEMMA EnterKeeps ==
    ASSUME IInv, NEW c \in Callers, NEW r \in Call, Enter(c, r), r.at \in {"alloc", "queued"},
           r.at = "alloc" <=> r.op \in AddOps, r.op # "endStream",
           r.delegate = 0, r.worker = None, r.op \in AddOps \cup {"remove"} => r.id \in Ids
    PROVE  IInv'
<1> USE DEF managed
<1>1. Becomes(c, r) /\ call[c] = NoCall
  BY Begins DEF Enter, IInv, Types, CallInv, Shape, At
<1>2. Types'
  <2>1. made \in Nat /\ made' \in Nat /\ made' >= made
    BY DEF Enter, IInv, Types, OtherTypes
  <2>2. Shape(call[c])'
    BY <1>1, <2>1 DEF Becomes, Shape, Call, Ops, AddOps
  <2>3. CallInv'
    BY <1>1, <2>1, <2>2, ShapeKept DEF Becomes, IInv, Types
  <2>4. OtherTypes'
    BY DEF Enter, IInv, Types, OtherTypes, Registered
  <2> QED
    BY <2>3, <2>4 DEF Types
<1>3. Errors'
  BY <1>1 DEF IInv, Errors, ErrorIsOwn, At, Becomes, Enter, NoCall
<1>4. Handles'
  BY <1>1 DEF IInv, Handles, Holds, Live, CallbackReachesItsDelegate, Registered, Target,
              Becomes, Enter, NoCall, AddOps
<1>5. HandlesAccounted'
  BY <1>1 DEF IInv, HandlesAccounted, At, Becomes, Enter, NoCall
<1>6. Streams'
  BY <1>1 DEF IInv, Streams, NoOrphanStream, Registered, Becomes, Enter, NoCall, Types,
              OtherTypes, NoReaction, AddOps
<1> QED
  BY <1>2, <1>3, <1>4, <1>5, <1>6 DEF IInv
-----------------------------------------------------------------------------
(* What most steps of a call leave as it was *)

Others(c) == call' \in [Callers -> Call] /\ \A d \in Callers \ {c} : call'[d] = call[d]

LEMMA ReturnShape ==
    ASSUME Types, NEW c \in Callers, Return(c), made' = made
    PROVE  CallInv'
<1>1. Becomes(c, NoCall) /\ made \in Nat
  BY Returns DEF Types, OtherTypes
<1>2. Shape(call[c])'
  BY <1>1, NoCallType DEF Becomes, Shape, NoCall, AddOps
<1> QED
  BY <1>1, <1>2, ShapeKept DEF Types, Becomes

LEMMA GotoShape ==
    ASSUME Types, NEW c \in Callers, NEW place \in {"track", "queued", "native", "throw", "untrack"},
           Goto(c, place), made' = made,
           call[c].op \in AddOps => call[c].at \notin {"idle", "alloc"}, call[c].at # "idle",
           place = "untrack" => call[c].op \in AddOps,
           place \in {"native", "throw", "untrack"} => call[c].worker \in Workers,
           place \in {"track", "untrack"} => call[c].op \in AddOps
    PROVE  CallInv'
<1>1. Becomes(c, [call[c] EXCEPT !.at = place]) /\ made \in Nat
  BY Goes DEF Types, OtherTypes, Places
<1>2. Shape(call[c])'
  BY <1>1 DEF Becomes, Shape, Types, CallInv, Call, AddOps, Ops
<1> QED
  BY <1>1, <1>2, ShapeKept DEF Types, Becomes

\* The call keeps its thread or leaves it, and no error is recorded but, when
\* it leaves, the thread's may be cleared.
LEMMA ErrorsKept ==
    ASSUME IInv, NEW c \in Callers, Others(c),
           call'[c].worker \in {call[c].worker, None}, call'[c].at # "throw",
           lastError' = lastError \/ Clears(c),
           \A d \in Callers : reported'[d] \in {d, None}
    PROVE  Errors'
<1>1. \A d, e \in Callers : d # e /\ call'[d].worker # None => call'[d].worker # call'[e].worker
  <2> SUFFICES ASSUME NEW d \in Callers, NEW e \in Callers, d # e, call'[d].worker # None
               PROVE  call'[d].worker # call'[e].worker
    OBVIOUS
  <2> QED
    BY DEF IInv, Errors, Others
<1>2. ASSUME NEW d \in Callers, call'[d].at = "throw"
      PROVE  lastError'[call'[d].worker] = d
  <2>1. d # c /\ call'[d] = call[d] /\ lastError[call[d].worker] = d
    BY <1>2 DEF IInv, Errors, ErrorIsOwn, At, Others
  <2>2. call[d].worker \in Workers /\ call[d].worker # None
    BY <1>2, <2>1, CallsAssumption DEF IInv, Types, CallInv, Shape
  <2>3. call[d].worker # call[c].worker
    BY <2>1, <2>2 DEF IInv, Errors
  <2> QED
    BY <2>1, <2>2, <2>3 DEF Clears, IInv, Types, OtherTypes
<1> QED
  BY <1>1, <1>2 DEF Errors, ErrorIsOwn, At

\* A failing call leaves its own error on its own thread.
LEMMA ErrorsFail ==
    ASSUME IInv, NEW c \in Callers, call[c].worker \in Workers, Fails(c), reported' = reported
    PROVE  Errors'
<1>1. Becomes(c, [call[c] EXCEPT !.at = "throw"])
  BY Goes DEF Fails, IInv, Types, Places
<1>2. /\ call'[c].worker = call[c].worker /\ call'[c].at = "throw"
      /\ \A d \in Callers : call'[d].worker = call[d].worker
      /\ \A d \in Callers \ {c} : call'[d].at = call[d].at
  BY <1>1 DEF IInv, Types, CallInv, Call, Becomes
<1>3. ASSUME NEW d \in Callers, call'[d].at = "throw"
      PROVE  lastError'[call'[d].worker] = d
  <2>1. CASE d = c
    BY <1>2, <2>1 DEF Fails, IInv, Types, OtherTypes
  <2>2. CASE d # c
    <3>1. call[d].worker \in Workers /\ lastError[call[d].worker] = d
      BY <1>2, <1>3, <2>2 DEF IInv, Types, CallInv, Shape, Errors, ErrorIsOwn, At
    <3>2. call[d].worker # call[c].worker
      BY <2>2, <3>1, CallsAssumption DEF IInv, Errors
    <3> QED
      BY <1>2, <3>1, <3>2 DEF Fails, IInv, Types, OtherTypes
  <2> QED
    BY <2>1, <2>2
<1> QED
  BY <1>2, <1>3 DEF IInv, Errors, ErrorIsOwn, At

LEMMA HandlesKept ==
    ASSUME IInv, NEW c \in Callers, Others(c),
           call'[c].delegate \in {0, call[c].delegate},
           Holds(c)' => Holds(c) /\ call'[c].handle = call[c].handle /\ call'[c].delegate = call[c].delegate,
           slot' = slot, reactions' = reactions, Live' => Live,
           (dispose \in {"free", "done"} => engine = "gone")'
    PROVE  Handles'
BY DEF IInv, Types, CallInv, Handles, Holds, CallbackReachesItsDelegate, Live, Registered, Target,
       Others

LEMMA AccountedKept ==
    ASSUME HandlesAccounted, NEW c \in Callers, Others(c), ~At(c, "track"),
           slot' = slot, tracked' = tracked, captured' = captured, stranded' = stranded
    PROVE  HandlesAccounted'
BY DEF HandlesAccounted, At, Others

\* Either the call keeps what ties it to its reaction, or it had no reaction.
LEMMA StreamsKept ==
    ASSUME IInv, NEW c \in Callers, Others(c),
           reactions' = reactions, streams' = streams, kept \subseteq kept',
           (engine = "open" /\ ~disposed)' => engine = "open" /\ ~disposed,
           \/ /\ call'[c].delegate = call[c].delegate /\ call'[c].id = call[c].id
              /\ call'[c].op = call[c].op
              /\ call'[c].op = "endStream" /\ call'[c].at = "throw" =>
                    \A i \in Ids : reactions[i].delegate = call[c].delegate => call[c].delegate \in kept'
           \/ /\ call'[c] = NoCall
              /\ call[c].delegate = 0 \/ Holds(c)
    PROVE  Streams'
<1>1. \A d \in Callers : call'[d].op = "add" => call'[d].delegate \notin streams'
  BY DEF IInv, Types, CallInv, Streams, Others, NoCall
<1>2. ASSUME NEW d \in Callers, NEW i \in Ids,
             call'[d].delegate # 0 /\ reactions'[i].delegate = call'[d].delegate
      PROVE  /\ i = call'[d].id
             /\ call'[d].op = "endStream" /\ call'[d].at = "throw" => call'[d].delegate \in kept'
  <2>1. CASE d = c
    BY <1>2, <2>1 DEF IInv, Types, CallInv, Streams, NoCall
  <2>2. CASE d # c
    BY <1>2, <2>2 DEF IInv, Types, CallInv, Streams, Others
  <2> QED
    BY <2>1, <2>2
<1>3. NoOrphanStream'
  <2> SUFFICES ASSUME (engine = "open" /\ ~disposed)', NEW i \in Ids, reactions[i] # NoReaction,
                      reactions[i].delegate \in streams \ kept'
               PROVE  \E d \in Callers : call'[d].delegate = reactions[i].delegate
    BY DEF NoOrphanStream, Registered
  <2>1. PICK d \in Callers : call[d].delegate = reactions[i].delegate
    BY DEF IInv, Streams, NoOrphanStream, Registered
  <2>2. reactions[i].delegate # 0
    BY DEF IInv, Types, OtherTypes, Registered
  <2>3. CASE d = c
    BY <2>1, <2>2, <2>3 DEF IInv, Handles
  <2>4. CASE d # c
    BY <2>1, <2>4 DEF Others
  <2> QED
    BY <2>3, <2>4
<1> QED
  BY <1>1, <1>2, <1>3 DEF Streams
-----------------------------------------------------------------------------
(* Actions of a call *)

LEMMA AllocHandleKeeps ==
    ASSUME IInv, NEW c \in Callers, AllocHandle(c)
    PROVE  IInv'
<1>1. PICK h \in Slots :
          /\ slot[h] = 0
          /\ slot' = [slot EXCEPT ![h] = made + 1]
          /\ call' = [call EXCEPT ![c] = [call[c] EXCEPT !.at = "track", !.handle = h,
                                                         !.delegate = made + 1]]
  BY DEF AllocHandle
<1>2. /\ call[c] \in Call /\ call[c].at = "alloc" /\ call[c].op \in AddOps /\ call[c].delegate = 0
      /\ made \in Nat /\ made' = made + 1
  BY DEF AllocHandle, At, IInv, Types, CallInv, Shape, OtherTypes
<1>3. Becomes(c, [call[c] EXCEPT !.at = "track", !.handle = h, !.delegate = made + 1])
  <2>1. [call[c] EXCEPT !.at = "track", !.handle = h, !.delegate = made + 1] \in Call
    <3>1. [call[c] EXCEPT !.at = "track"] \in Call
      BY <1>2 DEF Call, Places
    <3>2. [call[c] EXCEPT !.at = "track", !.handle = h] \in Call
      BY <3>1 DEF Call
    <3>3. made + 1 \in Nat
      BY <1>2
    <3> QED
      BY <3>2, <3>3 DEF Call
  <2> QED
    BY <1>1, <2>1 DEF Becomes, IInv, Types, CallInv
<1>4. /\ Others(c)
      /\ call'[c].at = "track" /\ call'[c].handle = h /\ call'[c].delegate = made + 1
      /\ call'[c].op = call[c].op /\ call'[c].id = call[c].id /\ call'[c].worker = call[c].worker
  BY <1>2, <1>3 DEF Becomes, Others, Call
<1>5. /\ \A d \in Callers \ {c} : call[d].delegate \in 0..made
      /\ \A i \in Ids : reactions[i].delegate \in 0..made
      /\ reactions' = reactions /\ engine' = engine /\ dispose' = dispose
  BY DEF IInv, Types, CallInv, Shape, OtherTypes, AllocHandle, managed
<1>6. Types'
  <2>1. Shape(call[c])'
    <3>1. call'[c] \in Call
      BY <1>4 DEF Others
    <3>2. Shape(call[c])
      BY DEF IInv, Types, CallInv
    <3> QED
      BY <1>2, <1>4, <3>1, <3>2 DEF Shape, AddOps
  <2>2. CallInv'
    BY <1>2, <1>4, <2>1, ShapeKept DEF IInv, Types, Others
  <2>3. slot' \in [Slots -> 0..made']
    BY <1>1, <1>2 DEF IInv, Types, OtherTypes
  <2>4. streams' \in SUBSET (1..made') /\ kept' \in SUBSET (1..made')
    BY <1>2 DEF IInv, Types, OtherTypes, AllocHandle
  <2>5. \A i \in Ids : reactions'[i].delegate \in 0..made'
    BY <1>2, <1>5
  <2>6. OtherTypes'
    BY <1>2, <2>3, <2>4, <2>5 DEF IInv, Types, OtherTypes, AllocHandle, managed, Registered
  <2> QED
    BY <2>2, <2>6 DEF Types
<1>7. Errors'
  BY <1>4, ErrorsKept DEF AllocHandle, IInv, Errors, ErrorIsOwn
<1>8. Handles'
  <2>1. \A d \in Callers, e \in Callers :
            d # e /\ call'[d].delegate # 0 => call'[d].delegate # call'[e].delegate
    BY <1>2, <1>4, <1>5 DEF IInv, Handles, Others
  <2>2. \A d \in Callers : Holds(d)' => \A i \in Ids : reactions'[i].delegate # call'[d].delegate
    BY <1>2, <1>4, <1>5 DEF IInv, Handles, Others, Holds
  <2>3. ASSUME Live', NEW d \in Callers, Holds(d)'
        PROVE  slot'[call'[d].handle] = call'[d].delegate
    <3>1. CASE d = c
      BY <1>1, <1>4, <3>1 DEF IInv, Types, OtherTypes
    <3>2. CASE d # c
      BY <1>1, <1>4, <1>5, <2>3, <3>2
         DEF IInv, Types, CallInv, Shape, OtherTypes, Handles, Others, Holds, Live, AddOps
    <3> QED
      BY <3>1, <3>2
  <2>4. CallbackReachesItsDelegate'
    BY <1>1, <1>5 DEF IInv, Types, OtherTypes, Handles, CallbackReachesItsDelegate, Registered,
                      Target, Reaction
  <2> QED
    BY <1>5, <2>1, <2>2, <2>3, <2>4 DEF IInv, Handles
<1>9. HandlesAccounted'
  BY <1>1, <1>2, <1>4 DEF IInv, Types, OtherTypes, HandlesAccounted, At, Others, AllocHandle, managed
<1>10. Streams'
  <2>1. \A d \in Callers : call'[d].op = "add" => call'[d].delegate \notin streams'
    <3>1. streams \subseteq 1..made
      BY DEF IInv, Types, OtherTypes
    <3>2. CASE call[c].op = "stream"
      BY <1>2, <1>4, <1>5, <3>1, <3>2 DEF IInv, Streams, Others, AllocHandle
    <3>3. CASE call[c].op # "stream"
      BY <1>2, <1>4, <1>5, <3>1, <3>3 DEF IInv, Streams, Others, AllocHandle
    <3> QED
      BY <3>2, <3>3
  <2>2. ASSUME NEW d \in Callers, NEW i \in Ids,
               call'[d].delegate # 0 /\ reactions'[i].delegate = call'[d].delegate
        PROVE  /\ i = call'[d].id
               /\ call'[d].op = "endStream" /\ call'[d].at = "throw" => call'[d].delegate \in kept'
    BY <1>2, <1>4, <1>5, <2>2 DEF IInv, Streams, Others, AllocHandle
  <2>3. NoOrphanStream'
    <3> SUFFICES ASSUME engine = "open" /\ ~disposed, NEW i \in Ids, reactions[i] # NoReaction,
                        reactions[i].delegate \in streams' \ kept
                 PROVE  \E d \in Callers : call'[d].delegate = reactions[i].delegate
      BY DEF NoOrphanStream, Registered, AllocHandle, managed
    <3>1. reactions[i].delegate \in 1..made
      BY DEF IInv, Types, OtherTypes, Registered
    <3>2. reactions[i].delegate \in streams \ kept
      BY <1>2, <3>1 DEF AllocHandle
    <3>3. PICK d \in Callers : call[d].delegate = reactions[i].delegate
      BY <3>2 DEF IInv, Streams, NoOrphanStream, Registered
    <3>4. d # c
      BY <1>2, <3>1, <3>3
    <3> QED
      BY <1>4, <3>3, <3>4 DEF Others
  <2> QED
    BY <2>1, <2>2, <2>3 DEF Streams
<1> QED
  BY <1>6, <1>7, <1>8, <1>9, <1>10 DEF IInv
\* A call that returns from where it holds no handle that only it knows of.
LEMMA ReturnKeeps ==
    ASSUME IInv, NEW c \in Callers, Return(c), ~At(c, "track"), call[c].delegate = 0 \/ Holds(c),
           lastError' = lastError \/ Clears(c), lastError' \in [Workers -> Callers \cup {None}],
           Live' => Live, engine' = "open" => engine = "open",
           (dispose \in {"free", "done"} => engine = "gone")',
           engine' \in {"open", "closing", "closed", "gone"},
           UNCHANGED <<managed, slot, reactions, history>>
    PROVE  IInv'
<1> USE DEF managed, history
<1>1. Becomes(c, NoCall) /\ Others(c)
  BY Returns DEF IInv, Types, Becomes, Others
<1>2. Types'
  BY ReturnShape DEF IInv, Types, OtherTypes, Registered
<1>3. Errors'
  BY <1>1, ErrorsKept DEF Becomes, NoCall, IInv, Errors, ErrorIsOwn
<1>4. Handles'
  BY <1>1, HandlesKept DEF Becomes, NoCall, Holds
<1>5. HandlesAccounted'
  BY <1>1, AccountedKept DEF IInv
<1>6. Streams'
  BY <1>1, StreamsKept DEF Becomes
<1> QED
  BY <1>2, <1>3, <1>4, <1>5, <1>6 DEF IInv

LEMMA TrackCallbackKeeps ==
    ASSUME IInv, NEW c \in Callers, TrackCallback(c)
    PROVE  IInv'
<1> USE DEF managed, history
<1>1. /\ call[c] \in Call /\ call[c].at = "track" /\ call[c].op \in AddOps /\ Holds(c)
      /\ call[c].handle \in Slots
  BY DEF TrackCallback, At, Holds, IInv, Types, CallInv, Shape
<1>2. CASE disposed
  <2>1. Becomes(c, NoCall) /\ Others(c) /\ Return(c)
    BY <1>2, Returns DEF TrackCallback, IInv, Types, Becomes, Others
  <2>2. Types'
    BY <1>1, <1>2, <2>1, ReturnShape DEF TrackCallback, IInv, Types, OtherTypes, Registered
  <2>3. Errors'
    BY <2>1, ErrorsKept DEF Becomes, NoCall, TrackCallback, IInv, Errors, ErrorIsOwn
  <2>4. Handles'
    BY <2>1, HandlesKept DEF Becomes, NoCall, Holds, TrackCallback, IInv, Handles, Live
  <2>5. HandlesAccounted'
    BY <1>1, <1>2, <2>1 DEF IInv, HandlesAccounted, At, Becomes, NoCall, TrackCallback
  <2>6. Streams'
    BY <1>1, <2>1, StreamsKept DEF Becomes, TrackCallback
  <2> QED
    BY <2>2, <2>3, <2>4, <2>5, <2>6 DEF IInv
<1>3. CASE ~disposed
  <2>1. Goto(c, "queued") /\ Becomes(c, [call[c] EXCEPT !.at = "queued"])
    BY <1>3, Goes DEF TrackCallback, IInv, Types, Places
  <2>2. /\ Others(c) /\ call'[c].at = "queued" /\ call'[c].op = call[c].op /\ call'[c].id = call[c].id
        /\ call'[c].handle = call[c].handle /\ call'[c].delegate = call[c].delegate
        /\ call'[c].worker = call[c].worker
    BY <1>1, <2>1 DEF Becomes, Others, Call
  <2>3. Types'
    BY <1>1, <1>3, <2>1, GotoShape DEF TrackCallback, IInv, Types, OtherTypes, Registered
  <2>4. Errors'
    BY <2>2, ErrorsKept DEF TrackCallback, IInv, Errors, ErrorIsOwn
  <2>5. Handles'
    BY <1>1, <2>2, HandlesKept DEF TrackCallback, IInv, Handles, Live
  <2>6. HandlesAccounted'
    BY <1>1, <1>3, <2>2 DEF IInv, HandlesAccounted, At, Others, TrackCallback
  <2>7. Streams'
    BY <2>2, StreamsKept DEF TrackCallback
  <2> QED
    BY <2>3, <2>4, <2>5, <2>6, <2>7 DEF IInv
<1> QED
  BY <1>2, <1>3

LEMMA CancelKeeps ==
    ASSUME IInv, NEW c \in Callers, Cancel(c)
    PROVE  IInv'
<1>1. ~At(c, "track") /\ (call[c].delegate = 0 \/ Holds(c))
  BY DEF Cancel, At, Holds, IInv, Types, CallInv, Shape, Call, Ops
<1> QED
  BY <1>1, ReturnKeeps DEF Cancel, managed, IInv, Types, OtherTypes, Live, Handles

LEMMA RunKeeps ==
    ASSUME IInv, NEW c \in Callers, NEW w \in Workers, Run(c, w)
    PROVE  IInv'
<1> USE DEF managed, history
<1>1. call[c] \in Call /\ call[c].at = "queued" /\ Shape(call[c]) /\ w # None
  BY CallsAssumption DEF Run, At, IInv, Types, CallInv
<1>2. [call[c] EXCEPT !.at = "native", !.worker = w] \in Call
  BY <1>1 DEF Call, Places
<1>3. Becomes(c, [call[c] EXCEPT !.at = "native", !.worker = w]) /\ Others(c)
  BY <1>2 DEF Run, IInv, Types, CallInv, Becomes, Others
<1>4. /\ call'[c].at = "native" /\ call'[c].op = call[c].op /\ call'[c].id = call[c].id
      /\ call'[c].handle = call[c].handle /\ call'[c].delegate = call[c].delegate
      /\ call'[c].worker = w
  BY <1>1, <1>3 DEF Becomes, Call
<1>5. Types'
  <2>1. Shape(call[c])'
    BY <1>1, <1>3, <1>4 DEF Others, Shape, Run, AddOps
  <2> QED
    BY <1>3, <2>1, ShapeKept DEF Run, IInv, Types, OtherTypes, Registered, Others
<1>6. Errors'
  BY <1>1, <1>3, <1>4 DEF Run, IInv, Errors, ErrorIsOwn, At, Others
<1>7. Handles'
  <2>1. Holds(c)' => Holds(c)
    BY <1>1, <1>4 DEF Holds
  <2> QED
    BY <1>3, <1>4, <2>1, HandlesKept DEF Run, IInv, Handles, Live
<1>8. HandlesAccounted'
  BY <1>1, <1>3, AccountedKept DEF At, Run, IInv
<1>9. Streams'
  BY <1>3, <1>4, StreamsKept DEF Run
<1> QED
  BY <1>5, <1>6, <1>7, <1>8, <1>9 DEF IInv
\* A native call that fails; a failed removal leaves drasi-lib's reaction behind.
LEMMA FailKeeps ==
    ASSUME IInv, NEW c \in Callers, call[c].at \in {"native", "closing"}, Fails(c),
           Live' => Live, engine' = "open" => engine = "open",
           (dispose \in {"free", "done"} => engine = "gone")',
           engine' \in {"open", "closing", "closed", "gone"},
           UNCHANGED <<managed, slot, reactions, reported, made, calls, streams, stranded>>,
           kept \subseteq kept', kept' \in SUBSET (1..made),
           call[c].op = "endStream" =>
               \A i \in Ids : reactions[i].delegate = call[c].delegate => call[c].delegate \in kept'
    PROVE  IInv'
<1> USE DEF managed
<1>1. /\ call[c] \in Call /\ Shape(call[c]) /\ call[c].worker \in Workers
      /\ Goto(c, "throw") /\ lastError' = [lastError EXCEPT ![call[c].worker] = c]
  BY DEF Fails, IInv, Types, CallInv, Shape
<1>2. Becomes(c, [call[c] EXCEPT !.at = "throw"]) /\ Others(c)
  BY <1>1, Goes DEF IInv, Types, Places, Becomes, Others
<1>3. /\ call'[c].at = "throw" /\ call'[c].op = call[c].op /\ call'[c].id = call[c].id
      /\ call'[c].handle = call[c].handle /\ call'[c].delegate = call[c].delegate
  BY <1>1, <1>2 DEF Becomes, Call
<1>4. Types'
  <2>1. CallInv'
    BY <1>1, GotoShape DEF IInv, Types
  <2> QED
    BY <1>1, <2>1 DEF IInv, Types, OtherTypes, Registered
<1>5. Errors'
  BY <1>1, ErrorsFail
<1>6. Handles'
  <2>1. Holds(c)' => Holds(c)
    BY <1>1, <1>3 DEF Holds, Shape, AddOps
  <2> QED
    BY <1>2, <1>3, <2>1, HandlesKept
<1>7. HandlesAccounted'
  BY <1>1, <1>2, AccountedKept DEF At, IInv
<1>8. Streams'
  BY <1>2, <1>3, StreamsKept
<1> QED
  BY <1>4, <1>5, <1>6, <1>7, <1>8 DEF IInv

LEMMA NativeOtherKeeps ==
    ASSUME IInv, NEW c \in Callers, NativeOther(c)
    PROVE  IInv'
<1>1. /\ call[c].at = "native" /\ call[c].op = "other" /\ call[c].delegate = 0
      /\ Live' => Live
      /\ (dispose \in {"free", "done"} => engine = "gone")'
      /\ UNCHANGED <<managed, slot, reactions, history>>
  BY DEF NativeOther, At, IInv, Types, CallInv, Shape, Handles, Live, managed
<1>2. /\ engine' = engine /\ engine' \in {"open", "closing", "closed", "gone"}
      /\ kept' = kept /\ kept' \in SUBSET (1..made)
      /\ UNCHANGED <<reported, made, calls, streams, stranded>>
  BY DEF NativeOther, history, IInv, Types, OtherTypes
<1>3. CASE Succeeds(c)
  <2>1. Return(c) /\ Clears(c) /\ lastError' \in [Workers -> Callers \cup {None}]
    BY <1>3 DEF Succeeds, Clears, IInv, Types, OtherTypes
  <2> QED
    BY <1>1, <1>2, <2>1, ReturnKeeps DEF At
<1>4. CASE Fails(c)
  BY <1>1, <1>2, <1>4, FailKeeps
<1> QED
  BY <1>3, <1>4 DEF NativeOther

LEMMA NativeShutdownKeeps ==
    ASSUME IInv, NEW c \in Callers, NativeShutdown(c)
    PROVE  IInv'
<1> USE DEF managed, history
<1>1. /\ call[c] \in Call /\ call[c].at = "native" /\ call[c].op = "shutdown"
      /\ call[c].delegate = 0 /\ Shape(call[c]) /\ engine # "gone"
      /\ UNCHANGED <<managed, slot, reactions, history>>
  BY DEF NativeShutdown, At, IInv, Types, CallInv, Shape
<1>2. dispose \notin {"free", "done"}
  BY <1>1 DEF IInv, Handles
<1>3. CASE engine = "open"
  <2>1. /\ engine' = "closing" /\ Goto(c, "closing") /\ lastError' = lastError
        /\ Becomes(c, [call[c] EXCEPT !.at = "closing"]) /\ Others(c)
    BY <1>3, Goes DEF NativeShutdown, IInv, Types, Places, Becomes, Others
  <2>2. /\ call'[c].at = "closing" /\ call'[c].op = "shutdown" /\ call'[c].id = call[c].id
        /\ call'[c].handle = call[c].handle /\ call'[c].delegate = 0
        /\ call'[c].worker = call[c].worker
    BY <1>1, <2>1 DEF Becomes, Call
  <2>3. Types'
    <3>1. Shape(call[c])'
      BY <1>1, <2>1, <2>2 DEF Others, Shape, AddOps
    <3> QED
      BY <1>1, <2>1, <3>1, ShapeKept DEF IInv, Types, OtherTypes, Registered, Others
  <2>4. Errors'
    BY <1>1, <2>1, <2>2, ErrorsKept DEF IInv, Errors, ErrorIsOwn
  <2>5. Handles'
    BY <1>1, <1>2, <1>3, <2>1, <2>2, HandlesKept DEF Holds, Live, AddOps
  <2>6. HandlesAccounted'
    BY <1>1, <2>1, AccountedKept DEF At, IInv
  <2>7. Streams'
    BY <1>1, <1>3, <2>1, <2>2, StreamsKept
  <2> QED
    BY <2>3, <2>4, <2>5, <2>6, <2>7 DEF IInv
<1>4. CASE engine # "open"
  <2>1. Succeeds(c) /\ engine' = engine
    BY <1>4 DEF NativeShutdown
  <2>2. lastError' \in [Workers -> Callers \cup {None}]
    BY <2>1 DEF Succeeds, Clears, IInv, Types, OtherTypes
  <2> QED
    BY <1>1, <1>2, <2>1, <2>2, ReturnKeeps DEF Succeeds, At, Live, IInv, Types, OtherTypes
<1> QED
  BY <1>3, <1>4

LEMMA NativeShutdownDoneKeeps ==
    ASSUME IInv, NEW c \in Callers, NativeShutdownDone(c)
    PROVE  IInv'
<1>1. /\ call[c].at = "closing" /\ call[c].op = "shutdown" /\ call[c].delegate = 0
      /\ engine = "closing" /\ engine' = "closed" /\ dispose \notin {"free", "done"}
      /\ UNCHANGED <<managed, slot, reactions, history>>
  BY DEF NativeShutdownDone, At, IInv, Types, CallInv, Shape, Handles
<1>2. /\ Live' => Live
      /\ dispose' \notin {"free", "done"}
      /\ kept' = kept /\ kept' \in SUBSET (1..made)
      /\ UNCHANGED <<reported, made, calls, streams, stranded>>
  BY <1>1 DEF Live, managed, history, IInv, Types, OtherTypes
<1>3. CASE Succeeds(c)
  <2>1. Return(c) /\ Clears(c) /\ lastError' \in [Workers -> Callers \cup {None}]
    BY <1>3 DEF Succeeds, Clears, IInv, Types, OtherTypes
  <2> QED
    BY <1>1, <1>2, <2>1, ReturnKeeps DEF At
<1>4. CASE Fails(c)
  BY <1>1, <1>2, <1>4, FailKeeps
<1> QED
  BY <1>3, <1>4 DEF NativeShutdownDone

\* A removed reaction is nobody's any more.
LEMMA NativeRemoveKeeps ==
    ASSUME IInv, NEW c \in Callers, NativeRemove(c)
    PROVE  IInv'
<1> USE DEF managed
<1>1. /\ call[c] \in Call /\ Shape(call[c]) /\ call[c].at = "native"
      /\ call[c].op \in {"remove", "endStream"} /\ call[c].id \in Ids
      /\ call[c].op = "remove" => call[c].delegate = 0
      /\ UNCHANGED <<managed, slot, engine, reported, made, calls, streams, stranded>>
  BY DEF NativeRemove, At, IInv, Types, CallInv, Shape
<1>2. dispose' \in {"free", "done"} => engine' = "gone"
  BY <1>1 DEF IInv, Handles
<1>3. ASSUME engine \in {"open", "closing"}, reactions[call[c].id] # NoReaction,
             reactions' = [reactions EXCEPT ![call[c].id] = NoReaction], Succeeds(c), kept' = kept
      PROVE  IInv'
  <2>1. Becomes(c, NoCall) /\ Others(c) /\ Return(c)
    BY <1>3, Returns DEF Succeeds, IInv, Types, Becomes, Others
  <2>2. /\ Registered' = Registered \ {call[c].id}
        /\ \A i \in Ids \ {call[c].id} : reactions'[i] = reactions[i]
        /\ reactions'[call[c].id].delegate = 0
    BY <1>1, <1>3 DEF IInv, Types, OtherTypes, Registered, NoReaction
  <2>3. Types'
    <3>1. lastError' \in [Workers -> Callers \cup {None}]
      BY <1>3 DEF Succeeds, Clears, IInv, Types, OtherTypes
    <3>2. reactions' \in [Ids -> Reaction \cup {NoReaction}]
      BY <1>3 DEF IInv, Types, OtherTypes
    <3>3. /\ \A i \in Ids : reactions'[i].delegate \in 0..made
          /\ \A i \in Registered' : reactions'[i] \in Reaction /\ reactions'[i].delegate # 0
      BY <1>1, <2>2 DEF IInv, Types, OtherTypes, Registered
    <3>4. CallInv'
      BY <1>1, <2>1, ReturnShape DEF IInv
    <3> QED
      BY <1>1, <1>3, <3>1, <3>2, <3>3, <3>4 DEF IInv, Types, OtherTypes
  <2>4. Errors'
    BY <1>1, <1>3, <2>1, ErrorsKept DEF Becomes, NoCall, Succeeds, IInv, Errors, ErrorIsOwn
  <2>5. Handles'
    <3>1. \A d \in Callers : call'[d] = call[d] \/ call'[d] = NoCall
      BY <2>1 DEF Becomes
    <3>2. \A d, e \in Callers : d # e /\ call'[d].delegate # 0 => call'[d].delegate # call'[e].delegate
      BY <3>1 DEF IInv, Handles, NoCall
    <3>3. \A d \in Callers : Holds(d)' => Holds(d) /\ call'[d] = call[d] /\ call[d].delegate # 0
      BY <3>1 DEF Holds, NoCall, IInv, Types, CallInv, Shape
    <3>4. \A d \in Callers : Holds(d)' => \A i \in Ids : reactions'[i].delegate # call'[d].delegate
      BY <1>1, <2>2, <3>3 DEF IInv, Handles
    <3>5. CallbackReachesItsDelegate'
      BY <1>1, <2>2 DEF IInv, Handles, CallbackReachesItsDelegate, Target, Registered
    <3> QED
      BY <1>1, <1>2, <3>2, <3>3, <3>4, <3>5 DEF IInv, Handles, Live
  <2>6. HandlesAccounted'
    BY <1>1, <2>1, AccountedKept DEF At, IInv
  <2>7. Streams'
    <3>1. \A d \in Callers : call'[d].op = "add" => call'[d].delegate \notin streams'
      BY <1>1, <2>1 DEF IInv, Streams, Becomes, NoCall
    <3>2. ASSUME NEW d \in Callers, NEW i \in Ids,
                 call'[d].delegate # 0 /\ reactions'[i].delegate = call'[d].delegate
          PROVE  /\ i = call'[d].id
                 /\ call'[d].op = "endStream" /\ call'[d].at = "throw" => call'[d].delegate \in kept'
      BY <1>3, <2>1, <2>2, <3>2 DEF IInv, Streams, Becomes, NoCall
    <3>3. NoOrphanStream'
      <4> SUFFICES ASSUME engine = "open" /\ ~disposed, NEW i \in Ids, i # call[c].id,
                          reactions[i] # NoReaction, reactions[i].delegate \in streams \ kept
                   PROVE  \E d \in Callers : call'[d].delegate = reactions[i].delegate
        BY <1>1, <1>3, <2>2 DEF NoOrphanStream, Registered
      <4>1. PICK d \in Callers : call[d].delegate = reactions[i].delegate
        BY DEF IInv, Streams, NoOrphanStream, Registered
      <4>2. reactions[i].delegate # 0
        BY DEF IInv, Types, OtherTypes, Registered
      <4>3. d # c
        BY <4>1, <4>2 DEF IInv, Streams
      <4> QED
        BY <2>1, <4>1, <4>3 DEF Becomes
    <3> QED
      BY <3>1, <3>2, <3>3 DEF Streams
  <2> QED
    BY <2>3, <2>4, <2>5, <2>6, <2>7 DEF IInv
<1>4. ASSUME Fails(c), kept' = kept \cup ({reactions[call[c].id].delegate} \ {0}),
             reactions' = reactions
      PROVE  IInv'
  <2>1. reactions[call[c].id].delegate \in 0..made
    BY <1>1 DEF IInv, Types, OtherTypes
  <2>2. kept \subseteq kept' /\ kept' \in SUBSET (1..made)
    <3>1. kept \in SUBSET (1..made) /\ made \in Nat
      BY DEF IInv, Types, OtherTypes
    <3>2. {reactions[call[c].id].delegate} \ {0} \subseteq 1..made
      BY <2>1, <3>1
    <3> QED
      BY <1>4, <3>1, <3>2
  <2>3. call[c].op = "endStream" =>
            \A i \in Ids : reactions[i].delegate = call[c].delegate => call[c].delegate \in kept'
    <3> SUFFICES ASSUME call[c].op = "endStream", NEW i \in Ids,
                        reactions[i].delegate = call[c].delegate
                 PROVE  call[c].delegate \in kept'
      OBVIOUS
    <3>1. call[c].delegate # 0
      BY <1>1 DEF Shape
    <3>2. i = call[c].id
      BY <3>1 DEF IInv, Streams
    <3> QED
      BY <1>4, <3>1, <3>2
  <2>4. engine' \in {"open", "closing", "closed", "gone"} /\ (Live' => Live)
    BY <1>1 DEF IInv, Types, OtherTypes, Live
  <2> QED
    BY <1>1, <1>2, <1>4, <2>2, <2>3, <2>4, FailKeeps
<1> QED
  BY <1>3, <1>4 DEF NativeRemove
\* The handle passes from the call to the reaction, or the add fails.
LEMMA NativeAddKeeps ==
    ASSUME IInv, NEW c \in Callers, NativeAdd(c)
    PROVE  IInv'
<1> USE DEF managed, history
<1>1. /\ call[c] \in Call /\ Shape(call[c]) /\ call[c].at = "native" /\ call[c].op \in AddOps
      /\ call[c].id \in Ids /\ call[c].handle \in Slots /\ call[c].delegate \in 1..made
      /\ Holds(c) /\ made \in Nat
      /\ UNCHANGED <<managed, slot, engine, history>>
  BY DEF NativeAdd, At, Holds, IInv, Types, CallInv, Shape, OtherTypes
<1>2. dispose' \in {"free", "done"} => engine' = "gone"
  BY <1>1 DEF IInv, Handles
<1>3. CASE Fails(c) /\ reactions' = reactions
  <2>1. /\ engine' \in {"open", "closing", "closed", "gone"} /\ kept' \in SUBSET (1..made)
        /\ call[c].op # "endStream"
    BY <1>1 DEF IInv, Types, OtherTypes, AddOps
  <2>2. Live' => Live
    BY <1>1 DEF Live
  <2> QED
    BY <1>1, <1>2, <1>3, <2>1, <2>2, FailKeeps
<1>4. ASSUME Live, reactions[call[c].id] = NoReaction, Clears(c),
             reactions' = [reactions EXCEPT ![call[c].id] =
                              [handle |-> call[c].handle, delegate |-> call[c].delegate]],
             IF call[c].op = "add" THEN Return(c)
             ELSE call' = [call EXCEPT ![c] = [call[c] EXCEPT !.at = "reading", !.worker = None]]
      PROVE  IInv'
  <2>1. /\ reactions'[call[c].id] = [handle |-> call[c].handle, delegate |-> call[c].delegate]
        /\ \A i \in Ids \ {call[c].id} : reactions'[i] = reactions[i]
        /\ Registered' = Registered \cup {call[c].id}
    BY <1>1, <1>4 DEF IInv, Types, OtherTypes, Registered, NoReaction
  <2>2. [handle |-> call[c].handle, delegate |-> call[c].delegate] \in Reaction
    BY <1>1 DEF Reaction
  <2>3. OtherTypes'
    <3>1. lastError' \in [Workers -> Callers \cup {None}]
      BY <1>4 DEF Clears, IInv, Types, OtherTypes
    <3>2. reactions' \in [Ids -> Reaction \cup {NoReaction}]
      BY <1>4, <2>2 DEF IInv, Types, OtherTypes
    <3>3. /\ \A i \in Ids : reactions'[i].delegate \in 0..made
          /\ \A i \in Registered' : reactions'[i] \in Reaction /\ reactions'[i].delegate # 0
      BY <1>1, <2>1, <2>2 DEF IInv, Types, OtherTypes, Registered
    <3> QED
      BY <1>1, <3>1, <3>2, <3>3 DEF IInv, Types, OtherTypes
  <2>4. /\ CallInv' /\ Others(c)
        /\ \/ call[c].op = "add" /\ call'[c] = NoCall
           \/ /\ call[c].op = "stream" /\ call'[c].op = "stream" /\ call'[c].at = "reading"
              /\ call'[c].id = call[c].id /\ call'[c].delegate = call[c].delegate
              /\ call'[c].worker = None
    <3>1. CASE call[c].op = "add"
      <4>1. Return(c)
        BY <1>4, <3>1
      <4> QED
        BY <1>1, <3>1, <4>1, Returns, ReturnShape DEF IInv, Types, Becomes, Others
    <3>2. CASE call[c].op = "stream"
      <4>1. [call[c] EXCEPT !.at = "reading", !.worker = None] \in Call
        BY <1>1 DEF Call, Places
      <4>2. /\ call' = [call EXCEPT ![c] = [call[c] EXCEPT !.at = "reading", !.worker = None]]
            /\ Becomes(c, [call[c] EXCEPT !.at = "reading", !.worker = None])
        BY <1>4, <3>2, <4>1 DEF IInv, Types, CallInv, Becomes
      <4>3. /\ call'[c].op = "stream" /\ call'[c].at = "reading" /\ call'[c].id = call[c].id
            /\ call'[c].handle = call[c].handle /\ call'[c].delegate = call[c].delegate
            /\ call'[c].worker = None /\ Others(c)
        BY <1>1, <3>2, <4>2 DEF Becomes, Call, Others
      <4>4. Shape(call[c])'
        BY <1>1, <4>3 DEF Others, Shape, AddOps
      <4> QED
        BY <1>1, <3>2, <4>3, <4>4, ShapeKept DEF IInv, Types, Others
    <3> QED
      BY <1>1, <3>1, <3>2 DEF AddOps
  <2>5. Errors'
    BY <1>1, <1>4, <2>4, ErrorsKept DEF NoCall, IInv, Errors, ErrorIsOwn
  <2>6. Handles'
    <3>1. \A d, e \in Callers : d # e /\ call'[d].delegate # 0 => call'[d].delegate # call'[e].delegate
      BY <2>4 DEF IInv, Handles, NoCall, Others
    <3>2. \A d \in Callers : Holds(d)' => d # c /\ Holds(d) /\ call'[d] = call[d] /\ call[d].delegate # 0
      BY <2>4 DEF Holds, NoCall, IInv, Types, CallInv, Shape, Others
    <3>3. \A d \in Callers : Holds(d)' => \A i \in Ids : reactions'[i].delegate # call'[d].delegate
      BY <2>1, <3>2 DEF IInv, Handles
    <3>4. CallbackReachesItsDelegate'
      BY <1>1, <1>4, <2>1 DEF IInv, Handles, CallbackReachesItsDelegate, Target, Registered, Live
    <3> QED
      BY <1>1, <1>2, <3>1, <3>2, <3>3, <3>4 DEF IInv, Handles, Live
  <2>7. HandlesAccounted'
    BY <1>1, <2>4, AccountedKept DEF At, IInv
  <2>8. Streams'
    <3>1. \A d \in Callers : call'[d].op = "add" => call'[d].delegate \notin streams'
      BY <1>1, <2>4 DEF IInv, Streams, Others, NoCall
    <3>2. ASSUME NEW d \in Callers, NEW i \in Ids,
                 call'[d].delegate # 0 /\ reactions'[i].delegate = call'[d].delegate
          PROVE  /\ i = call'[d].id
                 /\ call'[d].op = "endStream" /\ call'[d].at = "throw" => call'[d].delegate \in kept'
      <4>1. CASE d = c
        BY <1>1, <2>1, <2>4, <3>2, <4>1 DEF IInv, Handles, NoCall
      <4>2. CASE d # c
        <5>1. call'[d] = call[d] /\ call[d].delegate # call[c].delegate
          BY <1>1, <2>4, <3>2, <4>2 DEF IInv, Handles, Others
        <5>2. i # call[c].id /\ reactions[i].delegate = call[d].delegate
          BY <2>1, <3>2, <5>1
        <5> QED
          BY <1>1, <3>2, <5>1, <5>2 DEF IInv, Streams
      <4> QED
        BY <4>1, <4>2
    <3>3. NoOrphanStream'
      <4> SUFFICES ASSUME engine = "open" /\ ~disposed, NEW i \in Registered',
                          reactions'[i].delegate \in streams \ kept
                   PROVE  \E d \in Callers : call'[d].delegate = reactions'[i].delegate
        BY <1>1 DEF NoOrphanStream
      <4>1. CASE i = call[c].id
        BY <1>1, <2>1, <2>4, <4>1 DEF IInv, Streams
      <4>2. CASE i # call[c].id
        <5>1. i \in Registered /\ reactions'[i] = reactions[i] /\ i \in Ids
          BY <2>1, <4>2 DEF Registered
        <5>2. PICK d \in Callers : call[d].delegate = reactions[i].delegate
          BY <5>1 DEF IInv, Streams, NoOrphanStream
        <5>3. d # c
          BY <1>1, <5>1, <5>2 DEF IInv, Handles
        <5> QED
          BY <2>4, <5>1, <5>2, <5>3 DEF Others
      <4> QED
        BY <4>1, <4>2
    <3> QED
      BY <3>1, <3>2, <3>3 DEF Streams
  <2> QED
    BY <2>3, <2>4, <2>5, <2>6, <2>7, <2>8 DEF IInv, Types
<1> QED
  BY <1>3, <1>4 DEF NativeAdd, Live
LEMMA LastExceptionKeeps ==
    ASSUME IInv, NEW c \in Callers, LastException(c)
    PROVE  IInv'
<1> USE DEF managed
<1>1. /\ call[c] \in Call /\ Shape(call[c]) /\ call[c].at = "throw" /\ call[c].worker \in Workers
      /\ reported' = [reported EXCEPT ![c] = c]
      /\ UNCHANGED <<managed, slot, engine, reactions, lastError, made, calls, streams, stranded, kept>>
  BY DEF LastException, At, IInv, Types, CallInv, Shape, Errors, ErrorIsOwn
<1>2. OtherTypes'
  BY <1>1 DEF IInv, Types, OtherTypes, Registered
<1>3. \A d \in Callers : reported'[d] \in {d, None}
  BY <1>1 DEF IInv, Errors, ErrorIsOwn, Types, OtherTypes
<1>4. /\ Live' => Live
      /\ dispose' \in {"free", "done"} => engine' = "gone"
  BY <1>1 DEF Live, IInv, Handles
<1>5. CASE call[c].op \in AddOps
  <2>1. Goto(c, "untrack")
    BY <1>5 DEF LastException
  <2>2. Becomes(c, [call[c] EXCEPT !.at = "untrack"]) /\ Others(c)
    BY <2>1, Goes DEF IInv, Types, Places, Becomes, Others
  <2>3. /\ call'[c].at = "untrack" /\ call'[c].op = call[c].op /\ call'[c].id = call[c].id
        /\ call'[c].handle = call[c].handle /\ call'[c].delegate = call[c].delegate
        /\ call'[c].worker = call[c].worker
    BY <1>1, <2>2 DEF Becomes, Call
  <2>4. CallInv'
    BY <1>1, <1>5, <2>1, GotoShape DEF IInv
  <2>5. Errors'
    BY <1>1, <1>3, <2>2, <2>3, ErrorsKept
  <2>6. Handles'
    BY <1>1, <1>4, <1>5, <2>2, <2>3, HandlesKept DEF Holds
  <2>7. HandlesAccounted'
    BY <1>1, <2>2, AccountedKept DEF At, IInv
  <2>8. Streams'
    BY <1>1, <2>2, <2>3, StreamsKept
  <2> QED
    BY <1>2, <2>4, <2>5, <2>6, <2>7, <2>8 DEF IInv, Types
<1>6. CASE call[c].op \notin AddOps
  <2>1. Return(c) /\ Becomes(c, NoCall) /\ Others(c)
    BY <1>6, Returns DEF LastException, IInv, Types, Becomes, Others
  <2>2. CallInv'
    BY <1>1, <2>1, ReturnShape DEF IInv
  <2>3. Errors'
    BY <1>1, <1>3, <2>1, ErrorsKept DEF Becomes, NoCall
  <2>4. Handles'
    BY <1>1, <1>4, <2>1, HandlesKept DEF Becomes, NoCall, Holds
  <2>5. HandlesAccounted'
    BY <1>1, <2>1, AccountedKept DEF At, IInv
  <2>6. Streams'
    <3>1. \A d \in Callers : call'[d].op = "add" => call'[d].delegate \notin streams'
      BY <1>1, <2>1 DEF IInv, Streams, Becomes, NoCall
    <3>2. ASSUME NEW d \in Callers, NEW i \in Ids,
                 call'[d].delegate # 0 /\ reactions'[i].delegate = call'[d].delegate
          PROVE  /\ i = call'[d].id
                 /\ call'[d].op = "endStream" /\ call'[d].at = "throw" => call'[d].delegate \in kept'
      BY <1>1, <2>1, <3>2 DEF IInv, Streams, Becomes, NoCall
    <3>3. NoOrphanStream'
      <4> SUFFICES ASSUME engine = "open" /\ ~disposed, NEW i \in Registered,
                          reactions[i].delegate \in streams \ kept
                   PROVE  \E d \in Callers : call'[d].delegate = reactions[i].delegate
        BY <1>1 DEF NoOrphanStream, Registered
      <4>1. PICK d \in Callers : call[d].delegate = reactions[i].delegate
        BY DEF IInv, Streams, NoOrphanStream
      <4>2. reactions[i].delegate # 0 /\ i \in Ids
        BY DEF IInv, Types, OtherTypes, Registered
      <4>3. d # c
        <5>1. call[c].op = "endStream" \/ call[c].delegate = 0
          BY <1>1, <1>6 DEF Shape, Call, Ops, AddOps
        <5> QED
          BY <1>1, <4>1, <4>2, <5>1 DEF IInv, Streams
      <4> QED
        BY <2>1, <4>1, <4>3 DEF Becomes
    <3> QED
      BY <3>1, <3>2, <3>3 DEF Streams
  <2> QED
    BY <1>2, <2>2, <2>3, <2>4, <2>5, <2>6 DEF IInv, Types
<1> QED
  BY <1>5, <1>6

\* The slot of a failed add is nobody else's.
LEMMA UntrackKeeps ==
    ASSUME IInv, NEW c \in Callers, Untrack(c)
    PROVE  IInv'
<1> USE DEF history
<1>1. /\ call[c] \in Call /\ Shape(call[c]) /\ call[c].at = "untrack" /\ call[c].op \in AddOps
      /\ call[c].handle \in Slots /\ Holds(c) /\ Return(c)
      /\ tracked' = tracked \ {call[c].handle}
      /\ slot' = [slot EXCEPT ![call[c].handle] = 0]
      /\ UNCHANGED <<disposed, captured, dispose, engine, reactions, lastError, history>>
  BY DEF Untrack, At, Holds, IInv, Types, CallInv, Shape
<1>2. Becomes(c, NoCall) /\ Others(c)
  BY <1>1, Returns DEF IInv, Types, Becomes, Others
<1>3. Types'
  <2>1. CallInv'
    BY <1>1, ReturnShape DEF IInv
  <2>2. slot' \in [Slots -> 0..made'] /\ tracked' \in SUBSET Slots
    BY <1>1 DEF IInv, Types, OtherTypes
  <2> QED
    BY <1>1, <2>1, <2>2 DEF IInv, Types, OtherTypes, Registered
<1>4. Errors'
  BY <1>1, <1>2, ErrorsKept DEF Becomes, NoCall, IInv, Errors, ErrorIsOwn
<1>5. Handles'
  <2>1. \A d, e \in Callers : d # e /\ call'[d].delegate # 0 => call'[d].delegate # call'[e].delegate
    BY <1>2 DEF IInv, Handles, Becomes, NoCall
  <2>2. \A d \in Callers : Holds(d)' => /\ d # c /\ Holds(d) /\ call'[d] = call[d]
                                        /\ call[d].delegate # 0 /\ call[d].handle \in Slots
    BY <1>2 DEF Holds, Becomes, NoCall, IInv, Types, CallInv, Shape
  <2>3. \A d \in Callers : Holds(d)' => \A i \in Ids : reactions'[i].delegate # call'[d].delegate
    BY <1>1, <2>2 DEF IInv, Handles
  <2>4. Live => slot[call[c].handle] = call[c].delegate
    BY <1>1 DEF IInv, Handles
  <2>5. Live => \A d \in Callers : Holds(d)' => slot'[call'[d].handle] = call'[d].delegate
    <3> SUFFICES ASSUME Live, NEW d \in Callers, Holds(d)'
                 PROVE  slot'[call'[d].handle] = call'[d].delegate
      OBVIOUS
    <3>1. slot[call[d].handle] = call[d].delegate /\ call[d].delegate # call[c].delegate
      BY <2>2 DEF IInv, Handles
    <3>2. call[d].handle # call[c].handle
      BY <2>4, <3>1
    <3> QED
      BY <1>1, <2>2, <3>1, <3>2 DEF IInv, Types, OtherTypes
  <2>6. CallbackReachesItsDelegate'
    <3> SUFFICES ASSUME Live, NEW i \in Registered
                 PROVE  slot'[reactions[i].handle] = reactions[i].delegate
      BY <1>1 DEF CallbackReachesItsDelegate, Live, Registered, Target
    <3>1. /\ slot[reactions[i].handle] = reactions[i].delegate
          /\ reactions[i].delegate # call[c].delegate /\ reactions[i].handle \in Slots
      BY <1>1 DEF IInv, Handles, CallbackReachesItsDelegate, Live, Target, Types, OtherTypes,
                  Registered, Reaction
    <3>2. reactions[i].handle # call[c].handle
      BY <2>4, <3>1
    <3> QED
      BY <1>1, <3>1, <3>2 DEF IInv, Types, OtherTypes
  <2> QED
    BY <1>1, <2>1, <2>3, <2>5, <2>6 DEF IInv, Handles, Live
<1>6. HandlesAccounted'
  BY <1>1, <1>2 DEF IInv, Types, OtherTypes, HandlesAccounted, At, Others
<1>7. Streams'
  BY <1>1, <1>2, StreamsKept DEF Becomes
<1> QED
  BY <1>3, <1>4, <1>5, <1>6, <1>7 DEF IInv

LEMMA EndStreamKeeps ==
    ASSUME IInv, NEW c \in Callers, EndStream(c)
    PROVE  IInv'
<1> USE DEF managed, history
<1>1. /\ call[c] \in Call /\ Shape(call[c]) /\ call[c].at = "reading" /\ call[c].op = "stream"
      /\ UNCHANGED <<managed, slot, engine, reactions, lastError, history>>
  BY DEF EndStream, At, IInv, Types, CallInv, Shape
<1>2. OtherTypes' /\ (Live' => Live) /\ (dispose' \in {"free", "done"} => engine' = "gone")
  BY <1>1 DEF IInv, Types, OtherTypes, Registered, Handles, Live
<1>3. CASE disposed
  <2>1. Return(c) /\ Becomes(c, NoCall) /\ Others(c)
    BY <1>3, Returns DEF EndStream, IInv, Types, Becomes, Others
  <2>2. CallInv'
    BY <1>1, <2>1, ReturnShape DEF IInv
  <2>3. Errors'
    BY <1>1, <2>1, ErrorsKept DEF Becomes, NoCall, IInv, Errors, ErrorIsOwn
  <2>4. Handles'
    BY <1>1, <1>2, <2>1, HandlesKept DEF Becomes, NoCall, Holds
  <2>5. HandlesAccounted'
    BY <1>1, <2>1, AccountedKept DEF At, IInv
  <2>6. Streams'
    BY <1>1, <1>3, <2>1 DEF IInv, Streams, NoOrphanStream, Becomes, NoCall
  <2> QED
    BY <1>2, <2>2, <2>3, <2>4, <2>5, <2>6 DEF IInv, Types
<1>4. CASE ~disposed
  <2>1. [call[c] EXCEPT !.at = "queued", !.op = "endStream"] \in Call
    BY <1>1 DEF Call, Places, Ops
  <2>2. Becomes(c, [call[c] EXCEPT !.at = "queued", !.op = "endStream"]) /\ Others(c)
    BY <1>4, <2>1 DEF EndStream, IInv, Types, CallInv, Becomes, Others
  <2>3. /\ call'[c].at = "queued" /\ call'[c].op = "endStream" /\ call'[c].id = call[c].id
        /\ call'[c].handle = call[c].handle /\ call'[c].delegate = call[c].delegate
        /\ call'[c].worker = call[c].worker
    BY <1>1, <2>2 DEF Becomes, Call
  <2>4. CallInv'
    <3>1. Shape(call[c])'
      BY <1>1, <2>2, <2>3 DEF Others, Shape, AddOps
    <3> QED
      BY <1>1, <2>2, <3>1, ShapeKept DEF IInv, Types, OtherTypes, Others
  <2>5. Errors'
    BY <1>1, <2>2, <2>3, ErrorsKept DEF IInv, Errors, ErrorIsOwn
  <2>6. Handles'
    BY <1>1, <1>2, <2>2, <2>3, HandlesKept DEF Holds, AddOps
  <2>7. HandlesAccounted'
    BY <1>1, <2>2, AccountedKept DEF At, IInv
  <2>8. Streams'
    <3>1. \A d \in Callers : call'[d].delegate = call[d].delegate /\ call'[d].id = call[d].id
      BY <2>2, <2>3 DEF Others
    <3> QED
      BY <1>1, <2>2, <2>3, <3>1 DEF IInv, Streams, NoOrphanStream, Registered, Others
  <2> QED
    BY <1>2, <2>4, <2>5, <2>6, <2>7, <2>8 DEF IInv, Types
<1> QED
  BY <1>3, <1>4
-----------------------------------------------------------------------------
(* DisposeCore, and the theorems *)

LEMMA DisposeKeeps == ASSUME IInv, Dispose PROVE IInv'
<1> USE DEF history
<1>1. UNCHANGED <<call, reactions, lastError, history>>
  BY DEF Dispose, DisposeBegin, Destroy, DestroyDone, FreeCaptured
<1>2. CallInv' /\ Errors'
  BY <1>1 DEF IInv, Types, CallInv, Shape, Errors, ErrorIsOwn, At
<1>3. /\ disposed' \in BOOLEAN /\ tracked' \in SUBSET Slots /\ captured' \in SUBSET Slots
      /\ captured' # {} => disposed'
      /\ slot' \in [Slots -> 0..made'] /\ dispose' \in {"no", "destroy", "closing", "free", "done"}
      /\ engine' \in {"open", "closing", "closed", "gone"}
  <2>1. CASE DisposeBegin \/ Destroy \/ DestroyDone
    BY <1>1, <2>1 DEF DisposeBegin, Destroy, DestroyDone, IInv, Types, OtherTypes
  <2>2. CASE FreeCaptured
    BY <1>1, <2>2 DEF FreeCaptured, IInv, Types, OtherTypes
  <2> QED
    BY <2>1, <2>2 DEF Dispose
<1>4. Types'
  BY <1>1, <1>2, <1>3 DEF IInv, Types, OtherTypes, Registered
<1>5. /\ Live' => (Live /\ slot' = slot)
      /\ engine' = "open" /\ ~disposed' => engine = "open" /\ ~disposed
      /\ dispose' \in {"free", "done"} => engine' = "gone"
  BY DEF Dispose, DisposeBegin, Destroy, DestroyDone, FreeCaptured, IInv, Types, OtherTypes, Handles,
         Live
<1>6. Handles'
  <2>1. Live' => \A c \in Callers : Holds(c)' => slot'[call'[c].handle] = call'[c].delegate
    BY <1>1, <1>5 DEF IInv, Handles, Holds
  <2>2. CallbackReachesItsDelegate'
    BY <1>1, <1>5 DEF IInv, Handles, CallbackReachesItsDelegate, Live, Registered, Target
  <2> QED
    BY <1>1, <1>5, <2>1, <2>2 DEF IInv, Handles, Holds
<1>7. HandlesAccounted'
  <2>1. CASE DisposeBegin \/ Destroy \/ DestroyDone
    BY <1>1, <2>1 DEF DisposeBegin, Destroy, DestroyDone, IInv, Types, OtherTypes,
                      HandlesAccounted, At
  <2>2. CASE FreeCaptured
    BY <1>1, <2>2 DEF FreeCaptured, IInv, Types, OtherTypes, HandlesAccounted, At
  <2> QED
    BY <2>1, <2>2 DEF Dispose
<1>8. Streams'
  BY <1>1, <1>5 DEF IInv, Streams, NoOrphanStream, Registered
<1> QED
  BY <1>2, <1>4, <1>6, <1>7, <1>8 DEF IInv

LEMMA NewCallKeeps ==
    ASSUME IInv, NEW c \in Callers, NewCall(c)
    PROVE  IInv'
<1> USE NoCallType DEF NoCall, Call, Places, Ops, AddOps
<1>1. ASSUME NEW i \in Ids, AddReaction(c, i)
      PROVE  IInv'
  <2>1. [NoCall EXCEPT !.at = "alloc", !.op = "add", !.id = i] \in Call
    OBVIOUS
  <2> QED
    BY <1>1, <2>1, EnterKeeps DEF AddReaction
<1>2. ASSUME NEW i \in Ids, QueryResults(c, i)
      PROVE  IInv'
  <2>1. [NoCall EXCEPT !.at = "alloc", !.op = "stream", !.id = i] \in Call
    OBVIOUS
  <2> QED
    BY <1>2, <2>1, EnterKeeps DEF QueryResults
<1>3. ASSUME NEW i \in Ids, RemoveReaction(c, i)
      PROVE  IInv'
  <2>1. [NoCall EXCEPT !.at = "queued", !.op = "remove", !.id = i] \in Call
    OBVIOUS
  <2> QED
    BY <1>3, <2>1, EnterKeeps DEF RemoveReaction
<1>4. CASE ShutdownAsync(c)
  <2>1. [NoCall EXCEPT !.at = "queued", !.op = "shutdown"] \in Call
    OBVIOUS
  <2> QED
    BY <1>4, <2>1, EnterKeeps DEF ShutdownAsync
<1>5. CASE OtherCall(c)
  <2>1. [NoCall EXCEPT !.at = "queued"] \in Call
    OBVIOUS
  <2> QED
    BY <1>5, <2>1, EnterKeeps DEF OtherCall
<1> QED
  BY <1>1, <1>2, <1>3, <1>4, <1>5 DEF NewCall

LEMMA StepHolds == IInv /\ [Next]_vars => IInv'
<1> SUFFICES ASSUME IInv, [Next]_vars PROVE IInv'
  OBVIOUS
<1>1. CASE Dispose
  BY <1>1, DisposeKeeps
<1>2. ASSUME NEW c \in Callers, CallStep(c) PROVE IInv'
  BY <1>2, AllocHandleKeeps, TrackCallbackKeeps, CancelKeeps, RunKeeps, NativeAddKeeps,
     NativeRemoveKeeps, NativeOtherKeeps, NativeShutdownKeeps, NativeShutdownDoneKeeps,
     LastExceptionKeeps, UntrackKeeps, EndStreamKeeps DEF CallStep
<1>3. ASSUME NEW c \in Callers, NewCall(c) PROVE IInv'
  BY <1>3, NewCallKeeps
<1>4. CASE UNCHANGED vars
  <2>1. Types' /\ Errors' /\ HandlesAccounted'
    BY <1>4 DEF vars, IInv, Types, CallInv, Shape, OtherTypes, Registered, Errors, ErrorIsOwn,
                HandlesAccounted, At
  <2>2. Handles' /\ Streams'
    BY <1>4 DEF vars, IInv, Handles, Holds, Live, CallbackReachesItsDelegate, Target, Registered,
                Streams, NoOrphanStream
  <2> QED
    BY <2>1, <2>2 DEF IInv
<1> QED
  BY <1>1, <1>2, <1>3, <1>4 DEF Next

LEMMA Invariance == Spec => []IInv
BY InitHolds, StepHolds, PTL DEF Spec

\* Type correctness of calls, handles and reactions.
THEOREM TypeCorrect == Spec => []TypeOK
<1>1. IInv => TypeOK
  <2> SUFFICES ASSUME IInv PROVE TypeOK
    OBVIOUS
  <2>1. ASSUME NEW c \in Callers
        PROVE  /\ call[c].op \in AddOps /\ call[c].at \notin {"idle", "alloc"}
                     => call[c].handle \in Slots /\ call[c].delegate \in 1..made
               /\ call[c].at \in {"native", "closing", "throw", "untrack"} => call[c].worker \in Workers
    BY DEF IInv, Types, CallInv, Shape, OtherTypes
  <2> QED
    BY <2>1 DEF TypeOK, IInv, Types, CallInv, OtherTypes
<1> QED
  BY <1>1, Invariance, PTL

\* Every registered reaction holds the handle of its own delegate (dispatch,
\* OnNativeCallback), for any number of callers, threads and handles.
THEOREM CallbacksReach == Spec => []CallbackReachesItsDelegate
<1>1. IInv => CallbackReachesItsDelegate
  BY DEF IInv, Handles
<1> QED
  BY <1>1, Invariance, PTL

\* No handle is forgotten but one allocated before TrackCallback found the
\* engine disposed (TrackCallback, Untrack, DisposeCore).
THEOREM NoHandleLost == Spec => []HandlesAccounted
<1>1. IInv => HandlesAccounted
  BY DEF IInv
<1> QED
  BY <1>1, Invariance, PTL

\* An exception describes the failure of the call that throws it (LAST_ERROR).
THEOREM ErrorsAreOwn == Spec => []ErrorIsOwn
<1>1. IInv => ErrorIsOwn
  BY DEF IInv, Errors
<1> QED
  BY <1>1, Invariance, PTL

\* The reaction of an enumerator of QueryResultsAsync is removed with it, or
\* its removal was refused.
THEOREM StreamsRemoveReactions == Spec => []NoOrphanStream
<1>1. IInv => NoOrphanStream
  BY DEF IInv, Streams
<1> QED
  BY <1>1, Invariance, PTL
===============================================================================
