----------------------------- MODULE ManagedCalls -----------------------------
(***************************************************************************)
(* The calls of Engine.cs into native code: the disposed check, the thread *)
(* a call runs on, the error it reads back on that thread, and the         *)
(* GCHandles of reaction callbacks, from AddReactionAsync, the durable     *)
(* reaction and QueryResultsAsync to Dispose.                              *)
(*                                                                         *)
(* Delegates are numbered; a slot of the runtime's handle table holds one, *)
(* or 0, and is used again once it is free.  drasi-lib's registry of       *)
(* reactions is external.  A call that enters native code after Dispose    *)
(* has freed the engine is undefined: here it never returns.               *)
(***************************************************************************)
EXTENDS Naturals, FiniteSets

CONSTANTS Callers,    \* tasks that use the engine
          Workers,    \* threads of the pool that Task.Run uses
          Ids,        \* reaction ids
          Slots,      \* slots of the GCHandle table
          None,
          MaxCalls    \* bound of the model on the number of calls

ASSUME CallsAssumption ==
    /\ None \notin Callers \cup Workers \cup Ids \cup Slots
    /\ MaxCalls \in Nat

VARIABLES
    (* Engine.cs *)
    disposed,    \* _disposed
    tracked,     \* _callbackHandles
    slot,        \* [Slots -> the delegate the GCHandle refers to, 0 when free]
    captured,    \* the handles DisposeCore copied and has not freed yet
    dispose,     \* how far DisposeCore is
    call,        \* [Callers -> the caller's call]
    (* native code *)
    engine,      \* the engine handle: open, closing, closed or gone
    reactions,   \* [Ids -> the registered reaction, or NoReaction]
    lastError,   \* [Workers -> whose call set the thread's LAST_ERROR]
    (* history *)
    reported,    \* [Callers -> whose error its last exception described]
    made,        \* number of delegates made
    calls,       \* number of calls made
    streams,     \* delegates of QueryResultsAsync
    stranded,    \* handles allocated and then refused, as the engine was disposed
    kept         \* delegates whose reaction drasi-lib would not remove

managed == <<disposed, tracked, captured, dispose>>
history == <<reported, made, calls, streams, stranded, kept>>
vars == <<disposed, tracked, slot, captured, dispose, call, engine, reactions, lastError,
          reported, made, calls, streams, stranded, kept>>

AddOps == {"add", "stream"}
Ops == AddOps \cup {"remove", "endStream", "other", "shutdown"}
Places == {"idle", "alloc", "track", "queued", "native", "closing", "throw", "untrack", "reading"}

Call == [at : Places, op : Ops, id : Ids \cup {None}, handle : Slots \cup {None},
         delegate : Nat, worker : Workers \cup {None}]
NoCall == [at |-> "idle", op |-> "other", id |-> None, handle |-> None, delegate |-> 0,
           worker |-> None]

Reaction == [handle : Slots, delegate : Nat]
NoReaction == [handle |-> None, delegate |-> 0]

TypeOK ==
    /\ disposed \in BOOLEAN
    /\ tracked \subseteq Slots /\ captured \subseteq Slots
    /\ slot \in [Slots -> 0..made]
    /\ dispose \in {"no", "destroy", "closing", "free", "done"}
    /\ call \in [Callers -> Call]
    /\ \A c \in Callers :
          /\ call[c].op \in AddOps /\ call[c].at \notin {"idle", "alloc"}
                => call[c].handle \in Slots /\ call[c].delegate \in 1..made
          /\ call[c].at \in {"native", "closing", "throw", "untrack"} => call[c].worker \in Workers
    /\ engine \in {"open", "closing", "closed", "gone"}
    /\ reactions \in [Ids -> Reaction \cup {NoReaction}]
    /\ lastError \in [Workers -> Callers \cup {None}]
    /\ reported \in [Callers -> Callers \cup {None}]
    /\ made \in Nat /\ calls \in Nat
    /\ streams \subseteq 1..made /\ kept \subseteq 1..made
    /\ stranded \subseteq Slots

Init ==
    /\ disposed = FALSE /\ tracked = {} /\ captured = {} /\ dispose = "no"
    /\ slot = [h \in Slots |-> 0]
    /\ call = [c \in Callers |-> NoCall]
    /\ engine = "open"
    /\ reactions = [i \in Ids |-> NoReaction]
    /\ lastError = [w \in Workers |-> None]
    /\ reported = [c \in Callers |-> None]
    /\ made = 0 /\ calls = 0
    /\ streams = {} /\ stranded = {} /\ kept = {}

At(c, place) == call[c].at = place
Goto(c, place) == call' = [call EXCEPT ![c].at = place]
Return(c) == call' = [call EXCEPT ![c] = NoCall]

-----------------------------------------------------------------------------
(* The managed part of a call *)

Enter(c, request) ==
    /\ At(c, "idle") /\ calls < MaxCalls
    /\ ~disposed
    /\ calls' = calls + 1
    /\ call' = [call EXCEPT ![c] = request]
    /\ UNCHANGED <<managed, slot, engine, reactions, lastError, reported, made, streams,
                   stranded, kept>>

\* AddReactionAsync, and AddDurableReactionAsync, which has one more way to fail.
AddReaction(c, i) == Enter(c, [NoCall EXCEPT !.at = "alloc", !.op = "add", !.id = i])

\* QueryResultsAsync adds a reaction that writes to the channel of the stream.
QueryResults(c, i) == Enter(c, [NoCall EXCEPT !.at = "alloc", !.op = "stream", !.id = i])

RemoveReaction(c, i) == Enter(c, [NoCall EXCEPT !.at = "queued", !.op = "remove", !.id = i])

ShutdownAsync(c) == Enter(c, [NoCall EXCEPT !.at = "queued", !.op = "shutdown"])

\* Any call that concerns neither a callback nor the engine's life.
OtherCall(c) == Enter(c, [NoCall EXCEPT !.at = "queued"])

\* TrackCallback allocates before it takes the lock ...
AllocHandle(c) ==
    /\ At(c, "alloc")
    /\ \E h \in Slots :
          /\ slot[h] = 0
          /\ slot' = [slot EXCEPT ![h] = made + 1]
          /\ call' = [call EXCEPT ![c] = [@ EXCEPT !.at = "track", !.handle = h, !.delegate = made + 1]]
    /\ made' = made + 1
    /\ streams' = IF call[c].op = "stream" THEN streams \cup {made + 1} ELSE streams
    /\ UNCHANGED <<managed, engine, reactions, lastError, reported, calls, stranded, kept>>

\* ... and throws under the lock when the engine was disposed meanwhile.
TrackCallback(c) ==
    /\ At(c, "track")
    /\ IF disposed
       THEN Return(c) /\ stranded' = stranded \cup {call[c].handle} /\ UNCHANGED tracked
       ELSE Goto(c, "queued") /\ tracked' = tracked \cup {call[c].handle} /\ UNCHANGED stranded
    /\ UNCHANGED <<disposed, slot, captured, dispose, engine, reactions, lastError, reported,
                   made, calls, streams, kept>>

\* Mutant: the removal at the end of a stream gets the caller's token.
Cancel_EndStream(c) ==
    /\ At(c, "queued")
    /\ Return(c)
    /\ UNCHANGED <<managed, slot, engine, reactions, lastError, history>>

\* RunAsync: the token is cancelled before a thread has begun the call.  The
\* `catch' that would untrack the handle is inside what was not begun.
Cancel(c) ==
    /\ At(c, "queued") /\ call[c].op # "endStream"
    /\ Return(c)
    /\ UNCHANGED <<managed, slot, engine, reactions, lastError, history>>

\* A thread that runs no other call begins this one.
Run(c, w) ==
    /\ At(c, "queued")
    /\ \A d \in Callers : call[d].worker # w
    /\ call' = [call EXCEPT ![c] = [@ EXCEPT !.at = "native", !.worker = w]]
    /\ UNCHANGED <<managed, slot, engine, reactions, lastError, history>>

-----------------------------------------------------------------------------
(* Inside the native call *)

\* Mutant: one LAST_ERROR for the whole process.
Fails_Global(c) ==
    /\ Goto(c, "throw")
    /\ lastError' = [w \in Workers |-> c]

\* catch_status and catch_string keep the error, or the panic, for the thread.
Fails(c) ==
    /\ Goto(c, "throw")
    /\ lastError' = [lastError EXCEPT ![call[c].worker] = c]

Clears(c) == lastError' = [lastError EXCEPT ![call[c].worker] = None]
Succeeds(c) == Clears(c) /\ Return(c)

\* Mutant: the handle is untracked when the call ends, not only when it fails.
NativeAdd_Untracks(c) ==
    /\ At(c, "native") /\ call[c].op \in AddOps /\ engine # "gone"
    /\ \/ /\ engine \in {"open", "closing"} /\ reactions[call[c].id] = NoReaction
          /\ reactions' = [reactions EXCEPT ![call[c].id] =
                              [handle |-> call[c].handle, delegate |-> call[c].delegate]]
          /\ Clears(c)
          /\ Goto(c, "untrack")
       \/ Fails(c) /\ UNCHANGED reactions
    /\ UNCHANGED <<managed, slot, engine, history>>

\* ensure_open, the ids and the recovery policy are parsed, a state store is
\* there if one is needed, and drasi-lib accepts the id; or the call fails.
NativeAdd(c) ==
    /\ At(c, "native") /\ call[c].op \in AddOps /\ engine # "gone"
    /\ \/ /\ engine \in {"open", "closing"} /\ reactions[call[c].id] = NoReaction
          /\ reactions' = [reactions EXCEPT ![call[c].id] =
                              [handle |-> call[c].handle, delegate |-> call[c].delegate]]
          /\ Clears(c)
          /\ IF call[c].op = "add" THEN Return(c)
             ELSE call' = [call EXCEPT ![c] = [@ EXCEPT !.at = "reading", !.worker = None]]
       \/ Fails(c) /\ UNCHANGED reactions
    /\ UNCHANGED <<managed, slot, engine, history>>

NativeRemove(c) ==
    /\ At(c, "native") /\ call[c].op \in {"remove", "endStream"} /\ engine # "gone"
    /\ \/ /\ engine \in {"open", "closing"} /\ reactions[call[c].id] # NoReaction
          /\ reactions' = [reactions EXCEPT ![call[c].id] = NoReaction]
          /\ Succeeds(c) /\ UNCHANGED kept
       \/ /\ Fails(c)
          /\ kept' = kept \cup ({reactions[call[c].id].delegate} \ {0})
          /\ UNCHANGED reactions
    /\ UNCHANGED <<managed, slot, engine, reported, made, calls, streams, stranded>>

NativeOther(c) ==
    /\ At(c, "native") /\ call[c].op = "other" /\ engine # "gone"
    /\ Succeeds(c) \/ Fails(c)
    /\ UNCHANGED <<managed, slot, engine, reactions, history>>

\* Only the first caller that sets `closed' shuts drasi-lib down.
NativeShutdown(c) ==
    /\ At(c, "native") /\ call[c].op = "shutdown" /\ engine # "gone"
    /\ IF engine = "open"
       THEN engine' = "closing" /\ Goto(c, "closing") /\ UNCHANGED lastError
       ELSE Succeeds(c) /\ UNCHANGED engine
    /\ UNCHANGED <<managed, slot, reactions, history>>

NativeShutdownDone(c) ==
    /\ At(c, "closing") /\ engine = "closing"
    /\ engine' = "closed"
    /\ Succeeds(c) \/ Fails(c)
    /\ UNCHANGED <<managed, slot, reactions, history>>

-----------------------------------------------------------------------------
(* Back in managed code *)

\* ThrowIfError reads code and message on the thread that made the call.
LastException(c) ==
    /\ At(c, "throw")
    /\ reported' = [reported EXCEPT ![c] = lastError[call[c].worker]]
    /\ IF call[c].op \in AddOps THEN Goto(c, "untrack") ELSE Return(c)
    /\ UNCHANGED <<managed, slot, engine, reactions, lastError, made, calls, streams, stranded,
                   kept>>

\* The copy of the handle held here is allocated, whatever became of others.
Untrack(c) ==
    /\ At(c, "untrack")
    /\ tracked' = tracked \ {call[c].handle}
    /\ slot' = [slot EXCEPT ![call[c].handle] = 0]
    /\ Return(c)
    /\ UNCHANGED <<disposed, captured, dispose, engine, reactions, lastError, history>>

\* The finally block of QueryResultsAsync; what RemoveReactionAsync throws when
\* the engine is disposed, or native code reports, is logged and forgotten.
EndStream(c) ==
    /\ At(c, "reading")
    /\ IF disposed THEN Return(c)
       ELSE call' = [call EXCEPT ![c] = [@ EXCEPT !.at = "queued", !.op = "endStream"]]
    /\ UNCHANGED <<managed, slot, engine, reactions, lastError, history>>

-----------------------------------------------------------------------------
(* DisposeCore *)

\* Mutant: the list is taken, not copied, and then cleared.
DisposeBegin_NoCopy ==
    /\ ~disposed /\ disposed' = TRUE
    /\ dispose' = "destroy"
    /\ captured' = {} /\ tracked' = {}
    /\ UNCHANGED <<slot, call, engine, reactions, lastError, history>>

DisposeBegin ==
    /\ ~disposed /\ disposed' = TRUE
    /\ dispose' = "destroy"
    /\ captured' = tracked /\ tracked' = {}
    /\ UNCHANGED <<slot, call, engine, reactions, lastError, history>>

\* drasi_engine_destroy: shutdown returns at once when the engine was closed
\* before, even if that shutdown has not finished.
Destroy ==
    /\ dispose = "destroy"
    /\ IF engine = "open" THEN engine' = "closing" /\ dispose' = "closing"
                          ELSE engine' = "gone" /\ dispose' = "free"
    /\ UNCHANGED <<disposed, tracked, slot, captured, call, reactions, lastError, history>>

DestroyDone ==
    /\ dispose = "closing"
    /\ engine' = "gone" /\ dispose' = "free"
    /\ UNCHANGED <<disposed, tracked, slot, captured, call, reactions, lastError, history>>

FreeCaptured ==
    /\ dispose = "free"
    /\ \/ \E h \in captured :
             /\ slot' = [slot EXCEPT ![h] = 0]
             /\ captured' = captured \ {h}
             /\ UNCHANGED dispose
       \/ captured = {} /\ dispose' = "done" /\ UNCHANGED <<slot, captured>>
    /\ UNCHANGED <<disposed, tracked, call, engine, reactions, lastError, history>>

Dispose == DisposeBegin \/ Destroy \/ DestroyDone \/ FreeCaptured

CallStep(c) ==
    \/ AllocHandle(c) \/ TrackCallback(c) \/ Cancel(c) \/ (\E w \in Workers : Run(c, w))
    \/ NativeAdd(c) \/ NativeRemove(c) \/ NativeOther(c)
    \/ NativeShutdown(c) \/ NativeShutdownDone(c)
    \/ LastException(c) \/ Untrack(c) \/ EndStream(c)

NewCall(c) ==
    \/ \E i \in Ids : AddReaction(c, i) \/ QueryResults(c, i) \/ RemoveReaction(c, i)
    \/ ShutdownAsync(c) \/ OtherCall(c)

Next == Dispose \/ \E c \in Callers : CallStep(c) \/ NewCall(c)

Spec == Init /\ [][Next]_vars

-----------------------------------------------------------------------------
(* Properties *)

\* What OnNativeCallback finds in the slot that a reaction passes to it
Target(i) == slot[reactions[i].handle]

Registered == {i \in Ids : reactions[i] # NoReaction}

\* A reaction that can still run calls its own delegate: no failing, cancelled
\* or removed reaction, no stream and no dispose frees or passes on the slot
\* that a registered reaction holds (dispatch, OnNativeCallback).
CallbackReachesItsDelegate ==
    engine \in {"open", "closing"} =>
        \A i \in Registered : Target(i) = reactions[i].delegate

\* No handle is forgotten: what is allocated will be freed by the call that
\* allocated it or by Dispose.  The one exception is a handle allocated before
\* TrackCallback found the engine disposed.
HandlesAccounted ==
    \A h \in Slots : slot[h] # 0 =>
        \/ h \in tracked \cup captured \cup stranded
        \/ \E c \in Callers : At(c, "track") /\ call[c].handle = h

\* An exception describes the failure of the call that throws it, however
\* calls of other threads fail and succeed meanwhile (LAST_ERROR).
ErrorIsOwn == \A c \in Callers : reported[c] \in {c, None} /\ (At(c, "throw") => lastError[call[c].worker] = c)

\* The reaction behind QueryResultsAsync goes when its enumerator does, unless
\* drasi-lib refused to remove it (website guides/streaming.md).
NoOrphanStream ==
    engine = "open" /\ ~disposed =>
        \A i \in Registered : reactions[i].delegate \in streams \ kept =>
            \E c \in Callers : call[c].delegate = reactions[i].delegate
=============================================================================
