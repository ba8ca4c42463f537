----------------------------- MODULE StreamBridge -----------------------------
(***************************************************************************)
(* One event or log stream, from drasi-lib's broadcast channel to the      *)
(* `await foreach' of a managed consumer: the pump task of streams.rs, the *)
(* native callback, the bounded channel of Engine.cs, the enumerator with  *)
(* its finally block, and Engine.Dispose running against all of them.      *)
(*                                                                         *)
(* Items are numbered in the order in which they were emitted; the first   *)
(* HistoryLen are the history handed over with the subscription.  With     *)
(* HistoryLen = 0 and BroadcastCap >= MaxItems the pump is pump_stream.    *)
(***************************************************************************)
EXTENDS Integers, Sequences

CONSTANTS HistoryLen,    \* items in the history of the component
          BroadcastCap,  \* items drasi-lib retains for a slow receiver
          ChannelCap,    \* capacity of the managed channel (256 in the code)
          MaxItems       \* bound of the model on the number of items

ASSUME StreamAssumption ==
    /\ HistoryLen \in Nat /\ MaxItems \in Nat /\ HistoryLen <= MaxItems
    /\ BroadcastCap \in Nat \ {0} /\ ChannelCap \in Nat \ {0}

VARIABLES
    (* native side *)
    emitted,     \* items broadcast so far
    senderUp,    \* whether the engine still holds the broadcast sender
    received,    \* items the receiver has consumed or skipped
    pump,        \* control point of the pump task
    inHand,      \* the message the pump is passing to the callback
    stop,        \* whether the stop signal of the StreamHandle was sent
    (* managed side *)
    channel,     \* messages waiting in the bounded channel
    completed,   \* whether its writer was completed
    consumer,    \* control point of the enumerator
    ended,       \* how the enumeration ended
    yielded,     \* items handed to the loop body
    dispose,     \* control point of Engine.DisposeCore
    tracked,     \* whether _callbackHandles lists the callback's GCHandle
    captured,    \* whether DisposeCore took a copy of the GCHandle
    frees,       \* how often the GCHandle was freed
    (* history *)
    hidden       \* items that vanished in a full channel

native == <<emitted, senderUp, received, pump, inHand, stop>>
handles == <<tracked, captured, frees>>
vars == <<emitted, senderUp, received, pump, inHand, stop, channel, completed,
          consumer, ended, yielded, dispose, tracked, captured, frees, hidden>>

\* A message stands for the items first..last: an item, or a lag notice.
Messages == [kind : {"item", "lagged"}, first : 1..MaxItems, last : 1..MaxItems]
Item(n) == [kind |-> "item", first |-> n, last |-> n]
Lagged(m, n) == [kind |-> "lagged", first |-> m, last |-> n]
None == [kind |-> "none"]

TypeOK ==
    /\ emitted \in 0..MaxItems /\ senderUp \in BOOLEAN /\ received \in 0..emitted
    /\ pump \in {"history", "live", "done"}
    /\ inHand \in Messages \cup {None}
    /\ stop \in BOOLEAN
    /\ channel \in Seq(Messages) /\ Len(channel) <= ChannelCap
    /\ completed \in BOOLEAN
    /\ consumer \in {"reading", "close", "complete", "untrack", "finished"}
    /\ ended \in {"no", "completed", "lagged", "abandoned"}
    /\ yielded \in Seq(1..MaxItems)
    /\ dispose \in {"no", "destroy", "free", "done"}
    /\ tracked \in BOOLEAN /\ captured \in BOOLEAN /\ frees \in 0..2
    /\ hidden \in SUBSET (1..MaxItems)

Init ==
    /\ emitted = HistoryLen /\ senderUp = TRUE
    /\ received = 0 /\ pump = "history" /\ inHand = None /\ stop = FALSE
    /\ channel = <<>> /\ completed = FALSE
    /\ consumer = "reading" /\ ended = "no" /\ yielded = <<>>
    /\ dispose = "no" /\ tracked = TRUE /\ captured = FALSE /\ frees = 0
    /\ hidden = {}

-----------------------------------------------------------------------------
(* The broadcast channel and the pump task *)

Emit ==
    /\ senderUp /\ emitted < MaxItems
    /\ emitted' = emitted + 1
    /\ UNCHANGED <<senderUp, received, pump, inHand, stop, channel, completed, consumer,
                   ended, yielded, dispose, handles, hidden>>

\* The component is removed: drasi-lib drops the broadcast sender.
SenderDropped ==
    /\ senderUp
    /\ senderUp' = FALSE
    /\ UNCHANGED <<emitted, received, pump, inHand, stop, channel, completed, consumer,
                   ended, yielded, dispose, handles, hidden>>

PumpTakes(m) ==
    /\ inHand' = m
    /\ received' = m.last
    /\ UNCHANGED <<emitted, senderUp, pump, stop, channel, completed, consumer, ended,
                   yielded, dispose, handles, hidden>>

\* The history loop runs to its end: it never looks at the stop signal.
PumpHistory ==
    /\ pump = "history" /\ inHand = None /\ received < HistoryLen
    /\ PumpTakes(Item(received + 1))

PumpBecomes(state) ==
    /\ pump' = state
    /\ UNCHANGED <<emitted, senderUp, received, inHand, stop, channel, completed, consumer,
                   ended, yielded, dispose, handles, hidden>>

PumpHistoryDone ==
    /\ pump = "history" /\ inHand = None /\ received = HistoryLen
    /\ PumpBecomes("live")

\* The oldest item the broadcast channel still holds for a receiver
Oldest == IF emitted > HistoryLen + BroadcastCap THEN emitted - BroadcastCap + 1
          ELSE HistoryLen + 1

PumpReceive ==
    /\ pump = "live" /\ inHand = None
    /\ received < emitted /\ Oldest <= received + 1
    /\ PumpTakes(Item(received + 1))

PumpLagged ==
    /\ pump = "live" /\ inHand = None
    /\ received + 1 < Oldest
    /\ PumpTakes(Lagged(received + 1, Oldest - 1))

\* Mutant: the task returns as soon as the sender is gone.
PumpClosed_Early ==
    /\ pump = "live" /\ inHand = None
    /\ ~senderUp
    /\ PumpBecomes("done")

PumpClosed ==
    /\ pump = "live" /\ inHand = None
    /\ ~senderUp /\ received = emitted
    /\ PumpBecomes("done")

PumpStop ==
    /\ pump = "live" /\ inHand = None /\ stop
    /\ PumpBecomes("done")

-----------------------------------------------------------------------------
(* The callback: OnNativeCallback and TryWriteStream *)

\* BoundedChannelFullMode.DropWrite: TryWrite on a full channel drops the item
\* and returns true, so the branch that would complete the stream with a
\* StreamLaggedException is taken only when the writer is already complete,
\* where it has no effect.
TryWriteStream(m) ==
    IF completed THEN UNCHANGED <<channel, hidden>>
    ELSE IF Len(channel) < ChannelCap
         THEN channel' = Append(channel, m) /\ UNCHANGED hidden
         ELSE hidden' = hidden \cup m.first..m.last /\ UNCHANGED channel

\* A callback on a freed GCHandle finds no target, or that of whoever got the
\* slot since: to this stream the message is lost.
Callback ==
    /\ inHand # None
    /\ inHand' = None
    /\ IF frees = 0 THEN TryWriteStream(inHand) ELSE UNCHANGED <<channel, hidden>>
    /\ UNCHANGED <<emitted, senderUp, received, pump, stop, completed, consumer, ended,
                   yielded, dispose, handles>>

-----------------------------------------------------------------------------
(* SubscribeJsonAsync: ReadAllAsync and its finally block *)

EnumerationEnds(how) ==
    /\ consumer' = "close"
    /\ ended' = how

\* Mutant: a lag notice is skipped instead of thrown.
ConsumerRead_IgnoresLag ==
    /\ consumer = "reading" /\ channel # <<>>
    /\ channel' = Tail(channel)
    /\ yielded' = IF Head(channel).kind = "lagged" THEN yielded
                  ELSE Append(yielded, Head(channel).first)
    /\ UNCHANGED <<native, completed, consumer, ended, dispose, handles, hidden>>

\* Mutant: a lag is thrown when the sequence is over, after the items behind it.
ConsumerRead_ThrowsLate ==
    /\ consumer = "reading" /\ channel # <<>>
    /\ channel' = Tail(channel)
    /\ IF Head(channel).kind = "lagged"
       THEN ended' = "lagged" /\ UNCHANGED yielded
       ELSE yielded' = Append(yielded, Head(channel).first) /\ UNCHANGED ended
    /\ UNCHANGED <<native, completed, consumer, dispose, handles, hidden>>

ConsumerRead ==
    /\ consumer = "reading" /\ channel # <<>>
    /\ channel' = Tail(channel)
    /\ IF Head(channel).kind = "lagged"
       THEN EnumerationEnds("lagged") /\ UNCHANGED yielded
       ELSE yielded' = Append(yielded, Head(channel).first) /\ UNCHANGED <<consumer, ended>>
    /\ UNCHANGED <<native, completed, dispose, handles, hidden>>

ConsumerCompleted ==
    /\ consumer = "reading" /\ channel = <<>> /\ completed
    /\ EnumerationEnds("completed")
    /\ UNCHANGED <<native, channel, completed, yielded, dispose, handles, hidden>>

\* The loop breaks, its body throws, or the caller's token is cancelled.
ConsumerAbandons ==
    /\ consumer = "reading"
    /\ EnumerationEnds("abandoned")
    /\ UNCHANGED <<native, channel, completed, yielded, dispose, handles, hidden>>

\* Mutant: the finally block does not close the native stream.
CloseStream_NoSignal ==
    /\ consumer = "close"
    /\ consumer' = "complete"
    /\ UNCHANGED <<native, channel, completed, ended, yielded, dispose, handles, hidden>>

CloseStream ==
    /\ consumer = "close"
    /\ consumer' = "complete"
    /\ stop' = TRUE
    /\ UNCHANGED <<emitted, senderUp, received, pump, inHand, channel, completed, ended,
                   yielded, dispose, handles, hidden>>

CompleteWriter ==
    /\ consumer = "complete"
    /\ consumer' = "untrack"
    /\ completed' = TRUE
    /\ UNCHANGED <<native, channel, ended, yielded, dispose, handles, hidden>>

\* GCHandle is a struct: the copy held here says IsAllocated whatever has
\* become of the copies that DisposeCore took.
Untrack ==
    /\ consumer = "untrack"
    /\ consumer' = "finished"
    /\ tracked' = FALSE
    /\ frees' = frees + 1
    /\ UNCHANGED <<native, channel, completed, ended, yielded, dispose, captured, hidden>>

-----------------------------------------------------------------------------
(* Engine.DisposeCore *)

\* Mutant: dispose leaves the writers of open streams alone.
DisposeBegin_LeavesStreams ==
    /\ dispose = "no"
    /\ dispose' = "destroy"
    /\ captured' = tracked
    /\ tracked' = FALSE
    /\ UNCHANGED <<native, channel, completed, consumer, ended, yielded, frees, hidden>>

DisposeBegin ==
    /\ dispose = "no"
    /\ dispose' = "destroy"
    /\ captured' = tracked
    /\ tracked' = FALSE
    /\ completed' = TRUE
    /\ UNCHANGED <<native, channel, consumer, ended, yielded, frees, hidden>>

\* drasi_engine_destroy drops the engine and with it the broadcast sender.
DisposeDestroy ==
    /\ dispose = "destroy"
    /\ dispose' = "free"
    /\ senderUp' = FALSE
    /\ UNCHANGED <<emitted, received, pump, inHand, stop, channel, completed, consumer,
                   ended, yielded, handles, hidden>>

DisposeFree ==
    /\ dispose = "free"
    /\ dispose' = "done"
    /\ frees' = IF captured THEN frees + 1 ELSE frees
    /\ UNCHANGED <<native, channel, completed, consumer, ended, yielded, tracked, captured,
                   hidden>>

Pump == PumpHistory \/ PumpHistoryDone \/ PumpReceive \/ PumpLagged \/ PumpClosed \/ Callback
Consumer == ConsumerRead \/ ConsumerCompleted \/ CloseStream \/ CompleteWriter \/ Untrack
Dispose == DisposeDestroy \/ DisposeFree

Next == \/ Emit \/ SenderDropped \/ Pump \/ PumpStop
        \/ Consumer \/ ConsumerAbandons
        \/ DisposeBegin \/ Dispose

\* The tokio task, the consumer's loop and a Dispose that has begun keep
\* running; select! picks a ready branch at random, so a stop signal that is
\* ready again and again is taken.  Nobody has to emit, abandon or dispose.
Fairness == /\ WF_vars(Pump) /\ SF_vars(PumpStop)
            /\ WF_vars(Consumer) /\ WF_vars(Dispose)

Spec == Init /\ [][Next]_vars
FairSpec == Spec /\ Fairness

-----------------------------------------------------------------------------
(* Properties *)

\* History first, then live items, each at most once and never out of order.
YieldedInOrder ==
    \A i, j \in 1..Len(yielded) : i < j => yielded[i] < yielded[j]

Yielded == {yielded[i] : i \in 1..Len(yielded)}

\* An item that the loop body skips over was dropped by the full channel: a
\* lagging broadcast receiver, a close or a dispose never leaves a hole.
HolesAreOverflow ==
    \A i \in 1..Len(yielded) : 1..yielded[i] \subseteq Yielded \cup hidden

\* The pump, the callback, the channel and the enumerator together are an
\* enumeration in order of which only a full channel loses items, and none that
\* arrived (pump_broadcast, TryWriteStream, SubscribeJsonAsync).
Reader == INSTANCE LossyFeed
            WITH History <- HistoryLen, dropped <- hidden, over <- (ended # "no")
ReaderSpec == Reader!Spec

\* A pump that has not noticed the end of its stream may call back on a freed
\* handle.  By then nothing is to be written any more: whoever frees the handle,
\* the finally block or DisposeCore, the writer was completed before.
FreedHandleIsSilent == frees > 0 => completed

\* The native task does not outlive its stream: leaving the loop, removing the
\* component or disposing the engine lets it finish.
PumpEnds == (consumer = "finished" \/ ~senderUp) ~> pump = "done"

\* Disposing the engine completes the sequence (website guides/streaming.md).
DisposeCompletesSequence == dispose # "no" ~> consumer = "finished"

\* An emitted item is not lost on the way: a consumer that goes on reading
\* gets it, is told of a lag, or lost it to the full channel.  That holds for
\* the items of a component that is removed while they are on their way.
EmittedIsYielded ==
    \A n \in 1..MaxItems :
        emitted >= n ~> n \in Yielded \cup hidden \/ ended # "no" \/ dispose # "no"

\* guides/streaming.md, Backpressure: a consumer whose buffer overflowed gets
\* StreamLaggedException; it never reads on past an item it lost.
OverflowIsReported ==
    \A i \in 1..Len(yielded) : \A n \in hidden : yielded[i] < n

\* The IsAllocated tests of Untrack and DisposeCore: one GCHandle, one Free.
HandleFreedOnce == frees <= 1
=============================================================================
