-------------------------- MODULE StreamBridgeProofs --------------------------
(***************************************************************************)
(* Proofs about StreamBridge, for any history, capacities and number of    *)
(* items.                                                                  *)
(***************************************************************************)
EXTENDS StreamBridge, SequenceTheorems, TLAPS

\* The last item that the pump has passed on, or lost.
Passed == IF inHand = None THEN received ELSE inHand.first - 1

WellFormed(m) == m.first <= m.last /\ (m.kind = "item" => m.first = m.last)

\* Messages stand for ranges; the one in hand ends where the receiver stands.
Ranges ==
    /\ HistoryLen <= emitted
    /\ \A j \in 1..Len(channel) : WellFormed(channel[j])
    /\ inHand # None => WellFormed(inHand) /\ inHand.last = received

\* What is on the way is in order, and behind what was yielded.
Sorted ==
    /\ \A i, j \in 1..Len(channel) : i < j => channel[i].last < channel[j].first
    /\ \A i \in 1..Len(yielded), j \in 1..Len(channel) : yielded[i] < channel[j].first
    /\ \A j \in 1..Len(channel) : channel[j].last <= Passed
    /\ \A i \in 1..Len(yielded) : yielded[i] <= Passed

\* The items that are not missed.
Those == Yielded \cup hidden

\* Item n is one of those, or one of the first k messages stands for it.
Covered(n, k, messages, those) ==
    \/ n \in those
    \/ \E i \in 1..k : messages[i].first <= n /\ n <= messages[i].last

\* Nothing is missing before a message, as long as somebody reads it, nor before
\* the next one, as long as the channel takes it.
Whole ==
    consumer = "reading" =>
        /\ \A j \in 1..Len(channel) : \A n \in 1..channel[j].last : Covered(n, j, channel, Those)
        /\ ~completed => \A n \in 1..Passed : Covered(n, Len(channel), channel, Those)

\* The handle is freed by a stream that is over.
Ends ==
    /\ consumer \in {"untrack", "finished"} \/ dispose # "no" => completed
    /\ frees = (IF consumer = "finished" THEN 1 ELSE 0)
             + (IF dispose = "done" /\ captured THEN 1 ELSE 0)

IInv == TypeOK /\ Ranges /\ Sorted /\ YieldedInOrder /\ Whole /\ HolesAreOverflow /\ Ends

LEMMA Initially == Init => IInv
<1> SUFFICES ASSUME Init
             PROVE  IInv
  OBVIOUS
<1> USE StreamAssumption DEF Init
<1>1. TypeOK
  <2>1. emitted \in 0..MaxItems /\ received \in 0..emitted
    OBVIOUS
  <2>2. channel \in Seq(Messages) /\ Len(channel) <= ChannelCap /\ yielded \in Seq(1..MaxItems)
    OBVIOUS
  <2>3. frees \in 0..2 /\ hidden \in SUBSET (1..MaxItems)
    OBVIOUS
  <2> QED
    BY <2>1, <2>2, <2>3 DEF TypeOK
<1>2. Len(channel) = 0 /\ Len(yielded) = 0 /\ inHand = None /\ Passed = 0
  BY DEF Passed
<1>3. Ranges /\ Sorted /\ YieldedInOrder /\ HolesAreOverflow
  BY <1>2 DEF Ranges, Sorted, YieldedInOrder, HolesAreOverflow
<1>4. Whole /\ Ends
  BY <1>2 DEF Whole, Ends
<1> QED
  BY <1>1, <1>3, <1>4 DEF IInv

\* None is no message.
LEMMA NoneIsNoMessage == ASSUME NEW m \in Messages PROVE m # None
BY DEF Messages, None

\* A message stands for items.
LEMMA MessageFields ==
    ASSUME NEW m \in Messages
    PROVE  /\ m.kind \in {"item", "lagged"} /\ m.first \in 1..MaxItems /\ m.last \in 1..MaxItems
           /\ m.first \in Int /\ m.last \in Int
BY StreamAssumption DEF Messages

LEMMA Types ==
    ASSUME TypeOK
    PROVE  /\ \A j \in 1..Len(channel) : channel[j] \in Messages
           /\ \A i \in 1..Len(yielded) : yielded[i] \in 1..MaxItems
           /\ Len(channel) \in Nat /\ Len(yielded) \in Nat
           /\ received \in Nat /\ emitted \in Nat
BY StreamAssumption DEF TypeOK

LEMMA PassedIsInt ==
    ASSUME TypeOK
    PROVE  Passed \in Int
BY Types, MessageFields DEF TypeOK, Passed

\* A step that moves no item.
LEMMA QuietKeeps ==
    ASSUME IInv, UNCHANGED <<received, inHand, channel, yielded, hidden>>,
           HistoryLen <= emitted', completed => completed',
           consumer' = "reading" => consumer = "reading"
    PROVE  Ranges' /\ Sorted' /\ YieldedInOrder' /\ Whole' /\ HolesAreOverflow'
<1> USE DEF IInv
<1>1. Ranges'
  BY DEF Ranges, WellFormed
<1>2. Sorted'
  BY DEF Sorted, Passed
<1>3. YieldedInOrder'
  BY DEF YieldedInOrder
<1>4. Whole'
  BY DEF Whole, Passed, Those, Yielded
<1>5. HolesAreOverflow'
  BY DEF HolesAreOverflow, Yielded
<1> QED
  BY <1>1, <1>2, <1>3, <1>4, <1>5

\* The pump takes the next message.
LEMMA TakesKeeps ==
    ASSUME IInv, inHand = None, NEW m \in Messages, WellFormed(m), m.first = received + 1,
           m.last <= emitted, PumpTakes(m)
    PROVE  IInv'
<1>1. /\ inHand' = m /\ received' = m.last /\ m # None
      /\ UNCHANGED <<emitted, senderUp, pump, stop, channel, completed, consumer, ended,
                     yielded, dispose, tracked, captured, frees, hidden>>
  BY NoneIsNoMessage DEF PumpTakes, handles
<1>2. Passed' = Passed
  BY <1>1, Types DEF Passed, IInv
<1> USE <1>1, <1>2 DEF IInv
<1>3. TypeOK'
  BY StreamAssumption, MessageFields DEF TypeOK
<1>4. Ranges'
  BY DEF Ranges, WellFormed
<1>5. Sorted' /\ YieldedInOrder'
  BY DEF Sorted, YieldedInOrder
<1>6. Whole'
  BY DEF Whole, Those, Yielded
<1>7. HolesAreOverflow' /\ Ends'
  BY DEF HolesAreOverflow, Yielded, Ends
<1> QED
  BY <1>3, <1>4, <1>5, <1>6, <1>7

LEMMA PumpHistoryKeeps == ASSUME IInv, PumpHistory PROVE IInv'
<1>1. /\ inHand = None /\ received + 1 \in 1..MaxItems /\ received + 1 <= emitted
      /\ PumpTakes(Item(received + 1))
  BY StreamAssumption, Types DEF PumpHistory, IInv, TypeOK, Ranges
<1>2. /\ Item(received + 1) \in Messages /\ WellFormed(Item(received + 1))
      /\ Item(received + 1).first = received + 1 /\ Item(received + 1).last = received + 1
  BY <1>1 DEF Item, Messages, WellFormed
<1> QED
  BY <1>1, <1>2, TakesKeeps

LEMMA PumpReceiveKeeps == ASSUME IInv, PumpReceive PROVE IInv'
<1>1. /\ inHand = None /\ received + 1 \in 1..MaxItems /\ received + 1 <= emitted
      /\ PumpTakes(Item(received + 1))
  BY StreamAssumption, Types DEF PumpReceive, IInv, TypeOK, Ranges
<1>2. /\ Item(received + 1) \in Messages /\ WellFormed(Item(received + 1))
      /\ Item(received + 1).first = received + 1 /\ Item(received + 1).last = received + 1
  BY <1>1 DEF Item, Messages, WellFormed
<1> QED
  BY <1>1, <1>2, TakesKeeps

LEMMA PumpLaggedKeeps == ASSUME IInv, PumpLagged PROVE IInv'
<1> DEFINE m == Lagged(received + 1, Oldest - 1)
<1>1. /\ inHand = None /\ received + 1 <= Oldest - 1 /\ Oldest - 1 <= emitted
      /\ received + 1 \in 1..MaxItems /\ Oldest - 1 \in 1..MaxItems /\ PumpTakes(m)
  BY StreamAssumption, Types DEF PumpLagged, IInv, TypeOK, Ranges, Oldest
<1>2. /\ m \in Messages /\ WellFormed(m) /\ m.first = received + 1 /\ m.last = Oldest - 1
  BY <1>1 DEF Lagged, Messages, WellFormed
<1> HIDE DEF m
<1> QED
  BY <1>1, <1>2, TakesKeeps

\* The steps of the pump and of the engine that move no item.
LEMMA NativeKeeps ==
    ASSUME IInv, Emit \/ SenderDropped \/ PumpHistoryDone \/ PumpClosed \/ PumpStop
    PROVE  IInv'
<1>1. /\ UNCHANGED <<received, inHand, stop, channel, completed, consumer, ended, yielded, dispose,
                     tracked, captured, frees, hidden>>
      /\ emitted' \in {emitted, emitted + 1} /\ emitted' <= MaxItems
      /\ senderUp' \in BOOLEAN /\ pump' \in {"history", "live", "done"}
  <2>1. CASE Emit
    <3>1. emitted' = emitted + 1 /\ emitted' <= MaxItems
      BY <2>1, Types, StreamAssumption DEF IInv, TypeOK, Emit
    <3>2. UNCHANGED <<received, inHand, stop, channel, completed, consumer, ended, yielded, dispose,
                      tracked, captured, frees, hidden, senderUp, pump>>
      BY <2>1 DEF Emit, handles
    <3> QED
      BY <3>1, <3>2 DEF IInv, TypeOK
  <2>2. CASE SenderDropped
    <3>1. UNCHANGED <<received, inHand, stop, channel, completed, consumer, ended, yielded, dispose,
                      tracked, captured, frees, hidden, emitted, pump>>
      BY <2>2 DEF SenderDropped, handles
    <3>2. senderUp' \in BOOLEAN
      BY <2>2 DEF SenderDropped
    <3>3. emitted' <= MaxItems
      BY <3>1, StreamAssumption DEF IInv, TypeOK
    <3> QED
      BY <3>1, <3>2, <3>3 DEF IInv, TypeOK
  <2>3. CASE PumpHistoryDone \/ PumpClosed \/ PumpStop
    BY <2>3, Types, StreamAssumption
    DEF IInv, TypeOK, PumpHistoryDone, PumpClosed, PumpStop, PumpBecomes, handles
  <2> QED
    BY <2>1, <2>2, <2>3
<1>2. HistoryLen <= emitted'
  BY <1>1, Types, StreamAssumption DEF IInv, Ranges
<1>3. Ranges' /\ Sorted' /\ YieldedInOrder' /\ Whole' /\ HolesAreOverflow'
  BY <1>1, <1>2, QuietKeeps
<1>4. TypeOK'
  BY <1>1, Types, StreamAssumption DEF IInv, TypeOK
<1>5. Ends'
  BY <1>1 DEF IInv, Ends
<1> QED
  BY <1>3, <1>4, <1>5 DEF IInv

\* The writer of a channel takes a message, drops it, or is complete.
LEMMA CallbackKeeps == ASSUME IInv, Callback PROVE IInv'
<1> DEFINE m == inHand
           L == Len(channel)
<1>1. /\ m \in Messages /\ WellFormed(m) /\ m.last = received /\ m # None /\ inHand' = None
      /\ UNCHANGED <<emitted, senderUp, received, pump, stop, completed, consumer, ended,
                     yielded, dispose, tracked, captured, frees>>
  BY DEF Callback, IInv, TypeOK, Ranges, handles
<1>2. /\ Passed = m.first - 1 /\ Passed' = m.last /\ L \in Nat /\ Passed \in Int
      /\ m.first \in 1..MaxItems /\ m.last \in 1..MaxItems /\ m.first <= m.last
  BY <1>1, Types, MessageFields DEF Passed, IInv, WellFormed
<1>3. Ends'
  BY <1>1 DEF IInv, Ends
<1>4. YieldedInOrder'
  BY <1>1 DEF IInv, YieldedInOrder
<1>5. CASE channel' = Append(channel, m) /\ UNCHANGED hidden /\ L < ChannelCap /\ ~completed
  <2>1. /\ Len(channel') = L + 1 /\ channel'[L + 1] = m /\ channel' \in Seq(Messages)
        /\ \A j \in 1..L : channel'[j] = channel[j]
        /\ \A j \in 1..Len(channel') : j \in 1..L \/ j = L + 1
    BY <1>1, <1>2, <1>5 DEF IInv, TypeOK
  <2> HIDE DEF L
  <2>2. TypeOK'
    <3>1. L + 1 <= ChannelCap
      BY <1>2, <1>5, StreamAssumption
    <3>2. channel' \in Seq(Messages) /\ Len(channel') <= ChannelCap
      BY <2>1, <3>1
    <3>3. inHand' \in Messages \cup {None}
      BY <1>1
    <3>4. UNCHANGED hidden
      BY <1>5
    <3> QED
      BY <1>1, <3>2, <3>3, <3>4 DEF IInv, TypeOK
  <2>3. Ranges'
    <3>1. \A j \in 1..L : WellFormed(channel[j])
      BY DEF IInv, Ranges, L
    <3>2. \A j \in 1..Len(channel') : WellFormed(channel'[j])
      BY <1>1, <2>1, <3>1 DEF WellFormed
    <3> QED
      BY <1>1, <3>2 DEF IInv, Ranges
  <2>4. Sorted'
    <3>1. \A j \in 1..L : channel[j].last < m.first /\ channel[j].last <= m.last
      <4> TAKE j \in 1..L
      <4>1. channel[j].last <= Passed /\ channel[j].last \in Int
        BY Types, MessageFields DEF IInv, Sorted, L
      <4> QED
        BY <1>2, <4>1
    <3>2. \A i \in 1..Len(yielded) : yielded[i] < m.first /\ yielded[i] <= m.last
      <4> TAKE i \in 1..Len(yielded)
      <4>1. yielded[i] <= Passed /\ yielded[i] \in Int
        BY Types DEF IInv, Sorted
      <4> QED
        BY <1>2, <4>1
    <3>3. \A i, j \in 1..Len(channel') : i < j => channel'[i].last < channel'[j].first
      BY <1>2, <2>1, <3>1 DEF IInv, Sorted, L
    <3>4. \A i \in 1..Len(yielded), j \in 1..Len(channel') : yielded[i] < channel'[j].first
      BY <2>1, <3>2 DEF IInv, Sorted, L
    <3>5. \A j \in 1..Len(channel') : channel'[j].last <= Passed'
      BY <1>2, <2>1, <3>1
    <3> QED
      BY <1>1, <1>2, <3>2, <3>3, <3>4, <3>5 DEF Sorted
  <2>5. Whole'
    <3> SUFFICES ASSUME consumer = "reading"
                 PROVE  /\ \A j \in 1..Len(channel') : \A n \in 1..channel'[j].last : Covered(n, j, channel', Those')
                        /\ \A n \in 1..Passed' : Covered(n, Len(channel'), channel', Those')
      BY <1>1 DEF Whole
    <3>1. Those' = Those
      BY <1>1, <1>5 DEF Those, Yielded
    <3>2. \A j \in 1..L : \A n \in 1..channel[j].last : Covered(n, j, channel', Those')
      <4> TAKE j \in 1..L
      <4> TAKE n \in 1..channel[j].last
      <4>1. Covered(n, j, channel, Those)
        BY DEF IInv, Whole, L
      <4>2. \A i \in 1..j : channel'[i] = channel[i]
        BY <1>2, <2>1
      <4> QED
        BY <3>1, <4>1, <4>2 DEF Covered
    <3>3. \A n \in 1..m.last : Covered(n, L + 1, channel', Those')
      <4> SUFFICES ASSUME NEW n \in 1..m.last
                   PROVE  Covered(n, L + 1, channel', Those')
        OBVIOUS
      <4>1. CASE n \in 1..Passed
        <5>1. Covered(n, L, channel, Those)
          BY <1>5, <4>1 DEF IInv, Whole, L
        <5>2. \A i \in 1..L : i \in 1..(L + 1)
          BY <1>2
        <5> QED
          BY <1>5, <2>1, <3>1, <5>1, <5>2 DEF Covered
      <4>2. CASE n \notin 1..Passed
        <5>1. m.first <= n /\ n <= m.last /\ L + 1 \in 1..(L + 1)
          BY <1>2, <4>2
        <5> QED
          BY <2>1, <5>1 DEF Covered
      <4> QED
        BY <4>1, <4>2
    <3> QED
      BY <1>2, <2>1, <3>2, <3>3
  <2>6. HolesAreOverflow'
    BY <1>1, <1>5 DEF IInv, HolesAreOverflow, Yielded
  <2> QED
    BY <1>3, <1>4, <2>2, <2>3, <2>4, <2>5, <2>6 DEF IInv
<1>6. CASE /\ UNCHANGED channel
           /\ \/ hidden' = hidden \cup m.first..m.last
              \/ completed /\ UNCHANGED hidden
  <2>1. hidden \subseteq hidden' /\ hidden' \subseteq hidden \cup 1..MaxItems
    <3>1. CASE hidden' = hidden \cup m.first..m.last
      <4>1. m.first..m.last \subseteq 1..MaxItems
        BY <1>2, StreamAssumption
      <4> QED
        BY <3>1, <4>1
    <3>2. CASE hidden' = hidden
      BY <3>2
    <3> QED
      BY <1>6, <3>1, <3>2
  <2>2. TypeOK'
    BY <1>1, <1>6, <2>1 DEF IInv, TypeOK
  <2>3. Ranges'
    BY <1>1, <1>6 DEF IInv, Ranges, WellFormed
  <2>4. Sorted'
    <3>1. \A j \in 1..Len(channel) : channel[j].last <= m.last
      <4> TAKE j \in 1..Len(channel)
      <4>1. channel[j].last <= Passed /\ channel[j].last \in Int
        BY Types, MessageFields DEF IInv, Sorted
      <4> QED
        BY <1>2, <4>1
    <3>2. \A i \in 1..Len(yielded) : yielded[i] <= m.last
      <4> TAKE i \in 1..Len(yielded)
      <4>1. yielded[i] <= Passed /\ yielded[i] \in Int
        BY Types DEF IInv, Sorted
      <4> QED
        BY <1>2, <4>1
    <3> QED
      BY <1>1, <1>2, <1>6, <3>1, <3>2 DEF IInv, Sorted
  <2>5. Whole'
    <3> SUFFICES ASSUME consumer = "reading"
                 PROVE  /\ \A j \in 1..Len(channel) : \A n \in 1..channel[j].last : Covered(n, j, channel', Those')
                        /\ ~completed => \A n \in 1..Passed' : Covered(n, Len(channel'), channel', Those')
      BY <1>1, <1>6 DEF Whole
    <3>1. Those \subseteq Those' /\ hidden' \subseteq Those'
      BY <1>1, <2>1 DEF Those, Yielded
    <3>2. \A n, k : Covered(n, k, channel, Those) => Covered(n, k, channel', Those')
      BY <1>6, <3>1 DEF Covered
    <3>3. \A n \in 1..Passed' : n \in 1..Passed \/ n \in m.first..m.last
      BY <1>2
    <3>4. ~completed => \A n \in m.first..m.last : Covered(n, Len(channel'), channel', Those')
      BY <1>6, <3>1 DEF Covered
    <3> QED
      BY <1>6, <3>2, <3>3, <3>4 DEF IInv, Whole
  <2>6. HolesAreOverflow'
    BY <1>1, <2>1 DEF IInv, HolesAreOverflow, Yielded
  <2> QED
    BY <1>3, <1>4, <2>2, <2>3, <2>4, <2>5, <2>6 DEF IInv
<1>7. frees # 0 => completed
  BY DEF IInv, Ends
<1> QED
  BY <1>5, <1>6, <1>7 DEF Callback, TryWriteStream

-----------------------------------------------------------------------------
(* The consumer *)

LEMMA ConsumerReadKeeps == ASSUME IInv, ConsumerRead PROVE IInv'
<1> DEFINE m == channel[1]
           L == Len(channel)
           K == Len(yielded)
<1>1. /\ consumer = "reading" /\ channel # <<>> /\ channel' = Tail(channel)
      /\ UNCHANGED <<emitted, senderUp, received, pump, inHand, stop, completed, dispose, tracked,
                     captured, frees, hidden>>
  BY DEF ConsumerRead, native, handles
<1>2. /\ L \in Nat /\ L >= 1 /\ Len(channel') = L - 1 /\ channel' \in Seq(Messages)
      /\ \A j \in 1..(L - 1) : channel'[j] = channel[j + 1] /\ j + 1 \in 1..L
      /\ Head(channel) = m /\ m \in Messages
  BY <1>1 DEF IInv, TypeOK
<1>3. m.first \in 1..MaxItems /\ m.last \in 1..MaxItems /\ WellFormed(m) /\ 1 \in 1..L /\ K \in Nat
  BY <1>2, Types, MessageFields DEF IInv, Ranges
<1>4. Ranges'
  BY <1>1, <1>2 DEF IInv, Ranges, WellFormed
<1>5. CASE m.kind = "lagged" /\ consumer' = "close" /\ ended' = "lagged" /\ UNCHANGED yielded
  <2>1. TypeOK'
    BY <1>1, <1>2, <1>5, StreamAssumption DEF IInv, TypeOK
  <2>2. Sorted'
    <3>1. \A i, j \in 1..(L - 1) : i < j => channel'[i].last < channel'[j].first
      BY <1>2 DEF IInv, Sorted
    <3>2. \A i \in 1..K, j \in 1..(L - 1) : yielded[i] < channel'[j].first
      BY <1>2 DEF IInv, Sorted
    <3> QED
      BY <1>1, <1>2, <1>5, <3>1, <3>2 DEF IInv, Sorted, Passed
  <2>3. YieldedInOrder' /\ HolesAreOverflow'
    BY <1>1, <1>5 DEF IInv, YieldedInOrder, HolesAreOverflow, Yielded
  <2>4. Whole' /\ Ends'
    BY <1>1, <1>5 DEF IInv, Whole, Ends
  <2> QED
    BY <1>4, <2>1, <2>2, <2>3, <2>4 DEF IInv
<1>6. CASE m.kind # "lagged" /\ yielded' = Append(yielded, m.first) /\ UNCHANGED <<consumer, ended>>
  <2>1. m.first = m.last
    BY <1>2, <1>3, <1>6, MessageFields DEF WellFormed
  <2>2. /\ Len(yielded') = K + 1 /\ yielded'[K + 1] = m.first /\ yielded' \in Seq(1..MaxItems)
        /\ \A i \in 1..K : yielded'[i] = yielded[i]
        /\ \A i \in 1..(K + 1) : i \in 1..K \/ i = K + 1
    BY <1>3, <1>6 DEF IInv, TypeOK
  <2>3. Yielded' = Yielded \cup {m.first}
    <3>1. \A x : x \in Yielded' <=> \E i \in 1..(K + 1) : x = yielded'[i]
      BY <2>2 DEF Yielded
    <3>2. \A x : x \in Yielded <=> \E i \in 1..K : x = yielded[i]
      BY DEF Yielded
    <3>3. \A i \in 1..K : i \in 1..(K + 1)
      BY <1>3
    <3>4. K + 1 \in 1..(K + 1)
      BY <1>3
    <3> QED
      BY <2>2, <3>1, <3>2, <3>3, <3>4
  <2>14. Those' = Those \cup {m.first}
    BY <1>1, <2>3 DEF Those
  <2> HIDE DEF L, K, m
  <2>4. TypeOK'
    BY <1>1, <1>2, <1>6, <2>2, StreamAssumption DEF IInv, TypeOK, L
  <2>5. \A i \in 1..K : yielded[i] < m.first
    BY <1>3 DEF IInv, Sorted, L, K, m
  <2>6. \A j \in 1..(L - 1) : m.last < channel'[j].first
    <3> TAKE j \in 1..(L - 1)
    <3>1. j + 1 \in 1..L /\ 1 < j + 1 /\ channel'[j] = channel[j + 1]
      BY <1>2
    <3> QED
      BY <1>3, <3>1 DEF IInv, Sorted, L, m
  <2>7. Sorted'
    <3>1. \A i, j \in 1..(L - 1) : i < j => channel'[i].last < channel'[j].first
      BY <1>2 DEF IInv, Sorted, L
    <3>2. \A i \in 1..K, j \in 1..(L - 1) : yielded[i] < channel'[j].first
      BY <1>2 DEF IInv, Sorted, L, K
    <3>3. m.last <= Passed /\ \A j \in 1..(L - 1) : channel'[j].last <= Passed
      BY <1>2, <1>3 DEF IInv, Sorted, L, m
    <3>4. Passed' = Passed
      BY <1>1 DEF Passed
    <3>5. \A i \in 1..(K + 1), j \in 1..(L - 1) : yielded'[i] < channel'[j].first
      BY <2>1, <2>2, <2>6, <3>2
    <3>6. \A i \in 1..(K + 1) : yielded'[i] <= Passed
      BY <2>1, <2>2, <3>3 DEF IInv, Sorted, K
    <3> QED
      BY <1>2, <2>2, <3>1, <3>3, <3>4, <3>5, <3>6 DEF Sorted
  <2>8. YieldedInOrder'
    BY <1>3, <2>2, <2>5 DEF IInv, YieldedInOrder, K
  <2>9. \A n \in Nat : \A k : k \in 1..L /\ Covered(n, k, channel, Those) =>
          n = m.first \/ Covered(n, k - 1, channel', Those')
    <3> SUFFICES ASSUME NEW n \in Nat, NEW k \in 1..L, Covered(n, k, channel, Those), n # m.first
                 PROVE  Covered(n, k - 1, channel', Those')
      OBVIOUS
    <3>1. CASE n \in Those
      BY <2>14, <3>1 DEF Covered
    <3>2. ASSUME NEW i \in 1..k, channel[i].first <= n, n <= channel[i].last
          PROVE  Covered(n, k - 1, channel', Those')
      <4>1. CASE i = 1
        BY <1>3, <2>1, <3>2, <4>1 DEF m
      <4>2. CASE i # 1
        <5>1. i - 1 \in 1..(k - 1) /\ i - 1 \in 1..(L - 1) /\ (i - 1) + 1 = i
          BY <1>2, <4>2
        <5>2. channel'[i - 1] = channel[i]
          BY <1>2, <5>1
        <5> QED
          BY <3>2, <5>1, <5>2 DEF Covered
      <4> QED
        BY <4>1, <4>2
    <3> QED
      BY <3>1, <3>2 DEF Covered
  <2>10. \A k : Covered(m.first, k, channel', Those')
    BY <2>14 DEF Covered
  <2>11. Whole'
    <3>1. \A j \in 1..(L - 1) : \A n \in 1..channel'[j].last : Covered(n, j, channel', Those')
      <4> TAKE j \in 1..(L - 1)
      <4> TAKE n \in 1..channel'[j].last
      <4>1. j + 1 \in 1..L /\ channel'[j] = channel[j + 1] /\ (j + 1) - 1 = j
        BY <1>2
      <4>2. Covered(n, j + 1, channel, Those)
        BY <1>1, <4>1 DEF IInv, Whole, L
      <4>3. n = m.first \/ Covered(n, (j + 1) - 1, channel', Those')
        BY <4>1, <4>2, <2>9
      <4> QED
        BY <4>1, <4>3, <2>10
    <3>2. ~completed => \A n \in 1..Passed : Covered(n, L - 1, channel', Those')
      <4> SUFFICES ASSUME ~completed, NEW n \in 1..Passed
                   PROVE  Covered(n, L - 1, channel', Those')
        OBVIOUS
      <4>1. Covered(n, L, channel, Those) /\ L \in 1..L
        BY <1>1, <1>2 DEF IInv, Whole, L
      <4> QED
        BY <4>1, <2>9, <2>10
    <3>3. Passed' = Passed
      BY <1>1 DEF Passed
    <3> QED
      BY <1>1, <1>2, <3>1, <3>2, <3>3 DEF Whole
  <2>12. HolesAreOverflow'
    <3>1. 1..m.first \subseteq Yielded' \cup hidden
      <4> SUFFICES ASSUME NEW n \in 1..m.first
                   PROVE  n \in Yielded' \cup hidden
        OBVIOUS
      <4>1. Covered(n, 1, channel, Those)
        BY <1>1, <1>3, <2>1 DEF IInv, Whole, L, m
      <4>2. n = m.first \/ Covered(n, 0, channel', Those')
        BY <1>3, <4>1, <2>9
      <4>3. \A i : i \notin 1..0
        OBVIOUS
      <4> QED
        BY <1>1, <2>14, <4>2, <4>3 DEF Covered, Those
    <3>2. \A i \in 1..K : 1..yielded[i] \subseteq Yielded' \cup hidden
      BY <2>3 DEF IInv, HolesAreOverflow, K
    <3> QED
      BY <1>1, <2>2, <3>1, <3>2 DEF HolesAreOverflow
  <2>13. Ends'
    BY <1>1, <1>6 DEF IInv, Ends
  <2> QED
    BY <1>4, <2>4, <2>7, <2>8, <2>11, <2>12, <2>13 DEF IInv
<1> QED
  BY <1>2, <1>5, <1>6 DEF ConsumerRead, EnumerationEnds

\* The steps of the consumer and of dispose that move no item.
LEMMA EndsKeeps ==
    ASSUME IInv,
           \/ ConsumerCompleted \/ ConsumerAbandons \/ CloseStream \/ CompleteWriter \/ Untrack
           \/ DisposeBegin \/ DisposeDestroy \/ DisposeFree
    PROVE  IInv'
<1> USE DEF native, handles
<1>1. /\ UNCHANGED <<emitted, received, pump, inHand, channel, yielded, hidden>>
      /\ completed => completed'
      /\ consumer' = "reading" => consumer = "reading"
  <2>1. CASE ConsumerCompleted \/ ConsumerAbandons
    BY <2>1 DEF ConsumerCompleted, ConsumerAbandons, EnumerationEnds
  <2>2. CASE CloseStream \/ CompleteWriter \/ Untrack
    BY <2>2 DEF CloseStream, CompleteWriter, Untrack
  <2>3. CASE DisposeBegin \/ DisposeDestroy \/ DisposeFree
    BY <2>3 DEF DisposeBegin, DisposeDestroy, DisposeFree
  <2> QED
    BY <2>1, <2>2, <2>3
<1>2. Ranges' /\ Sorted' /\ YieldedInOrder' /\ Whole' /\ HolesAreOverflow'
  BY <1>1, QuietKeeps DEF IInv, Ranges
<1>3. /\ senderUp' \in BOOLEAN /\ stop' \in BOOLEAN /\ completed' \in BOOLEAN
      /\ consumer' \in {"reading", "close", "complete", "untrack", "finished"}
      /\ ended' \in {"no", "completed", "lagged", "abandoned"}
      /\ dispose' \in {"no", "destroy", "free", "done"}
      /\ tracked' \in BOOLEAN /\ captured' \in BOOLEAN
      /\ Ends'
  <2> USE DEF IInv, TypeOK, Ends
  <2>1. CASE ConsumerCompleted \/ ConsumerAbandons
    BY <2>1 DEF ConsumerCompleted, ConsumerAbandons, EnumerationEnds
  <2>2. CASE CloseStream
    BY <2>2 DEF CloseStream
  <2>3. CASE CompleteWriter
    BY <2>3 DEF CompleteWriter
  <2>4. CASE Untrack
    <3>1. /\ consumer = "untrack" /\ consumer' = "finished" /\ frees' = frees + 1 /\ tracked' = FALSE
          /\ UNCHANGED <<senderUp, stop, completed, ended, dispose, captured>>
      BY <2>4 DEF Untrack
    <3>2. frees = IF dispose = "done" /\ captured THEN 1 ELSE 0
      BY <3>1
    <3>3. frees' = 1 + (IF dispose = "done" /\ captured THEN 1 ELSE 0)
      BY <3>1, <3>2
    <3>4. Ends'
      BY <3>1, <3>3
    <3> QED
      BY <3>1, <3>4
  <2>5. CASE DisposeBegin
    BY <2>5 DEF DisposeBegin
  <2>6. CASE DisposeDestroy
    BY <2>6 DEF DisposeDestroy
  <2>7. CASE DisposeFree
    BY <2>7 DEF DisposeFree
  <2> QED
    BY <2>1, <2>2, <2>3, <2>4, <2>5, <2>6, <2>7
<1>4. frees' \in 0..2
  BY <1>3 DEF Ends
<1>5. TypeOK'
  BY <1>1, <1>3, <1>4 DEF IInv, TypeOK
<1> QED
  BY <1>2, <1>3, <1>5 DEF IInv

-----------------------------------------------------------------------------
(* Every step *)

LEMMA StepKeeps ==
    ASSUME IInv, [Next]_vars
    PROVE  IInv'
<1>1. CASE Pump
  BY <1>1, PumpHistoryKeeps, PumpReceiveKeeps, PumpLaggedKeeps, CallbackKeeps, NativeKeeps DEF Pump
<1>2. CASE Emit \/ SenderDropped \/ PumpStop
  BY <1>2, NativeKeeps
<1>3. CASE Consumer
  BY <1>3, ConsumerReadKeeps, EndsKeeps DEF Consumer
<1>4. CASE ConsumerAbandons \/ DisposeBegin \/ Dispose
  BY <1>4, EndsKeeps DEF Dispose
<1>5. CASE UNCHANGED vars
  <2>1. UNCHANGED <<emitted, senderUp, received, pump, inHand, stop, channel, completed,
                    consumer, ended, yielded, dispose, tracked, captured, frees, hidden>>
    BY <1>5 DEF vars
  <2>2. Ranges' /\ Sorted' /\ YieldedInOrder' /\ Whole' /\ HolesAreOverflow'
    BY <2>1, QuietKeeps DEF IInv, Ranges
  <2>3. TypeOK' /\ Ends'
    BY <2>1 DEF IInv, TypeOK, Ends
  <2> QED
    BY <2>2, <2>3 DEF IInv
<1> QED
  BY <1>1, <1>2, <1>3, <1>4, <1>5 DEF Next

LEMMA Invariant == Spec => []IInv
<1>1. IInv /\ [Next]_vars => IInv'
  BY StepKeeps
<1> QED
  BY Initially, <1>1, PTL DEF Spec

-----------------------------------------------------------------------------
(* The refinement                                                            *)

\* A message on the way stands for no item that was dropped, and only an
\* enumeration that has not ended reads.
Apart ==
    /\ \A n \in hidden : n <= Passed
    /\ \A j \in 1..Len(channel) : \A n \in hidden : n < channel[j].first \/ channel[j].last < n
    /\ consumer = "reading" <=> ended = "no"

LEMMA BeginsApart == Init => Apart
<1> SUFFICES ASSUME Init
             PROVE  Apart
  OBVIOUS
<1>1. Len(channel) = 0 /\ hidden = {}
  BY DEF Init
<1> QED
  BY <1>1 DEF Init, Apart

\* What the pump takes is still to be passed on.
LEMMA TakesPassNothing ==
    ASSUME IInv, PumpHistory \/ PumpReceive \/ PumpLagged
    PROVE  Passed' = Passed /\ UNCHANGED <<channel, hidden, consumer, ended>>
<1>1. /\ inHand = None /\ received \in Nat
      /\ \E m : inHand' = m /\ m # None /\ m.first = received + 1
      /\ UNCHANGED <<channel, hidden, consumer, ended>>
  <2>1. CASE PumpHistory \/ PumpReceive
    <3>1. Item(received + 1) # None /\ Item(received + 1).first = received + 1
      BY DEF Item, None
    <3> QED
      BY <2>1, <3>1, Types DEF PumpHistory, PumpReceive, PumpTakes, IInv
  <2>2. CASE PumpLagged
    <3>1. /\ Lagged(received + 1, Oldest - 1) # None
          /\ Lagged(received + 1, Oldest - 1).first = received + 1
      BY DEF Lagged, None
    <3> QED
      BY <2>2, <3>1, Types DEF PumpLagged, PumpTakes, IInv
  <2> QED
    BY <2>1, <2>2
<1> QED
  BY <1>1 DEF Passed

\* A message that is passed on lies behind everything that was dropped before.
LEMMA CallbackKeepsApart == ASSUME IInv, Apart, Callback PROVE Apart'
<1> DEFINE m == inHand
           L == Len(channel)
<1>1. /\ m \in Messages /\ WellFormed(m) /\ m.last = received /\ m # None /\ inHand' = None
      /\ UNCHANGED <<received, consumer, ended>>
  BY DEF Callback, IInv, TypeOK, Ranges
<1>2. /\ Passed = m.first - 1 /\ Passed' = m.last /\ L \in Nat
      /\ m.first \in Int /\ m.last \in Int /\ m.first <= m.last
  BY <1>1, Types, MessageFields DEF Passed, IInv, WellFormed
<1>3. \A n \in hidden : n \in Int /\ n < m.first /\ n <= m.last
  <2> TAKE n \in hidden
  <2>1. n \in Int /\ n <= Passed
    BY StreamAssumption DEF IInv, TypeOK, Apart
  <2> QED
    BY <1>2, <2>1
<1>4. CASE channel' = Append(channel, m) /\ UNCHANGED hidden
  <2>1. /\ Len(channel') = L + 1 /\ channel'[L + 1] = m
        /\ \A j \in 1..L : channel'[j] = channel[j]
        /\ \A j \in 1..Len(channel') : j \in 1..L \/ j = L + 1
    BY <1>1, <1>2, <1>4 DEF IInv, TypeOK
  <2> QED
    BY <1>1, <1>2, <1>3, <1>4, <2>1 DEF Apart
<1>5. CASE UNCHANGED channel /\ hidden' = hidden \cup m.first..m.last
  <2>1. ASSUME NEW j \in 1..L, NEW n \in m.first..m.last
        PROVE  channel[j].last < n
    <3>1. channel[j].last <= Passed /\ channel[j].last \in Int
      BY Types, MessageFields DEF IInv, Sorted
    <3> QED
      BY <1>2, <3>1
  <2> QED
    BY <1>1, <1>2, <1>3, <1>5, <2>1 DEF Apart
<1>6. CASE UNCHANGED <<channel, hidden>>
  BY <1>1, <1>2, <1>3, <1>6 DEF Apart
<1> QED
  BY <1>4, <1>5, <1>6 DEF Callback, TryWriteStream

LEMMA ReadKeepsApart == ASSUME IInv, Apart, ConsumerRead PROVE Apart'
<1>1. /\ channel # <<>> /\ channel' = Tail(channel) /\ consumer = "reading"
      /\ UNCHANGED <<received, inHand, hidden>>
  BY DEF ConsumerRead, native
<1>2. /\ Len(channel') = Len(channel) - 1 /\ Len(channel) \in Nat
      /\ \A j \in 1..Len(channel') : channel'[j] = channel[j + 1] /\ j + 1 \in 1..Len(channel)
  BY <1>1 DEF IInv, TypeOK
<1>3. consumer' = "reading" <=> ended' = "no"
  BY DEF ConsumerRead, EnumerationEnds, Apart
<1> QED
  BY <1>1, <1>2, <1>3 DEF Apart, Passed

LEMMA StepKeepsApart == ASSUME IInv, Apart, [Next]_vars PROVE Apart'
<1>1. CASE PumpHistory \/ PumpReceive \/ PumpLagged
  BY <1>1, TakesPassNothing DEF Apart
<1>2. CASE Callback
  BY <1>2, CallbackKeepsApart
<1>3. CASE ConsumerRead
  BY <1>3, ReadKeepsApart
<1>4. CASE ConsumerCompleted \/ ConsumerAbandons
  BY <1>4 DEF ConsumerCompleted, ConsumerAbandons, EnumerationEnds, native, Apart, Passed
<1>5. CASE \/ Emit \/ SenderDropped \/ PumpHistoryDone \/ PumpClosed \/ PumpStop
           \/ CloseStream \/ CompleteWriter \/ Untrack
           \/ DisposeBegin \/ DisposeDestroy \/ DisposeFree \/ UNCHANGED vars
  <2>1. UNCHANGED <<received, inHand, channel, hidden, ended>>
    BY <1>5 DEF Emit, SenderDropped, PumpHistoryDone, PumpClosed, PumpStop, PumpBecomes,
                CloseStream, CompleteWriter, Untrack, DisposeBegin, DisposeDestroy, DisposeFree,
                native, vars
  <2>2. consumer' = "reading" <=> consumer = "reading"
    BY <1>5 DEF Emit, SenderDropped, PumpHistoryDone, PumpClosed, PumpStop, PumpBecomes,
                CloseStream, CompleteWriter, Untrack, DisposeBegin, DisposeDestroy, DisposeFree,
                vars
  <2> QED
    BY <2>1, <2>2 DEF Apart, Passed
<1> QED
  BY <1>1, <1>2, <1>3, <1>4, <1>5 DEF Next, Pump, Consumer, Dispose

\* Whatever was yielded, nothing beyond the last of it was.
LEMMA ReachedIsLast ==
    ASSUME IInv
    PROVE  /\ Reader!Reached \in Nat
           /\ \A i \in 1..Len(yielded) : yielded[i] <= Reader!Reached
           /\ Reader!Reached > 0 => \E i \in 1..Len(yielded) : yielded[i] = Reader!Reached
<1>1. CASE yielded = <<>>
  <2>1. Len(yielded) = 0 /\ Reader!Reached = 0
    BY <1>1 DEF Reader!Reached
  <2> QED
    BY <2>1
<1>2. CASE yielded # <<>>
  <2> DEFINE K == Len(yielded)
  <2>1. K \in 1..K /\ Reader!Reached = yielded[K] /\ yielded[K] \in Nat
    BY <1>2, StreamAssumption DEF Reader!Reached, IInv, TypeOK
  <2>2. ASSUME NEW i \in 1..K
        PROVE  yielded[i] <= yielded[K]
    <3>1. CASE i = K
      BY <2>1, <3>1
    <3>2. CASE i # K
      <4>1. i < K
        BY <3>2
      <4>2. yielded[i] < yielded[K] /\ yielded[i] \in Int
        BY <2>1, <4>1, Types DEF IInv, YieldedInOrder
      <4> QED
        BY <2>1, <4>2
    <3> QED
      BY <3>1, <3>2
  <2> QED
    BY <2>1, <2>2
<1> QED
  BY <1>1, <1>2

LEMMA ReadArrives ==
    ASSUME IInv, IInv', Apart, ConsumerRead, UNCHANGED ended
    PROVE  \E n \in (Reader!Reached + 1)..emitted : Reader!Arrive(n)
<1> DEFINE m == channel[1]
           n == m.first
           K == Len(yielded)
<1>1. /\ consumer = "reading" /\ ended = "no" /\ Head(channel) = m /\ m \in Messages
      /\ 1 \in 1..Len(channel) /\ UNCHANGED <<emitted, hidden>>
  BY DEF ConsumerRead, Apart, IInv, TypeOK, native
<1>2. m.kind # "lagged" /\ yielded' = Append(yielded, n)
  BY <1>1 DEF ConsumerRead, EnumerationEnds
<1>3. n \in Nat /\ m.last = n
  BY <1>1, <1>2, MessageFields DEF IInv, Ranges, WellFormed
<1> HIDE DEF m, n
<1>4. n <= emitted
  <2>1. n <= Passed /\ Passed \in Int
    BY <1>1, <1>3, PassedIsInt DEF IInv, Sorted, m
  <2>2. Passed <= received
    <3>1. CASE inHand = None
      BY <3>1, Types DEF Passed, IInv
    <3>2. CASE inHand # None
      <4>1. inHand \in Messages /\ inHand.first <= received
        BY <3>2 DEF IInv, TypeOK, Ranges, WellFormed
      <4> QED
        BY <3>2, <4>1, MessageFields, Types DEF Passed, IInv
    <3> QED
      BY <3>1, <3>2
  <2>3. received <= emitted /\ received \in Int /\ emitted \in Int
    BY Types DEF IInv, TypeOK
  <2> QED
    BY <1>3, <2>1, <2>2, <2>3
<1>5. Reader!Reached \in Nat /\ Reader!Reached < n
  <2>1. \A i \in 1..K : yielded[i] < n
    BY <1>1 DEF IInv, Sorted, m, n
  <2>2. Reader!Reached = 0 => Reader!Reached < n
    BY <1>1, MessageFields DEF m, n
  <2> QED
    BY <1>3, <2>1, <2>2, ReachedIsLast
<1>6. n \notin hidden
  <2> SUFFICES ASSUME n \in hidden
               PROVE  FALSE
    OBVIOUS
  <2>1. n < m.first \/ m.last < n
    BY <1>1 DEF Apart, m
  <2> QED
    BY <1>3, <2>1 DEF n
<1>7. ASSUME NEW k \in (Reader!Reached + 1)..(n - 1)
      PROVE  k \in hidden
  <2>1. /\ Len(yielded') = K + 1 /\ yielded'[K + 1] = n
        /\ \A i \in 1..K : yielded'[i] = yielded[i]
        /\ \A i \in 1..(K + 1) : i \in 1..K \/ i = K + 1
    BY <1>2 DEF IInv, TypeOK
  <2>2. 1..n \subseteq Yielded' \cup hidden
    <3>1. K + 1 \in 1..Len(yielded')
      BY <2>1, Types DEF IInv
    <3> QED
      BY <1>1, <2>1, <3>1 DEF IInv, HolesAreOverflow
  <2>3. k \in 1..n /\ k # n /\ k > Reader!Reached
    BY <1>3, <1>5
  <2>4. k \notin Yielded'
    <3> SUFFICES ASSUME NEW i \in 1..Len(yielded'), yielded'[i] = k
                 PROVE  FALSE
      BY DEF Yielded
    <3>1. i \in 1..K /\ yielded[i] = k
      BY <2>1, <2>3
    <3>2. k <= Reader!Reached
      BY <3>1, ReachedIsLast
    <3> QED
      BY <1>5, <2>3, <3>2
  <2> QED
    BY <2>2, <2>3, <2>4
<1>8. n \in (Reader!Reached + 1)..emitted
  BY <1>3, <1>4, <1>5, Types DEF IInv
<1>9. Reader!Arrive(n)
  BY <1>1, <1>2, <1>6, <1>7 DEF Reader!Arrive
<1> QED
  BY <1>8, <1>9

LEMMA CallbackDrops ==
    ASSUME IInv, Callback, hidden' # hidden
    PROVE  \E first, last \in 1..emitted : Reader!Drop(first, last)
<1> DEFINE m == inHand
<1>1. /\ m \in Messages /\ WellFormed(m) /\ m.last = received /\ m # None
      /\ UNCHANGED <<emitted, yielded, ended>> /\ hidden' = hidden \cup m.first..m.last
  BY DEF Callback, TryWriteStream, IInv, TypeOK, Ranges
<1>2. /\ m.first \in 1..emitted /\ m.last \in 1..emitted
      /\ m.first \in Nat /\ Passed = m.first - 1
  <2>1. m.first \in 1..MaxItems /\ m.last \in 1..MaxItems /\ m.first <= m.last /\ m.last <= emitted
    BY <1>1, MessageFields DEF IInv, TypeOK, WellFormed
  <2> QED
    BY <1>1, <2>1, Types, StreamAssumption DEF Passed, IInv
<1>3. m.first > Reader!Reached
  <2>1. \A i \in 1..Len(yielded) : yielded[i] <= m.first - 1
    BY <1>2 DEF IInv, Sorted
  <2>2. Reader!Reached = 0 => m.first > Reader!Reached
    BY <1>2
  <2> HIDE DEF m
  <2> QED
    BY <1>2, <2>1, <2>2, ReachedIsLast
<1>4. m.last <= emitted
  BY <1>2, Types DEF IInv
<1>5. Reader!Drop(m.first, m.last)
  BY <1>1, <1>3, <1>4 DEF Reader!Drop
<1> QED
  BY <1>2, <1>5

\* A step of the stream is one of the enumeration, or none.
LEMMA ReaderStep ==
    ASSUME IInv, IInv', Apart, [Next]_vars
    PROVE  [Reader!Next]_(Reader!feed)
<1>1. CASE Emit
  BY <1>1 DEF Emit, Reader!Emit, Reader!Next
<1>2. CASE Callback
  <2>1. UNCHANGED <<emitted, yielded, ended>>
    BY <1>2 DEF Callback
  <2>2. CASE hidden' = hidden
    BY <2>1, <2>2 DEF Reader!feed
  <2>3. CASE hidden' # hidden
    BY <1>2, <2>3, CallbackDrops DEF Reader!Next
  <2> QED
    BY <2>2, <2>3
<1>3. CASE ConsumerRead
  <2>1. CASE ended' = ended
    BY <1>3, <2>1, ReadArrives DEF Reader!Next
  <2>2. CASE ended' # ended
    <3>1. ended = "no" /\ ended' # "no" /\ UNCHANGED <<emitted, yielded, hidden>>
      BY <1>3, <2>2 DEF ConsumerRead, EnumerationEnds, Apart, native
    <3> QED
      BY <3>1 DEF Reader!End, Reader!Next
  <2> QED
    BY <2>1, <2>2
<1>4. CASE ConsumerCompleted \/ ConsumerAbandons
  <2>1. ended = "no" /\ ended' # "no" /\ UNCHANGED <<emitted, yielded, hidden>>
    BY <1>4 DEF ConsumerCompleted, ConsumerAbandons, EnumerationEnds, Apart, native
  <2> QED
    BY <2>1 DEF Reader!End, Reader!Next
<1>5. CASE \/ PumpHistory \/ PumpReceive \/ PumpLagged
           \/ SenderDropped \/ PumpHistoryDone \/ PumpClosed \/ PumpStop
           \/ CloseStream \/ CompleteWriter \/ Untrack
           \/ DisposeBegin \/ DisposeDestroy \/ DisposeFree \/ UNCHANGED vars
  <2>1. UNCHANGED <<emitted, yielded, hidden, ended>>
    BY <1>5 DEF PumpHistory, PumpReceive, PumpLagged, PumpTakes, SenderDropped, PumpHistoryDone,
                PumpClosed, PumpStop, PumpBecomes, CloseStream, CompleteWriter, Untrack,
                DisposeBegin, DisposeDestroy, DisposeFree, native, vars
  <2> QED
    BY <2>1 DEF Reader!feed
<1> QED
  BY <1>1, <1>2, <1>3, <1>4, <1>5 DEF Next, Pump, Consumer, Dispose

LEMMA ReaderBegins == Init => Reader!Init
BY DEF Init, Reader!Init

-----------------------------------------------------------------------------
(* Theorems *)

\* Type correctness of the stream (streams.rs, SubscribeJsonAsync, DisposeCore).
THEOREM TypeCorrect == Spec => []TypeOK
<1>1. IInv => TypeOK
  BY DEF IInv
<1> QED
  BY Invariant, <1>1, PTL

\* The loop body sees each item at most once and in the order of emission, with
\* the history before the live items (pump of streams.rs, TryWriteStream).
THEOREM InOrder == Spec => []YieldedInOrder
<1>1. IInv => YieldedInOrder
  BY DEF IInv
<1> QED
  BY Invariant, <1>1, PTL

\* The loop body goes past a missing item only if the full channel dropped it
\* (pump of streams.rs, TryWriteStream, DisposeCore).
THEOREM HolesComeFromOverflow == Spec => []HolesAreOverflow
<1>1. IInv => HolesAreOverflow
  BY DEF IInv
<1> QED
  BY Invariant, <1>1, PTL

\* The handle is freed only when the writer is complete, so that a callback that
\* comes later had nothing to deliver (CloseStream, DisposeCore).
THEOREM SilentWhenFreed == Spec => []FreedHandleIsSilent
<1>1. IInv => FreedHandleIsSilent
  BY DEF IInv, Ends, FreedHandleIsSilent
<1> QED
  BY Invariant, <1>1, PTL

\* Pump, callback, channel and enumerator implement the enumeration: whatever the
\* history, the capacities and the moment of a close, a removal or a dispose
\* (streams.rs, TryWriteStream, SubscribeJsonAsync against LossyFeed).
THEOREM ImplementsReader == Spec => ReaderSpec
<1>1. IInv /\ Apart /\ [Next]_vars => Apart'
  BY StepKeepsApart
<1>2. IInv /\ IInv' /\ Apart /\ [Next]_vars => [Reader!Next]_(Reader!feed)
  BY ReaderStep
<1> QED
  BY Invariant, BeginsApart, ReaderBegins, <1>1, <1>2, PTL DEF Spec, ReaderSpec, Reader!Spec
=============================================================================
