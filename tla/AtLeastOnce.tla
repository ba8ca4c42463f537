----------------------------- MODULE AtLeastOnce -----------------------------
(***************************************************************************)
(* What a durable reaction promises its callback, over any number of       *)
(* processes, failures and starts, and whatever keeps its place.           *)
(*                                                                         *)
(* The callback is to see the results of a query in their order.  A mark   *)
(* in a store says how far it is done; it only goes past what the callback *)
(* has seen, and only forward.  What may be passed over is what there was  *)
(* before the first mark, and for a lenient reaction what the query no     *)
(* longer keeps.  All of this holds as long as the mark can be read: when  *)
(* it could not once, any place may be the next.                           *)
(***************************************************************************)
EXTENDS Naturals

CONSTANT Kept    \* results a query keeps for those behind

VARIABLES emitted,   \* results so far
          mark,      \* how far the callback is done, 0 while that is unknown
          seen,      \* results the callback has seen
          excused,   \* results it need not see
          lenient,   \* whether a gap may be passed over
          amnesia    \* whether the mark could not be read once

promise == <<emitted, mark, seen, excused, lenient, amnesia>>

Init == /\ emitted = 0 /\ mark = 0
        /\ seen = {} /\ excused = {}
        /\ lenient = FALSE /\ amnesia = FALSE

Settled(n) == 1..n \subseteq seen \cup excused

Emit ==
    /\ emitted' = emitted + 1
    /\ UNCHANGED <<mark, seen, excused, lenient, amnesia>>

\* Everything before n has its turn before n.
See(n) ==
    /\ n > mark \/ amnesia
    /\ Settled(n - 1)
    /\ seen' = seen \cup {n}
    /\ UNCHANGED <<emitted, mark, excused, lenient, amnesia>>

Mark(n) ==
    /\ n > mark \/ amnesia
    /\ n \in seen /\ Settled(n)
    /\ mark' = n
    /\ UNCHANGED <<emitted, seen, excused, lenient, amnesia>>

\* The result after the mark is gone.
Gap == mark + 1 + Kept <= emitted

PassOver(last) ==
    /\ mark = 0 \/ (lenient /\ Gap)
    /\ excused' = excused \cup (mark + 1)..last
    /\ UNCHANGED <<emitted, mark, seen, lenient, amnesia>>

Forget(last) ==
    /\ mark # 0
    /\ amnesia' = TRUE
    /\ excused' = excused \cup 1..last
    /\ UNCHANGED <<emitted, mark, seen, lenient>>

Choose ==
    /\ lenient' \in BOOLEAN
    /\ UNCHANGED <<emitted, mark, seen, excused, amnesia>>

Next == \/ Emit \/ Choose
        \/ \E n \in 1..emitted : See(n) \/ Mark(n)
        \/ \E last \in 0..emitted : PassOver(last) \/ Forget(last)

Spec == Init /\ [][Next]_promise
==============================================================================
