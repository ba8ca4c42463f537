------------------------------- MODULE LossyFeed -------------------------------
(***************************************************************************)
(* What the `await foreach' over a stream promises its loop body, whatever *)
(* tasks, channels and handles the items come through.                     *)
(*                                                                         *)
(* Items arrive in the order of emission, each at most once.  A full       *)
(* buffer may drop items that have not arrived: these never arrive, and    *)
(* they are the only ones the loop body goes past.  After its end the      *)
(* sequence has no more items.                                             *)
(***************************************************************************)
EXTENDS Naturals, Sequences

CONSTANT History   \* items handed over with the subscription

VARIABLES emitted,   \* items so far
          yielded,   \* those that arrived, as they arrived
          dropped,   \* those that never will
          over       \* whether the sequence has ended

feed == <<emitted, yielded, dropped, over>>

Init == /\ emitted = History
        /\ yielded = <<>>
        /\ dropped = {}
        /\ over = FALSE

\* Everything up to here has arrived or is lost.
Reached == IF yielded = <<>> THEN 0 ELSE yielded[Len(yielded)]

Emit ==
    /\ emitted' = emitted + 1
    /\ UNCHANGED <<yielded, dropped, over>>

Drop(first, last) ==
    /\ first > Reached /\ last <= emitted
    /\ dropped' = dropped \cup first..last
    /\ UNCHANGED <<emitted, yielded, over>>

Arrive(n) ==
    /\ ~over
    /\ n \notin dropped /\ (Reached + 1)..(n - 1) \subseteq dropped
    /\ yielded' = Append(yielded, n)
    /\ UNCHANGED <<emitted, dropped, over>>

End ==
    /\ ~over
    /\ over' = TRUE
    /\ UNCHANGED <<emitted, yielded, dropped>>

Next == \/ Emit \/ End
        \/ \E first, last \in 1..emitted : Drop(first, last)
        \/ \E n \in (Reached + 1)..emitted : Arrive(n)

Spec == Init /\ [][Next]_feed
================================================================================
