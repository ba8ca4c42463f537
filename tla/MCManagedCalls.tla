---------------------------- MODULE MCManagedCalls ----------------------------
(* A small instance of ManagedCalls. *)
EXTENDS ManagedCalls, TLC

\* Tasks, threads and slots are interchangeable in every action and property.
CallSymmetry == Permutations(Callers) \cup Permutations(Workers) \cup Permutations(Slots)
===============================================================================
