----------------------------- MODULE MCPluginHost -----------------------------
(* Small instances of PluginHost: all artifacts are builds of one kind. *)
EXTENDS PluginHost, TLC

CONSTANT kind

OneKind == [a \in Artifacts |-> kind]

\* Callers and watchers are interchangeable in every action and property.
TaskSymmetry == Permutations(Callers) \cup Permutations(Watchers)
===============================================================================
