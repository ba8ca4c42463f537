-------------------------- MODULE MCEngineLifecycle --------------------------
(* An instance of EngineLifecycle for TLC: every call the engine offers. *)
EXTENDS EngineLifecycle

MCAllOps == QueryOps \cup EngineOps
=============================================================================
