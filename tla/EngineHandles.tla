---------------------------- MODULE EngineHandles ----------------------------
(***************************************************************************)
(* The engine handles of a process and how far each has come: what create  *)
(* and shutdown of native/src/engine.rs do to a handle as a whole.         *)
(***************************************************************************)
CONSTANT Engines    \* handles; the place of a freed one is used again
VARIABLE life       \* [Engines -> how far the handle has come]

Lives == {"none", "creating", "open", "stopping", "releasing", "closed"}

LifeInit == life = [e \in Engines |-> "none"]
LifeGoesTo(e, place) == life' = [life EXCEPT ![e] = place]
=============================================================================
