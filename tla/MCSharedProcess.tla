--------------------------- MODULE MCSharedProcess ---------------------------
(***************************************************************************)
(* An instance of SharedProcess: a factory whose loggers enable everything *)
(* and a logger that enables nothing, as NullLogger does.                  *)
(***************************************************************************)
EXTENDS SharedProcess, TLC

CONSTANTS host, null

MCEnabledBy == (host :> Levels) @@ (null :> {})
=============================================================================
