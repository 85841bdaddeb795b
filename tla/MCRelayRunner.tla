---------------------------- MODULE MCRelayRunner -----------------------------
(***************************************************************************)
(* Instance of RelayRunner: the support source with two events in a batch, *)
(* the Runtime source with one, and one restart.                           *)
(***************************************************************************)
EXTENDS RelayRunner

CONSTANTS support, runtime

MCSourceOf == <<support, support, runtime>>
=============================================================================
