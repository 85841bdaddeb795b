------------------------------ MODULE MCTaskWork ------------------------------
(***************************************************************************)
(* Instance of TaskWork: one ticket, two requests of it, two works, two    *)
(* outcome events, and two claims of a row.                                *)
(***************************************************************************)
EXTENDS TaskWork
=============================================================================
