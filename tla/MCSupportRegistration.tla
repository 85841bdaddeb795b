------------------------ MODULE MCSupportRegistration -----------------------
(***************************************************************************)
(* Instance of SupportRegistration: one installation, two lease owners, so *)
(* that a claim follows one whose tries are still running, and two tries   *)
(* per claim.                                                              *)
(***************************************************************************)
EXTENDS SupportRegistration
=============================================================================
