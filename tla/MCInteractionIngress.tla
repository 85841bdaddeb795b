------------------------ MODULE MCInteractionIngress ------------------------
(* InteractionIngress for TLC: every constant is a set of model values or a number. *)
EXTENDS InteractionIngress
=============================================================================
