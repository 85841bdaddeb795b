----------------------------- MODULE MCWriteBack ------------------------------
(***************************************************************************)
(* Instance of WriteBack: two writes of the route, of which one is a note, *)
(* a client write with the payload of the first and one held for approval, *)
(* three requests.                                                         *)
(***************************************************************************)
EXTENDS WriteBack, TLC

CONSTANTS w1, n1, c1, h1

MCPayload == w1 :> 1 @@ n1 :> 2 @@ c1 :> 1 @@ h1 :> 3
MCSymmetry == Permutations(Requests)
=============================================================================
