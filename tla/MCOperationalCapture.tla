------------------------ MODULE MCOperationalCapture ------------------------
(***************************************************************************)
(* Instance of OperationalCapture: one owner, one issue, two certificates  *)
(* (the second declares only a subset of the kinds) and four row ids, so   *)
(* that an issue can be resolved, reopened and resolved again.             *)
(***************************************************************************)
EXTENDS OperationalCapture, TLC

CONSTANTS a1, i1, p1, p2

MCAccountOf == i1 :> a1
MCDeclares == p1 :> Kinds @@ p2 :> {"created", "resolved"}
MCSymmetry == Permutations(Facts)
=============================================================================
