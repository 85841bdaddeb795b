------------------------- MODULE MCOperationalOutbox ------------------------
(***************************************************************************)
(* Instance of OperationalOutbox: one owner, one well-formed issue, one    *)
(* issue whose facts are malformed, two certificates.                      *)
(***************************************************************************)
EXTENDS OperationalOutbox, TLC

CONSTANTS a1, i1, i2, p1, p2

MCAccountOf == [i \in Issues |-> a1]
MCDeclares == [p \in Pins |-> IF p = p2 THEN {"created"} ELSE Kinds]
MCMalformed == Issues \cap {i2}
=============================================================================
