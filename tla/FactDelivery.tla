---------------------------- MODULE FactDelivery ----------------------------
(***************************************************************************)
(* What the durable outbox promises about each operational fact, with no   *)
(* leases, workers, messages or clocks: a fact is recorded once, as owed   *)
(* to Runtime or as held; only an owed fact ever reaches Runtime; it is    *)
(* acknowledged only after it has reached Runtime; and held, acknowledged  *)
(* and quarantined are final.                                              *)
(***************************************************************************)
CONSTANT Facts

VARIABLES
  outcome,    \* outcome[f]: what the native database says of the fact
  received    \* the facts Runtime has recorded

deliveryVars == <<outcome, received>>

Outcomes == {"absent", "held", "owed", "acknowledged", "quarantined"}

DeliveryInit ==
  /\ outcome = [f \in Facts |-> "absent"]
  /\ received = {}

\* One native transaction records any number of facts.
Record(new) ==
  /\ \A f \in new : outcome[f] = "absent"
  /\ \E held \in SUBSET new :
       outcome' = [f \in Facts |-> IF f \in held THEN "held"
                                   ELSE IF f \in new THEN "owed" ELSE outcome[f]]
  /\ UNCHANGED received

\* A late request can still arrive after the fact was acknowledged or quarantined.
Reach(f) ==
  /\ outcome[f] \in {"owed", "acknowledged", "quarantined"}
  /\ received' = received \cup {f}
  /\ UNCHANGED outcome

Acknowledge(f) ==
  /\ outcome[f] = "owed" /\ f \in received
  /\ outcome' = [outcome EXCEPT ![f] = "acknowledged"]
  /\ UNCHANGED received

GiveUp(f) ==
  /\ outcome[f] = "owed"
  /\ outcome' = [outcome EXCEPT ![f] = "quarantined"]
  /\ UNCHANGED received

DeliveryNext ==
  \/ \E new \in SUBSET Facts : Record(new)
  \/ \E f \in Facts : Reach(f) \/ Acknowledge(f) \/ GiveUp(f)

DeliverySpec == DeliveryInit /\ [][DeliveryNext]_deliveryVars
=============================================================================
