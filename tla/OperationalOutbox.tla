------------------------- MODULE OperationalOutbox --------------------------
(***************************************************************************)
(* Delivery of captured operational facts to Runtime: the SQL functions    *)
(* claim_operational_outbox and finish_operational_outbox, the batch       *)
(* worker drainOperationalOutbox, the authority checks it makes before it  *)
(* sends, and the Runtime intake as the worker uses it.                    *)
(*                                                                         *)
(* Each claim of a row raises its generation and gives it a fresh token,   *)
(* so a delivery attempt is named by the row and the generation it claimed *)
(* (f, g); owner, generation and token of the lease are that pair.         *)
(* Attempts of different generations of one row run side by side when a    *)
(* lease runs out under a stalled worker.  Time is abstracted: a live      *)
(* lease may expire, an attempt may hit its deadline, a backoff passes.    *)
(* attempt_count always equals the generation.                             *)
(***************************************************************************)
EXTENDS OperationalCapture

CONSTANTS
  Malformed,    \* issues whose facts fail validateDeclaredEvent (no external reference)
  Limit,        \* rows per claim (claim_limit)
  PerAccount,   \* rows per account and claim
  MaxGen,       \* bound on the claims of one row
  MaxFaults     \* bound on timeouts, crashes, refusals and other faults

ASSUME OutboxAssumption ==
  /\ Malformed \subseteq Issues
  /\ Limit \in Nat \ {0} /\ PerAccount \in Nat \ {0}
  /\ MaxGen \in Nat \ {0} /\ MaxFaults \in Nat

Gens == 1 .. MaxGen

VARIABLES
  att,        \* att[f][g]: the attempt that claimed generation g of row f
  wire,       \* requests to the Runtime intake not handled yet
  accepted,   \* the facts Runtime's intake has recorded (external)
  faults      \* faults so far, at most MaxFaults

deliveryOnly == <<att, wire, accepted, faults>>
vars == <<captureVars, deliveryOnly>>

\* Where an attempt stands between two awaits of drainOperationalOutbox.
Phases == {"idle", "claimed", "observed", "confirmed", "admitted", "cleared",
           "posted", "replied", "acking", "failing", "done"}
Waiting == {"claimed", "observed", "confirmed", "admitted", "cleared", "posted", "replied"}
PastRecheck == {"cleared", "posted", "replied", "acking"}

\* Answers of the intake: 202 and 200 with this fact's receipt, a body that is not this
\* fact's receipt, a status to retry (403, 413, 5xx), a status to quarantine (400, 409).
Receipts == {"accepted", "duplicate"}
Refusals == {"foreign", "retry", "quarantine"}

NoAttempt == [pc |-> "idle", obs |-> NoPin, out |-> "none"]
Attempt == [pc : Phases, obs : Pins \cup {NoPin}, out : {"none"} \cup Receipts \cup Refusals]

TypeOK ==
  /\ CaptureTypeOK
  /\ att \in [Facts -> [Gens -> Attempt]]
  /\ wire \subseteq Facts \X Gens
  /\ accepted \subseteq Facts
  /\ faults \in 0 .. MaxFaults

Init ==
  /\ CaptureInit
  /\ att = [f \in Facts |-> [g \in Gens |-> NoAttempt]]
  /\ wire = {}
  /\ accepted = {}
  /\ faults = 0

Fault == faults < MaxFaults /\ faults' = faults + 1

Become(f, g, pc, obs, out) ==
  att' = [att EXCEPT ![f][g] = [pc |-> pc, obs |-> obs, out |-> out]]
Goto(f, g, pc) == Become(f, g, pc, att[f][g].obs, att[f][g].out)
Fail(f, g, code) == Become(f, g, "failing", NoPin, code)
Stop(f, g) == Become(f, g, "done", NoPin, "none")

Owner(f) == AccountOf[row[f].issue]

\* currentLocalSource: the exact tuple is ready, active and not observed revoked.
LocalCurrent(f) == source[Owner(f)] = "ready"

-----------------------------------------------------------------------------
(* Claim.                                                                  *)

\* Mutant: a row whose lease ran out is not taken over (lease_expires_at IS NULL only).
ClaimableNeverLeased(f) ==
  /\ row[f].state = "pending" /\ row[f].due
  /\ row[f].lease = "none"
  /\ row[f].gen < MaxGen

\* Mutant: every row that is due and not leased, held ones too.
ClaimableByDue(f) ==
  /\ row[f].state # "absent" /\ row[f].due
  /\ row[f].lease # "live"
  /\ row[f].gen < MaxGen

\* Pending, due, and not under a live lease.
Claimable(f) ==
  /\ row[f].state = "pending" /\ row[f].due
  /\ row[f].lease # "live"
  /\ row[f].gen < MaxGen

\* claim_operational_outbox: SKIP LOCKED makes any set of claimable rows within the
\* limits a possible batch; a due row stays due while it is leased.
Claim(batch) ==
  /\ batch # {} /\ Cardinality(batch) <= Limit
  /\ \A f \in batch : Claimable(f)
  /\ \A a \in Accounts : Cardinality({f \in batch : Owner(f) = a}) <= PerAccount
  /\ row' = [f \in Facts |-> IF f \in batch
                             THEN [row[f] EXCEPT !.gen = @ + 1, !.lease = "live"] ELSE row[f]]
  /\ att' = [f \in Facts |-> IF f \in batch
                             THEN [att[f] EXCEPT ![row[f].gen + 1].pc = "claimed"] ELSE att[f]]
  /\ UNCHANGED <<issue, source, registry, seen, qual, moves, wire, accepted, faults>>

-----------------------------------------------------------------------------
(* verifyOutboxSource: two observations of the certificate between local   *)
(* checks, then the whole pin and the declared event.                      *)

Observe(f, g) ==
  /\ att[f][g].pc = "claimed"
  /\ IF LocalCurrent(f) /\ registry[Owner(f)] # NoPin
     THEN Become(f, g, "observed", registry[Owner(f)], "none")
     ELSE Fail(f, g, "retry")
  /\ UNCHANGED <<captureVars, wire, accepted, faults>>

\* A second observation that differs from the first is a provenance conflict (409).
ObserveAgain(f, g) ==
  /\ att[f][g].pc = "observed"
  /\ IF LocalCurrent(f) /\ registry[Owner(f)] # NoPin
     THEN IF registry[Owner(f)] = att[f][g].obs THEN Goto(f, g, "confirmed")
          ELSE Fail(f, g, "quarantine")
     ELSE Fail(f, g, "retry")
  /\ UNCHANGED <<captureVars, wire, accepted, faults>>

\* Mutant: the observed pin is not compared with the captured one.
AdmitAnyPin(f, g) ==
  /\ att[f][g].pc = "confirmed"
  /\ IF ~LocalCurrent(f) THEN Fail(f, g, "retry")
     ELSE IF row[f].issue \in Malformed \/ row[f].kind \notin Declares[att[f][g].obs]
     THEN Fail(f, g, "quarantine")
     ELSE Goto(f, g, "admitted")
  /\ UNCHANGED <<captureVars, wire, accepted, faults>>

\* The observed pin must be the captured one, and the event one it declares.
Admit(f, g) ==
  /\ att[f][g].pc = "confirmed"
  /\ IF ~LocalCurrent(f) \/ att[f][g].obs # row[f].pin THEN Fail(f, g, "retry")
     ELSE IF row[f].issue \in Malformed \/ row[f].kind \notin Declares[att[f][g].obs]
     THEN Fail(f, g, "quarantine")
     ELSE Goto(f, g, "admitted")
  /\ UNCHANGED <<captureVars, wire, accepted, faults>>

-----------------------------------------------------------------------------
(* sendOperationalFact and the Runtime intake.                             *)

\* Mutant: the request goes out on the authority read before the token was minted.
RecheckNothing(f, g) ==
  /\ att[f][g].pc = "admitted"
  /\ Goto(f, g, "cleared")
  /\ UNCHANGED <<captureVars, wire, accepted, faults>>

\* The token is minted, then the local owner is read once more.
Recheck(f, g) ==
  /\ att[f][g].pc = "admitted"
  /\ IF LocalCurrent(f) THEN Goto(f, g, "cleared") ELSE Fail(f, g, "retry")
  /\ UNCHANGED <<captureVars, wire, accepted, faults>>

Post(f, g) ==
  /\ att[f][g].pc = "cleared"
  /\ wire' = wire \cup {<<f, g>>}
  /\ Goto(f, g, "posted")
  /\ UNCHANGED <<captureVars, accepted, faults>>

\* An answer to an attempt that no longer waits for it is dropped.
Answer(f, g, out) ==
  /\ wire' = wire \ {<<f, g>>}
  /\ IF att[f][g].pc = "posted" THEN Become(f, g, "replied", att[f][g].obs, out)
     ELSE UNCHANGED att

\* The intake records a fact once and answers 202 the first time, 200 after that.
RuntimeAccept(f, g) ==
  /\ <<f, g>> \in wire
  /\ Answer(f, g, IF f \in accepted THEN "duplicate" ELSE "accepted")
  /\ accepted' = accepted \cup {f}
  /\ UNCHANGED <<captureVars, faults>>

\* The intake, or something between, answers anything else and records nothing.
RuntimeRefuse(f, g) ==
  /\ Fault
  /\ <<f, g>> \in wire
  /\ \E out \in Refusals : Answer(f, g, out)
  /\ UNCHANGED <<captureVars, accepted>>

\* Mutant: any receipt of the right shape acknowledges, whatever fact it names.
ReceiptOfAnyFact(out) == out \in Receipts \cup {"foreign"}

\* validateReceipt: only the exact receipt of this fact, with the matching status.
ReceiptValid(out) == out \in Receipts

Receive(f, g) ==
  /\ att[f][g].pc = "replied"
  /\ IF ReceiptValid(att[f][g].out) THEN Goto(f, g, "acking")
     ELSE Fail(f, g, IF att[f][g].out = "quarantine" THEN "quarantine" ELSE "retry")
  /\ UNCHANGED <<captureVars, wire, accepted, faults>>

-----------------------------------------------------------------------------
(* Completion.                                                             *)

\* Mutant: the row is completed for whoever comes while it is leased.
FencedByAnyLease(f, g) == row[f].state = "pending" /\ row[f].lease = "live"

\* Mutant: the generation alone is the fence.
FencedByGeneration(f, g) == row[f].gen = g

\* The guard of finish_operational_outbox: pending, this owner, generation and token,
\* and the lease not expired on the wall clock.
Fenced(f, g) == row[f].state = "pending" /\ row[f].gen = g /\ row[f].lease = "live"

\* Mutant: the result is stored as the state ('retry' is no state).
SettleAsNamed(f, state, due) ==
  row' = [row EXCEPT ![f].state = IF state = "pending" THEN "retry" ELSE state,
                     ![f].lease = "none", ![f].due = due]

\* The completion's UPDATE: the lease is given back with the new state.
Settle(f, state, due) ==
  row' = [row EXCEPT ![f].state = state, ![f].lease = "none", ![f].due = due]

\* The receipt is stored; a lost lease raises and falls back to a retry completion.
FinishDelivered(f, g) ==
  /\ att[f][g].pc = "acking"
  /\ IF Fenced(f, g) THEN Settle(f, "delivered", FALSE) /\ Stop(f, g)
     ELSE UNCHANGED row /\ Fail(f, g, "retry")
  /\ UNCHANGED <<issue, source, registry, seen, qual, moves, wire, accepted, faults>>

\* The SQL budget ran out around the commit: the worker sees an error although the
\* completion may have committed.
FinishUnknown(f, g) ==
  /\ Fault
  /\ att[f][g].pc = "acking"
  /\ \/ Fenced(f, g) /\ Settle(f, "delivered", FALSE)
     \/ UNCHANGED row
  /\ Fail(f, g, "retry")
  /\ UNCHANGED <<issue, source, registry, seen, qual, moves, wire, accepted>>

\* The second completion: retry with backoff, or quarantine. A lost lease is swallowed.
FinishFailed(f, g) ==
  /\ att[f][g].pc = "failing"
  /\ IF ~Fenced(f, g) THEN UNCHANGED row
     ELSE IF att[f][g].out = "quarantine" THEN Settle(f, "quarantined", FALSE)
     ELSE Settle(f, "pending", FALSE)
  /\ Stop(f, g)
  /\ UNCHANGED <<issue, source, registry, seen, qual, moves, wire, accepted, faults>>

-----------------------------------------------------------------------------
(* Deadlines, crashes and time.                                            *)

\* The 10-second attempt deadline, a transport error, or an unavailable authority. The
\* request itself is not recalled.
Abort(f, g) ==
  /\ Fault
  /\ att[f][g].pc \in Waiting
  /\ Fail(f, g, "retry")
  /\ UNCHANGED <<captureVars, wire, accepted>>

\* The worker stops, or the activity budget ends before the second completion.
Crash(f, g) ==
  /\ Fault
  /\ att[f][g].pc \in Waiting \cup {"acking", "failing"}
  /\ Stop(f, g)
  /\ UNCHANGED <<captureVars, wire, accepted>>

\* 30 seconds pass after the claim: always once the attempt is gone, and under a stalled
\* worker while it still runs.
LeaseExpires(f) ==
  /\ row[f].lease = "live"
  /\ IF att[f][row[f].gen].pc = "done" THEN UNCHANGED faults ELSE Fault
  /\ row' = [row EXCEPT ![f].lease = "expired"]
  /\ UNCHANGED <<issue, source, registry, seen, qual, moves, att, wire, accepted>>

\* next_attempt_at passes.
BackoffEnds(f) ==
  /\ row[f].state = "pending" /\ ~row[f].due
  /\ row' = [row EXCEPT ![f].due = TRUE]
  /\ UNCHANGED <<issue, source, registry, seen, qual, moves, deliveryOnly>>

-----------------------------------------------------------------------------
AttemptStep(f, g) ==
  \/ Observe(f, g) \/ ObserveAgain(f, g) \/ Admit(f, g)
  \/ Recheck(f, g) \/ Post(f, g) \/ Receive(f, g)
  \/ FinishDelivered(f, g) \/ FinishFailed(f, g)

AttemptFault(f, g) ==
  RuntimeRefuse(f, g) \/ FinishUnknown(f, g) \/ Abort(f, g) \/ Crash(f, g)

Next ==
  \/ CaptureNext /\ UNCHANGED deliveryOnly
  \/ \E batch \in SUBSET Facts : Claim(batch)
  \/ \E f \in Facts, g \in Gens : AttemptStep(f, g)
  \/ \E f \in Facts, g \in Gens : RuntimeAccept(f, g)
  \/ \E f \in Facts, g \in Gens : AttemptFault(f, g)
  \/ \E f \in Facts : LeaseExpires(f)
  \/ \E f \in Facts : BackoffEnds(f)

Spec == Init /\ [][Next]_vars

\* The shared worker drains every five seconds in due order, an attempt runs to its end,
\* Runtime answers what reaches it, and time passes.
Fairness ==
  \A f \in Facts :
    /\ WF_vars(\E batch \in SUBSET Facts : f \in batch /\ Claim(batch))
    /\ WF_vars(LeaseExpires(f))
    /\ WF_vars(BackoffEnds(f))
    /\ \A g \in Gens : WF_vars(AttemptStep(f, g)) /\ WF_vars(RuntimeAccept(f, g))

FairSpec == Spec /\ Fairness

-----------------------------------------------------------------------------
(* Properties.                                                             *)

\* A row is marked delivered only for a fact Runtime has recorded, however many stale,
\* foreign or repeated answers and unknown commits came before.
DeliveredWasAccepted == \A f \in Facts : row[f].state = "delivered" => f \in accepted

\* A held fact is never claimed, sent or recorded by Runtime, then or later ("Such rows
\* are never claimed or promoted later").
HeldNeverLeaves ==
  \A f \in Facts :
    row[f].state \in {"absent", "pending_authority"} =>
      /\ f \notin accepted
      /\ \A g \in Gens : att[f][g].pc = "idle" /\ <<f, g>> \notin wire

\* An attempt holds a receipt only for a fact the intake recorded, and completes as
\* delivered only with a receipt.
ReceiptsAreReal ==
  \A f \in Facts, g \in Gens :
    /\ att[f][g].out \in Receipts => f \in accepted
    /\ att[f][g].pc = "acking" => att[f][g].out \in Receipts

\* Only a pending row is leased.
LeasedIsPending == \A f \in Facts : row[f].lease # "none" => row[f].state = "pending"

\* The newest attempt at a fact keeps its claim until it completes, stops or fails itself: a
\* completion that comes late, of an attempt whose lease was taken over, neither settles the
\* row under it nor gives its lease away.
NewestAttemptHoldsRow ==
  \A f \in Facts, g \in Gens :
    g = row[f].gen /\ att[f][g].pc \in Waiting \cup {"acking"} =>
      row[f].state = "pending" /\ row[f].lease # "none"

\* What is on its way to Runtime was captured under the pin that the Registry showed
\* twice in the same attempt, and its event passed that certificate's declaration.
SentUnderObservedPin ==
  \A f \in Facts, g \in Gens :
    att[f][g].pc \in PastRecheck \cup {"admitted"} =>
      /\ att[f][g].obs = row[f].pin
      /\ row[f].kind \in Declares[att[f][g].obs]
      /\ row[f].issue \notin Malformed

\* The inductive invariant of module OperationalOutboxProofs.
IInv ==
  /\ TypeOK /\ RowsNamed
  /\ HeldNeverLeaves /\ ReceiptsAreReal
  /\ DeliveredWasAccepted /\ SentUnderObservedPin

\* The owner of a fact is revoked: in this step no attempt at it passes its last local
\* check, and none that has not passed it sends.
WindowCloses ==
  \A f \in Facts, g \in Gens :
    /\ row[f].state # "absent" /\ source[Owner(f)] = "revoked"
    /\ att[f][g].pc \notin PastRecheck
    => att'[f][g].pc \notin PastRecheck /\ (<<f, g>> \in wire' => <<f, g>> \in wire)

\* After a revocation no attempt passes its last local check any more: only requests
\* already past it can still reach Runtime (the documented window).
RevocationClosesWindow == [][WindowCloses]_vars

\* The outbox implements the abstract promise.
Outcome(f) ==
  CASE row[f].state = "absent" -> "absent"
    [] row[f].state = "pending" -> "owed"
    [] row[f].state = "pending_authority" -> "held"
    [] row[f].state = "delivered" -> "acknowledged"
    [] row[f].state = "quarantined" -> "quarantined"

Promise == INSTANCE FactDelivery WITH
             outcome <- [f \in Facts |-> Outcome(f)], received <- accepted

ImplementsFactDelivery == Promise!DeliverySpec

\* While the owner and its certificate stay as captured, every pending fact is in the end
\* delivered or quarantined, whatever crashes, lost answers and takeovers happen first.
EveryPendingFactSettles ==
  \A f \in Facts :
    row[f].state = "pending" ~> row[f].state \in {"delivered", "quarantined"}
=============================================================================
