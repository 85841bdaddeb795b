------------------------- MODULE SupportRegistration -------------------------
(***************************************************************************)
(* The lifecycle of a managed Support registration: the native workspace,  *)
(* its registration job, the reconciler that leases the job, and the       *)
(* action gateway that holds the managed connection (external).            *)
(*                                                                         *)
(* A claim gives the job's lease to a fresh owner (workflow, run and       *)
(* iteration); the reconcile activity of that claim may be tried several   *)
(* times under the same owner, and a try that timed out still runs beside  *)
(* its retry.  Owners are recycled once nothing of a claim is left.  The   *)
(* connection id is derived from the immutable target, so only its         *)
(* presence is kept.  The lifecycle generation is 0 or 1.                  *)
(***************************************************************************)
EXTENDS Naturals

CONSTANTS
  Installs,    \* installations, each with its workspace and job
  MaxOwners,   \* lease owners whose tries may overlap, numbered and recycled
  MaxTries,    \* activity attempts per claim (maximumAttempts 5)
  MaxFaults    \* bound on timeouts, refusals, lost calls and answers

ASSUME RegistrationAssumption ==
  MaxOwners \in Nat \ {0} /\ MaxTries \in Nat \ {0} /\ MaxFaults \in Nat

Tries == 1 .. MaxTries
Claimers == 1 .. MaxOwners
NoClaimer == 0              \* lease_owner IS NULL

VARIABLES
  ws,        \* ws[j]: runtime_support_workspaces.state
  job,       \* job[j]: managed_support_registration_jobs
  claimed,   \* claimed[j][o]: the state the job had when o claimed it
  try,       \* try[j][o][k]: one attempt of the reconcile activity
  calls,     \* requests to the gateway not handled yet
  gateway,   \* gateway[j]: the managed connection (external)
  faults     \* faults so far, at most MaxFaults

vars == <<ws, job, claimed, try, calls, gateway, faults>>

Serving == {"pending", "connected", "ready", "conflict"}
Closing == {"revocation_pending", "revoked"}
Claimables == {"pending", "connected", "ready", "revocation_pending"}
Calls == {"connect", "readiness", "disable"}

NoJob == [state |-> "absent", desired |-> "active", applied |-> FALSE, conn |-> FALSE,
          owner |-> NoClaimer, lease |-> "none", due |-> FALSE]
NoTry == [pc |-> "idle", next |-> "pending", conn |-> FALSE]

Job == [state : {"absent"} \cup Serving \cup Closing, desired : {"active", "permanently_revoked"},
        applied : BOOLEAN, conn : BOOLEAN, owner : Claimers \cup {NoClaimer},
        lease : {"none", "live", "expired"}, due : BOOLEAN]
Try == [pc : {"idle", "started", "finishing", "failed", "over", "thrown"} \cup Calls,
        next : Serving \cup Closing, conn : BOOLEAN]

\* The CHECKs of migration 009: only a permanently revoked job is closing, only a revoked
\* one has applied the lifecycle generation.
JobCheck(r) ==
  /\ r.desired = "permanently_revoked" <=> r.state \in Closing
  /\ r.state = "revoked" => r.applied
  /\ r.applied => r.desired = "permanently_revoked"
  /\ r.lease = "none" <=> r.owner = NoClaimer

\* Shapes of the tables and of the activity's local state, with the tables' CHECKs.
TypeOK ==
  /\ ws \in [Installs -> {"absent", "workspace_created", "tombstoned"}]
  /\ job \in [Installs -> Job] /\ \A j \in Installs : JobCheck(job[j])
  /\ claimed \in [Installs -> [Claimers -> {"absent"} \cup Claimables]]
  /\ try \in [Installs -> [Claimers -> [Tries -> Try]]]
  /\ calls \subseteq Installs \X Claimers \X Tries \X Calls
  /\ gateway \in [Installs -> {"none", "enabled", "disabled"}]
  /\ faults \in 0 .. MaxFaults

Init ==
  /\ ws = [j \in Installs |-> "absent"]
  /\ job = [j \in Installs |-> NoJob]
  /\ claimed = [j \in Installs |-> [o \in Claimers |-> "absent"]]
  /\ try = [j \in Installs |-> [o \in Claimers |-> [k \in Tries |-> NoTry]]]
  /\ calls = {}
  /\ gateway = [j \in Installs |-> "none"]
  /\ faults = 0

Fault == faults < MaxFaults /\ faults' = faults + 1

-----------------------------------------------------------------------------
(* The native workspace.                                                   *)

\* acquire: workspace, tenant and job appear in one transaction; an exact retry finds
\* them, a retry after the tombstone is a scope conflict.
Acquire(j) ==
  /\ ws[j] = "absent"
  /\ ws' = [ws EXCEPT ![j] = "workspace_created"]
  /\ job' = [job EXCEPT ![j].state = "pending", ![j].due = TRUE]
  /\ UNCHANGED <<claimed, try, calls, gateway, faults>>

\* The permanent tombstone (external to the repository; the trigger admits it once).
Tombstone(j) ==
  /\ ws[j] = "workspace_created"
  /\ ws' = [ws EXCEPT ![j] = "tombstoned"]
  /\ UNCHANGED <<job, claimed, try, calls, gateway, faults>>

-----------------------------------------------------------------------------
(* Claims, leases and activity attempts.                                   *)

\* Nothing of an earlier claim under this owner is left.
Ended(j, o) ==
  /\ job[j].owner # o
  /\ \A k \in Tries : /\ try[j][o][k].pc \in {"idle", "over", "thrown"}
                      /\ \A kind \in Calls : <<j, o, k, kind>> \notin calls

\* Mutant: revocation_pending is not selected, as before migration 009.
ClaimableAsBefore(r) == r.state \in {"pending", "connected", "ready"} /\ r.due /\ r.lease # "live"

\* Mutant: a job whose connection exists is not selected until it is revoked.
ClaimableUnconnected(r) ==
  r.state \in Claimables /\ r.due /\ r.lease # "live" /\ (r.conn => r.state = "revocation_pending")

\* What claim_managed_support_registration_jobs selects: conflict and revoked are not.
Claimable(r) == r.state \in Claimables /\ r.due /\ r.lease # "live"

\* The fresh owner of a claim is the first number nothing is left of.
Claim(j, o) ==
  /\ Claimable(job[j])
  /\ Ended(j, o) /\ \A p \in 1 .. o - 1 : ~Ended(j, p)
  /\ job' = [job EXCEPT ![j].owner = o, ![j].lease = "live"]
  /\ claimed' = [claimed EXCEPT ![j][o] = job[j].state]
  /\ try' = [try EXCEPT ![j][o] = [k \in Tries |-> IF k = 1 THEN [NoTry EXCEPT !.pc = "started"]
                                                   ELSE NoTry]]
  /\ UNCHANGED <<ws, calls, gateway, faults>>

Running(t) == t.pc \in {"started", "finishing", "failed"} \cup Calls

\* Temporal retries a try that threw, and one whose 30 seconds passed while it still runs.
Retry(j, o, k) ==
  /\ k + 1 \in Tries /\ try[j][o][k + 1].pc = "idle"
  /\ \/ try[j][o][k].pc = "thrown" /\ UNCHANGED faults
     \/ Running(try[j][o][k]) /\ Fault
  /\ try' = [try EXCEPT ![j][o][k + 1].pc = "started"]
  /\ UNCHANGED <<ws, job, claimed, calls, gateway>>

\* The process of a running try is gone; Temporal sees it as thrown.
Crash(j, o, k) ==
  /\ Fault
  /\ Running(try[j][o][k])
  /\ try' = [try EXCEPT ![j][o][k] = [NoTry EXCEPT !.pc = "thrown"]]
  /\ UNCHANGED <<ws, job, claimed, calls, gateway>>

\* Two minutes pass after the claim, under a running try only as a fault.
LeaseExpires(j) ==
  /\ job[j].lease = "live"
  /\ IF \E k \in Tries : Running(try[j][job[j].owner][k]) THEN Fault ELSE UNCHANGED faults
  /\ job' = [job EXCEPT ![j].lease = "expired"]
  /\ UNCHANGED <<ws, claimed, try, calls, gateway>>

\* next_attempt_at passes: the retry delay, or five minutes after a success.
BackoffEnds(j) ==
  /\ job[j].state # "absent" /\ ~job[j].due
  /\ job' = [job EXCEPT ![j].due = TRUE]
  /\ UNCHANGED <<ws, claimed, try, calls, gateway, faults>>

\* The fence of observe and finish is the owner and a lease that had not expired when the
\* transaction began (now()): a lease that runs out during a lock wait may still pass.
Holds(j, o) == job[j].owner = o /\ job[j].lease # "none"
MayFind(j, o) == Holds(j, o)
MayMiss(j, o) == ~(Holds(j, o) /\ job[j].lease = "live")

-----------------------------------------------------------------------------
(* One try: observe the lifecycle, then reconcile with the gateway.        *)

Goto(j, o, k, pc) == try' = [try EXCEPT ![j][o][k] = [NoTry EXCEPT !.pc = pc]]
Send(j, o, k, kind) == calls' = calls \cup {<<j, o, k, kind>>}

\* observe_managed_support_lifecycle: only the exact tombstone revokes, once. The first
\* gateway call of reconcile follows from the job observed here.
Observe(j, o, k) ==
  /\ try[j][o][k].pc = "started"
  /\ MayFind(j, o)
  /\ job' = IF ws[j] = "tombstoned" /\ job[j].desired = "active"
            THEN [job EXCEPT ![j].desired = "permanently_revoked", ![j].state = "revocation_pending"]
            ELSE job
  /\ LET kind == IF job'[j].desired = "permanently_revoked" THEN "disable" ELSE "connect"
     IN Goto(j, o, k, kind) /\ Send(j, o, k, kind)
  /\ UNCHANGED <<ws, claimed, gateway, faults>>

ObserveLost(j, o, k) ==
  /\ try[j][o][k].pc = "started"
  /\ MayMiss(j, o)
  /\ Goto(j, o, k, "failed")
  /\ UNCHANGED <<ws, job, claimed, calls, gateway, faults>>

\* A try that still waits for this call goes on with the update, or with the next call.
Resume(j, o, k, kind, next, conn) ==
  /\ calls' = calls \ {<<j, o, k, kind>>}
  /\ try' = IF try[j][o][k].pc = kind
            THEN [try EXCEPT ![j][o][k] = [pc |-> "finishing", next |-> next, conn |-> conn]]
            ELSE try

\* connect creates the connection once (its owner proof may predate the tombstone); a
\* disabled one is never enabled again.
GatewayConnects(j, o, k) ==
  /\ <<j, o, k, "connect">> \in calls
  /\ gateway[j] # "disabled"
  /\ gateway' = [gateway EXCEPT ![j] = "enabled"]
  /\ IF try[j][o][k].pc = "connect"
     THEN /\ calls' = (calls \ {<<j, o, k, "connect">>}) \cup {<<j, o, k, "readiness">>}
          /\ Goto(j, o, k, "readiness")
     ELSE calls' = calls \ {<<j, o, k, "connect">>} /\ UNCHANGED try
  /\ UNCHANGED <<ws, job, claimed, faults>>

GatewayIsReady(j, o, k) ==
  /\ <<j, o, k, "readiness">> \in calls
  /\ gateway[j] = "enabled"
  /\ Resume(j, o, k, "readiness", "ready", TRUE)
  /\ UNCHANGED <<ws, job, claimed, gateway, faults>>

\* disable needs the owner's proof of the observed tombstone.
GatewayDisables(j, o, k) ==
  /\ <<j, o, k, "disable">> \in calls
  /\ gateway[j] # "none"
  /\ ws[j] = "tombstoned" /\ job[j].desired = "permanently_revoked"
  /\ gateway' = [gateway EXCEPT ![j] = "disabled"]
  /\ Resume(j, o, k, "disable", "revoked", TRUE)
  /\ UNCHANGED <<ws, job, claimed, faults>>

\* Mutant: any answer to disable counts as its acknowledgement.
DisableNeedsNoAck(kind) ==
  CASE kind = "connect" -> {<<"pending", FALSE>>, <<"conflict", FALSE>>}
    [] kind = "readiness" -> {<<"connected", TRUE>>, <<"conflict", TRUE>>}
    [] kind = "disable" -> {<<"revoked", TRUE>>}

\* Mutant: a 409 of connect is read as "already connected".
ConflictIsThere(kind) ==
  CASE kind = "connect" -> {<<"pending", FALSE>>, <<"ready", TRUE>>}
    [] kind = "readiness" -> {<<"connected", TRUE>>, <<"conflict", TRUE>>}
    [] kind = "disable" -> {<<"revocation_pending", FALSE>>}

\* What an answer other than the exact one makes of the job: a connect that is refused
\* waits (pending) or conflicts (409, or another identity), and so on.
Refused(kind) ==
  CASE kind = "connect" -> {<<"pending", FALSE>>, <<"conflict", FALSE>>}
    [] kind = "readiness" -> {<<"connected", TRUE>>, <<"conflict", TRUE>>}
    [] kind = "disable" -> {<<"revocation_pending", FALSE>>}

\* The gateway cannot serve the call as things are, or, as a fault, just does not.
GatewayRefuses(j, o, k, kind) ==
  /\ <<j, o, k, kind>> \in calls
  /\ IF \/ kind = "connect" /\ gateway[j] = "disabled"
        \/ kind = "readiness" /\ gateway[j] # "enabled"
        \/ kind = "disable" /\ gateway[j] = "none"
     THEN UNCHANGED faults ELSE Fault
  /\ \E r \in Refused(kind) : Resume(j, o, k, kind, r[1], r[2])
  /\ UNCHANGED <<ws, job, claimed, gateway>>

\* The call throws (5-second timeout, transport, token): the catch branch runs. The
\* request itself may still arrive, or is lost.
CallThrows(j, o, k, kind) ==
  /\ Fault
  /\ try[j][o][k].pc = kind
  /\ Goto(j, o, k, "failed")
  /\ \/ UNCHANGED calls
     \/ calls' = calls \ {<<j, o, k, kind>>}
  /\ UNCHANGED <<ws, job, claimed, gateway>>

-----------------------------------------------------------------------------
(* finish_managed_support_registration_job.                                *)

\* Mutant: the target state is stored as the worker computed it.
FinishAsTold(r, next, conn) ==
  [r EXCEPT !.state = next, !.applied = @ \/ next = "revoked", !.conn = @ \/ conn,
            !.owner = NoClaimer, !.lease = "none", !.due = FALSE]

\* A revoked job takes no state but revocation_pending or revoked, whatever an older
\* observation computed; the lease is given back.
Finished(r, next, conn) ==
  LET dead == r.desired = "permanently_revoked"
  IN [r EXCEPT !.state = IF dead THEN (IF next = "revoked" THEN next ELSE "revocation_pending") ELSE next,
               !.applied = @ \/ (dead /\ next = "revoked"), !.conn = @ \/ conn,
               !.owner = NoClaimer, !.lease = "none", !.due = FALSE]

Finish(j, o, k) ==
  /\ try[j][o][k].pc = "finishing"
  /\ \/ /\ MayFind(j, o)
        /\ job' = [job EXCEPT ![j] = Finished(@, try[j][o][k].next, try[j][o][k].conn)]
        /\ Goto(j, o, k, "over")
     \/ MayMiss(j, o) /\ Goto(j, o, k, "failed") /\ UNCHANGED job
  /\ UNCHANGED <<ws, claimed, calls, gateway, faults>>

\* The answer of a completion that committed is lost: the catch branch runs.
FinishUnknown(j, o, k) ==
  /\ Fault
  /\ try[j][o][k].pc = "finishing" /\ MayFind(j, o)
  /\ job' = [job EXCEPT ![j] = Finished(@, try[j][o][k].next, try[j][o][k].conn)]
  /\ Goto(j, o, k, "failed")
  /\ UNCHANGED <<ws, claimed, calls, gateway>>

\* The catch branch: finish with the state the job had when it was claimed.
FallBack(j, o, k) ==
  /\ try[j][o][k].pc = "failed"
  /\ \/ /\ MayFind(j, o)
        /\ job' = [job EXCEPT ![j] = Finished(@, claimed[j][o], FALSE)]
        /\ Goto(j, o, k, "over")
     \/ MayMiss(j, o) /\ Goto(j, o, k, "thrown") /\ UNCHANGED job
  /\ UNCHANGED <<ws, claimed, calls, gateway, faults>>

-----------------------------------------------------------------------------
TryStep(j, o, k) ==
  Observe(j, o, k) \/ ObserveLost(j, o, k) \/ Finish(j, o, k) \/ FallBack(j, o, k)

GatewayStep(j, o, k) ==
  \/ GatewayConnects(j, o, k) \/ GatewayIsReady(j, o, k) \/ GatewayDisables(j, o, k)
  \/ \E kind \in Calls : GatewayRefuses(j, o, k, kind)

TryFault(j, o, k) ==
  \/ Crash(j, o, k) \/ FinishUnknown(j, o, k)
  \/ \E kind \in Calls : CallThrows(j, o, k, kind)

Next ==
  \E j \in Installs :
    \/ Acquire(j) \/ Tombstone(j) \/ LeaseExpires(j) \/ BackoffEnds(j)
    \/ \E o \in Claimers : Claim(j, o)
    \/ \E o \in Claimers, k \in Tries :
         TryStep(j, o, k) \/ GatewayStep(j, o, k) \/ TryFault(j, o, k) \/ Retry(j, o, k)

Spec == Init /\ [][Next]_vars

\* The reconciler workflow loops for ever, Temporal runs the tries, the gateway answers,
\* and time passes. Nothing forces a tombstone, an acquisition or a fault.
Fairness ==
  \A j \in Installs :
    /\ WF_vars(\E o \in Claimers : Claim(j, o))
    /\ WF_vars(LeaseExpires(j)) /\ WF_vars(BackoffEnds(j))
    /\ \A o \in Claimers, k \in Tries :
         WF_vars(TryStep(j, o, k)) /\ WF_vars(GatewayStep(j, o, k)) /\ WF_vars(Retry(j, o, k))

FairSpec == Spec /\ Fairness

-----------------------------------------------------------------------------
(* Properties.                                                             *)

\* The job says revoked only when the gateway's connection is disabled and the workspace
\* is gone; with no re-enable it stays so, although calls and tries of older claims,
\* made before the tombstone was observed, are still running.
RevokedIsDisabled ==
  \A j \in Installs :
    /\ job[j].state = "revoked" => gateway[j] = "disabled"
    /\ gateway[j] = "disabled" => ws[j] = "tombstoned" /\ job[j].desired = "permanently_revoked"

\* A job that reads ready, which authorizes captures and deliveries of the outbox, has an
\* enabled connection at the gateway, whatever tries finished late or out of order.
ReadyIsConnected ==
  \A j \in Installs :
    /\ job[j].state = "ready" => gateway[j] = "enabled"
    /\ job[j].conn => gateway[j] # "none"

\* A refused or lost call demotes a connected or ready job to pending, which closes the
\* outbox's authority: unless its workspace is tombstoned, such a job is ready again in the
\* end, or stands in conflict, however many owners and tries were lost on the way.
PendingBecomesReady ==
  \A j \in Installs :
    job[j].state \in {"pending", "connected"}
      ~> job[j].state \in {"ready", "conflict"} \/ ws[j] = "tombstoned"

\* An existing connection of a tombstoned workspace is disabled and the job revoked in the
\* end, unless the job stands in conflict, which nothing claims again.
TombstoneIsApplied ==
  \A j \in Installs :
    ws[j] = "tombstoned" /\ gateway[j] # "none"
      ~> job[j].state = "conflict" \/ (gateway[j] = "disabled" /\ job[j].state = "revoked")

\* What a claim, a try and a call under way may still do to the job, and what they stand on:
\* a lifecycle observed as revoked, a connection that exists or is disabled (for the proofs).
ClaimGrounded(j, o) ==
  /\ claimed[j][o] = "ready" => gateway[j] # "none"
  /\ claimed[j][o] \in Closing => job[j].desired = "permanently_revoked"

TryGrounded(j, o, k) ==
  /\ try[j][o][k].pc # "idle" => claimed[j][o] # "absent"
  /\ try[j][o][k].next \in Closing => job[j].desired = "permanently_revoked"
  /\ try[j][o][k].next = "revoked" => gateway[j] = "disabled"
  /\ try[j][o][k].next = "ready" \/ try[j][o][k].conn => gateway[j] # "none"

CallGrounded(c) ==
  /\ c[4] = "readiness" => gateway[c[1]] # "none"
  /\ c[4] = "disable" => job[c[1]].desired = "permanently_revoked"

\* Only an acquired workspace has a job, and only a job is leased.
JobGrounded(j) ==
  /\ ws[j] = "absent" => job[j].state = "absent"
  /\ job[j].state = "absent" => job[j].owner = NoClaimer

\* The inductive invariant of module SupportRegistrationProofs.
IInv ==
  /\ TypeOK /\ RevokedIsDisabled /\ ReadyIsConnected
  /\ \A j \in Installs : JobGrounded(j)
  /\ \A j \in Installs, o \in Claimers : ClaimGrounded(j, o)
  /\ \A j \in Installs, o \in Claimers, k \in Tries : TryGrounded(j, o, k)
  /\ \A c \in calls : CallGrounded(c)
=============================================================================
