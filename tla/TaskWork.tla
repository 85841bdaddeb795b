------------------------------- MODULE TaskWork -------------------------------
(***************************************************************************)
(* Native task work: a manager's request captures an immutable row, the    *)
(* worker delivers it to Tasks under a lease and an Identity credential,   *)
(* and Tasks reports the outcome of the work (SQL functions of migration   *)
(* 013, drainSupportTaskWork, the issuance policy, the outcome receiver).  *)
(*                                                                         *)
(* One Support workspace.  A ref is the client's idempotency key and the   *)
(* row's id.  Refs, works and outcome events are numbered in the order of  *)
(* their first use, which is all their ids are used for here.  A ticket's  *)
(* version stands for updated_at and the snapshot.                         *)
(* As in OperationalOutbox an attempt is named by its row and generation.  *)
(***************************************************************************)
EXTENDS Integers, FiniteSets

CONSTANTS
  Issues, NoIssue,               \* tickets; no row yet
  MaxRefs, MaxWorks, MaxEvents,  \* bounds on idempotency keys, work ids, outcome event ids
  MaxVer,                        \* bound on the versions of one ticket
  MaxGen,                        \* bound on the claims of one row
  MaxMoves,                      \* bound on the changes of owner and manager
  MaxFaults                      \* bound on timeouts, crashes, refusals and other faults

ASSUME TaskWorkAssumption ==
  /\ NoIssue \notin Issues
  /\ MaxRefs \in Nat /\ MaxWorks \in Nat /\ MaxEvents \in Nat
  /\ MaxVer \in Nat /\ MaxGen \in Nat \ {0} /\ MaxMoves \in Nat /\ MaxFaults \in Nat

VARIABLES
  ticket,     \* ticket[i]: version and whether it is resolved or closed
  owner,      \* the workspace and its registration job
  manager,    \* the requester still holds support:manage (Registry, external)
  row,        \* row[f]: supportv8.task_work_outbox
  outcomes,   \* supportv8.task_work_outcomes: event, intake, work
  att,        \* att[f][g]: the attempt that claimed generation g of row f
  linked,     \* outcome deliveries that passed link, current and the second verify
  wire,       \* requests to Tasks not handled yet
  tasks,      \* tasks[f]: the work id Tasks recorded event f under (external)
  moves, faults

ticketVars == <<ticket, owner, manager, moves>>
vars == <<ticketVars, row, outcomes, att, linked, wire, tasks, faults>>

Refs == 1 .. MaxRefs
Works == 1 .. MaxWorks
Events == 1 .. MaxEvents
NoWork == 0                  \* work_id IS NULL
Gens == 1 .. MaxGen

\* x is in use already, or the next number.
KnownOrNext(x, used) == x \in used \/ \A y \in 1 .. x - 1 : y \in used
Phases == {"idle", "claimed", "admitted", "issued", "cleared", "posted", "replied",
           "acking", "failing", "done"}
Waiting == {"claimed", "admitted", "issued", "cleared", "posted", "replied"}

NoRow == [state |-> "absent", issue |-> NoIssue, ver |-> 0, rev |-> 0, source |-> NoWork,
          work |-> NoWork, gen |-> 0, lease |-> "none", due |-> FALSE]
NoAttempt == [pc |-> "idle", token |-> FALSE, work |-> NoWork]

Row == [state : {"absent", "pending", "delivered"}, issue : Issues \cup {NoIssue},
        ver : Nat, rev : Nat, source : Works \cup {NoWork}, work : Works \cup {NoWork},
        gen : Nat, lease : {"none", "live", "expired"}, due : BOOLEAN]
Attempt == [pc : Phases, token : BOOLEAN, work : Works \cup {NoWork}]

\* Shapes, and the CHECK that a row has a work id exactly when it is delivered.
TypeOK ==
  /\ ticket \in [Issues -> [ver : 0 .. MaxVer, closed : BOOLEAN]]
  /\ owner \in {"ready", "unready", "revoked"} /\ manager \in BOOLEAN
  /\ row \in [Refs -> Row]
  /\ \A f \in Refs : row[f].work # NoWork <=> row[f].state = "delivered"
  /\ outcomes \subseteq Events \X Refs \X Works
  /\ att \in [Refs -> [Gens -> Attempt]]
  /\ linked \subseteq Events \X Refs \X Works
  /\ wire \subseteq Refs \X Gens
  /\ tasks \in [Refs -> Works \cup {NoWork}]
  /\ moves \in 0 .. MaxMoves /\ faults \in 0 .. MaxFaults

Init ==
  /\ ticket = [i \in Issues |-> [ver |-> 0, closed |-> FALSE]]
  /\ owner = "ready" /\ manager = TRUE
  /\ row = [f \in Refs |-> NoRow]
  /\ outcomes = {} /\ linked = {} /\ wire = {}
  /\ att = [f \in Refs |-> [g \in Gens |-> NoAttempt]]
  /\ tasks = [f \in Refs |-> NoWork]
  /\ moves = 0 /\ faults = 0

Fault == faults < MaxFaults /\ faults' = faults + 1
Move == moves < MaxMoves /\ moves' = moves + 1

Become(f, g, pc, token, work) ==
  att' = [att EXCEPT ![f][g] = [pc |-> pc, token |-> token, work |-> work]]
Goto(f, g, pc) == att' = [att EXCEPT ![f][g].pc = pc]
Fail(f, g) == Become(f, g, "failing", FALSE, NoWork)
Stop(f, g) == Become(f, g, "done", FALSE, NoWork)

-----------------------------------------------------------------------------
(* The ticket, the owner and the manager change under way.                 *)

\* Any native update of the issue moves updated_at.
ChangeTicket(i) ==
  /\ ticket[i].ver < MaxVer
  /\ \E closed \in BOOLEAN :
       ticket' = [ticket EXCEPT ![i] = [ver |-> @.ver + 1, closed |-> closed]]
  /\ UNCHANGED <<owner, manager, moves, row, outcomes, att, linked, wire, tasks, faults>>

OwnerChange(s) ==
  /\ Move /\ owner \notin {"revoked", s}
  /\ owner' = s
  /\ UNCHANGED <<ticket, manager, row, outcomes, att, linked, wire, tasks, faults>>

ManagerChange ==
  /\ Move
  /\ manager' = ~manager
  /\ UNCHANGED <<ticket, owner, row, outcomes, att, linked, wire, tasks, faults>>

\* currentTaskWorkSource: the requester still manages and the workspace is active; the
\* registration job need not be ready for it.
Current == manager /\ owner # "revoked"

RowsOf(i) == {f \in Refs : row[f].issue = i}
Latest(f) == \A h \in RowsOf(row[f].issue) : row[h].rev <= row[f].rev

\* task_work_fact: ready owner, ticket as requested, no later revision.
Fact(f) ==
  /\ row[f].state # "absent" /\ owner = "ready"
  /\ ticket[row[f].issue].ver = row[f].ver
  /\ Latest(f)

-----------------------------------------------------------------------------
(* request_task_work.                                                      *)

\* Mutant: a new revision is admitted while the previous one awaits its receipt.
PriorSettledAlways(i) == TRUE

\* The previous revision of the ticket, if any, is delivered.
PriorSettled(i) == \A f \in RowsOf(i) : Latest(f) => row[f].state = "delivered"

\* The work id the previous revision was delivered under.
PriorWork(i) ==
  IF RowsOf(i) = {} THEN NoWork ELSE row[CHOOSE f \in RowsOf(i) : Latest(f)].work

\* The ticket row is locked, so requests of one ticket are serial. The digest of the POST
\* must match the locked ticket; an exact replay of a key answers with its row; anything
\* else is refused and changes nothing. The manager was authorized before the
\* transaction and may have been revoked since.
Request(i, f) ==
  /\ row[f].state = "absent" /\ \A h \in 1 .. f - 1 : row[h].state # "absent"
  /\ owner = "ready"
  /\ ~ticket[i].closed
  /\ PriorSettled(i)
  /\ row' = [row EXCEPT ![f] = [NoRow EXCEPT !.state = "pending", !.issue = i,
                                  !.ver = ticket[i].ver, !.rev = Cardinality(RowsOf(i)),
                                  !.source = PriorWork(i), !.due = TRUE]]
  /\ UNCHANGED <<ticketVars, outcomes, att, linked, wire, tasks, faults>>

-----------------------------------------------------------------------------
(* claim_task_work and one delivery attempt of drainSupportTaskWork.       *)

\* Mutant: only rows that were never leased, or gave the lease back, are due.
ClaimableUnleased(f) ==
  /\ row[f].state = "pending" /\ row[f].due /\ row[f].lease = "none" /\ row[f].gen < MaxGen

Claimable(f) ==
  /\ row[f].state = "pending" /\ row[f].due /\ row[f].lease # "live" /\ row[f].gen < MaxGen

\* The worker claims one row at a time.
Claim(f) ==
  /\ Claimable(f)
  /\ row' = [row EXCEPT ![f].gen = @ + 1, ![f].lease = "live"]
  /\ att' = [att EXCEPT ![f][row[f].gen + 1].pc = "claimed"]
  /\ UNCHANGED <<ticketVars, outcomes, linked, wire, tasks, faults>>

\* One authority read of the attempt: go on, or fail.
Check(f, g, from, to, ok) ==
  /\ att[f][g].pc = from
  /\ IF ok THEN Goto(f, g, to) ELSE Fail(f, g)
  /\ UNCHANGED <<ticketVars, row, outcomes, linked, wire, tasks, faults>>

CheckSource(f, g) == Check(f, g, "claimed", "admitted", Current)

\* The Identity issuer asks the issuance policy, which loads the pending fact twice.
IssueToken(f, g) ==
  /\ att[f][g].pc = "admitted"
  /\ IF Current /\ Fact(f) /\ row[f].state = "pending"
     THEN Become(f, g, "issued", TRUE, NoWork) ELSE Fail(f, g)
  /\ UNCHANGED <<ticketVars, row, outcomes, linked, wire, tasks, faults>>

CheckBeforePost(f, g) == Check(f, g, "issued", "cleared", Current /\ att[f][g].token)

Post(f, g) ==
  /\ att[f][g].pc = "cleared"
  /\ Goto(f, g, "posted")
  /\ wire' = wire \cup {<<f, g>>}
  /\ UNCHANGED <<ticketVars, row, outcomes, linked, tasks, faults>>

\* An answer to an attempt that no longer waits for it is dropped.
Answer(f, g, work) ==
  /\ wire' = wire \ {<<f, g>>}
  /\ IF att[f][g].pc = "posted"
     THEN IF work = NoWork THEN Fail(f, g)
          ELSE Become(f, g, "replied", att[f][g].token, work)
     ELSE UNCHANGED att

\* Tasks records an event once and answers with its work id, again on a repeat. The work
\* is the one it linked to the ticket before; anything else is a fault of Tasks.
TasksRecord(f, g) ==
  /\ <<f, g>> \in wire
  /\ IF tasks[f] # NoWork THEN UNCHANGED <<tasks, faults>>
     ELSE \E w \in Works :
            /\ KnownOrNext(w, {tasks[h] : h \in Refs})
            /\ tasks' = [tasks EXCEPT ![f] = w]
            /\ IF row[f].source \in {NoWork, w} THEN UNCHANGED faults ELSE Fault
  /\ Answer(f, g, tasks'[f])
  /\ UNCHANGED <<ticketVars, row, outcomes, linked>>

\* A refusal, or a body that is not this event's receipt.
TasksRefuse(f, g) ==
  /\ Fault
  /\ <<f, g>> \in wire
  /\ Answer(f, g, NoWork)
  /\ UNCHANGED <<ticketVars, row, outcomes, linked, tasks>>

CheckReceipt(f, g) == Check(f, g, "replied", "acking", Current /\ att[f][g].token)

-----------------------------------------------------------------------------
(* finish_task_work.                                                       *)

\* Mutant: the generation alone is the fence.
FencedByGeneration(f, g) == row[f].gen = g

Fenced(f, g) == row[f].state = "pending" /\ row[f].gen = g /\ row[f].lease = "live"

\* Mutant: the receipt's work id is not compared with the link of the earlier revision.
ReceiptMatchesAnyWork(f, work) == work \in Works

ReceiptMatches(f, work) == work \in Works /\ row[f].source \in {NoWork, work}

\* Mutant: the fact is not read again under the locks of the completion.
StillDeliverableByOwner(f) == owner = "ready"

\* The completion re-reads the owner and the fact under their locks.
StillDeliverable(f) == owner = "ready" /\ Fact(f)

\* Mutant: the state does not depend on the receipt.
SettleAlways(f, state, work) ==
  row' = [row EXCEPT ![f].state = "delivered", ![f].work = work, ![f].lease = "none", ![f].due = FALSE]

Settle(f, state, work) ==
  row' = [row EXCEPT ![f].state = state, ![f].work = work, ![f].lease = "none", ![f].due = FALSE]

Admitted(f, g) ==
  /\ Fenced(f, g) /\ att[f][g].token
  /\ ReceiptMatches(f, att[f][g].work) /\ StillDeliverable(f)

\* Everything is checked before and after the UPDATE; any miss raises, rolls back and
\* falls to the failure completion.
FinishDelivered(f, g) ==
  /\ att[f][g].pc = "acking"
  /\ IF Admitted(f, g)
     THEN Settle(f, "delivered", att[f][g].work) /\ Stop(f, g)
     ELSE UNCHANGED row /\ Fail(f, g)
  /\ UNCHANGED <<ticketVars, outcomes, linked, wire, tasks, faults>>

\* The commit's answer is lost.
FinishUnknown(f, g) ==
  /\ Fault
  /\ att[f][g].pc = "acking" /\ Admitted(f, g)
  /\ Settle(f, "delivered", att[f][g].work)
  /\ Fail(f, g)
  /\ UNCHANGED <<ticketVars, outcomes, linked, wire, tasks>>

\* The catch branch: pending again in 30 seconds; a lost lease fails the activity.
FinishFailed(f, g) ==
  /\ att[f][g].pc = "failing"
  /\ IF Fenced(f, g) THEN Settle(f, "pending", NoWork) ELSE UNCHANGED row
  /\ Stop(f, g)
  /\ UNCHANGED <<ticketVars, outcomes, linked, wire, tasks, faults>>

-----------------------------------------------------------------------------
(* The outcome receiver: link, current, verify again, then one transaction *)
(* that records.                                                           *)

\* Tasks reports outcome e of the work it recorded for f (external). link finds only a
\* delivered row whose fact still holds.
ReceiveOutcome(e, f) ==
  /\ tasks[f] # NoWork
  /\ KnownOrNext(e, {o[1] : o \in linked \cup outcomes})
  /\ row[f].state = "delivered" /\ row[f].work = tasks[f] /\ Fact(f)
  /\ Current
  /\ linked' = linked \cup {<<e, f, tasks[f]>>}
  /\ UNCHANGED <<ticketVars, row, outcomes, att, wire, tasks, faults>>

\* Mutant: only the event id makes a prior outcome.
PriorByEvent(e, f) == {o \in outcomes : o[1] = e}

\* An outcome of the same event or of the same intake.
PriorOutcomes(e, f) == {o \in outcomes : o[1] = e \/ o[2] = f}

\* record_task_work_outcome: a repeat of the recorded event answers with its receipt,
\* any other outcome is a conflict; the delivery is over either way.
RecordOutcome(e, f, w) ==
  /\ <<e, f, w>> \in linked
  /\ linked' = linked \ {<<e, f, w>>}
  /\ outcomes' = IF row[f].state = "delivered" /\ Fact(f) /\ row[f].work = w
                    /\ PriorOutcomes(e, f) = {}
                 THEN outcomes \cup {<<e, f, w>>} ELSE outcomes
  /\ UNCHANGED <<ticketVars, row, att, wire, tasks, faults>>

-----------------------------------------------------------------------------
(* Deadlines, crashes and time.                                            *)

\* The 20-second signal, a transport or an authority error.
Abort(f, g) ==
  /\ Fault
  /\ att[f][g].pc \in Waiting
  /\ Fail(f, g)
  /\ UNCHANGED <<ticketVars, row, outcomes, linked, wire, tasks>>

Crash(f, g) ==
  /\ Fault
  /\ att[f][g].pc \in Waiting \cup {"acking", "failing"}
  /\ Stop(f, g)
  /\ UNCHANGED <<ticketVars, row, outcomes, linked, wire, tasks>>

\* The credential runs out while the attempt waits, for instance for the ticket's lock.
TokenExpires(f, g) ==
  /\ Fault
  /\ att[f][g].token
  /\ att' = [att EXCEPT ![f][g].token = FALSE]
  /\ UNCHANGED <<ticketVars, row, outcomes, linked, wire, tasks>>

LeaseExpires(f) ==
  /\ row[f].lease = "live"
  /\ IF att[f][row[f].gen].pc = "done" THEN UNCHANGED faults ELSE Fault
  /\ row' = [row EXCEPT ![f].lease = "expired"]
  /\ UNCHANGED <<ticketVars, outcomes, att, linked, wire, tasks>>

BackoffEnds(f) ==
  /\ row[f].state = "pending" /\ ~row[f].due
  /\ row' = [row EXCEPT ![f].due = TRUE]
  /\ UNCHANGED <<ticketVars, outcomes, att, linked, wire, tasks, faults>>

-----------------------------------------------------------------------------
AttemptStep(f, g) ==
  \/ CheckSource(f, g) \/ IssueToken(f, g) \/ CheckBeforePost(f, g) \/ Post(f, g)
  \/ CheckReceipt(f, g) \/ FinishDelivered(f, g) \/ FinishFailed(f, g)

AttemptFault(f, g) ==
  TasksRefuse(f, g) \/ FinishUnknown(f, g) \/ Abort(f, g) \/ Crash(f, g) \/ TokenExpires(f, g)

Next ==
  \/ \E i \in Issues : ChangeTicket(i)
  \/ \E s \in {"ready", "unready", "revoked"} : OwnerChange(s)
  \/ ManagerChange
  \/ \E i \in Issues, f \in Refs : Request(i, f)
  \/ \E f \in Refs : Claim(f) \/ LeaseExpires(f) \/ BackoffEnds(f)
  \/ \E f \in Refs, g \in Gens : AttemptStep(f, g) \/ TasksRecord(f, g) \/ AttemptFault(f, g)
  \/ \E e \in Events, f \in Refs : ReceiveOutcome(e, f)
  \/ \E e \in Events, f \in Refs, w \in Works : RecordOutcome(e, f, w)

Spec == Init /\ [][Next]_vars

\* The workflow drains every five seconds in due order, an attempt runs to its end, Tasks
\* answers what reaches it, and time passes.
Fairness ==
  \A f \in Refs :
    /\ WF_vars(Claim(f)) /\ WF_vars(LeaseExpires(f)) /\ WF_vars(BackoffEnds(f))
    /\ \A g \in Gens : WF_vars(AttemptStep(f, g)) /\ WF_vars(TasksRecord(f, g))

FairSpec == Spec /\ Fairness

-----------------------------------------------------------------------------
(* Properties.                                                             *)

\* The revisions of a ticket are numbered without gap or repeat, and all but the last are
\* delivered: an uncertain delivery is never superseded ("Operators must reconcile
\* uncertain deliveries before another source generation can be admitted").
RevisionsAreSettled ==
  \A i \in Issues :
    /\ {row[f].rev : f \in RowsOf(i)} = 0 .. Cardinality(RowsOf(i)) - 1
    /\ \A f \in RowsOf(i) : row[f].state = "delivered" \/ Latest(f)

\* The work link of a ticket is stored only as Tasks recorded it for that very event, and
\* never changes from one revision to the next.
WorkLinkIsStable ==
  /\ \A f \in Refs : row[f].state = "delivered" => row[f].work = tasks[f]
  /\ \A f, h \in Refs :
       row[f].state = "delivered" /\ row[h].state = "delivered" /\ row[f].issue = row[h].issue
         => row[f].work = row[h].work

\* Each intake has at most one outcome and each outcome event one intake, of the work
\* that was delivered ("Replays converge to one immutable receipt").
OneOutcomePerIntake ==
  /\ \A o \in outcomes : row[o[2]].state = "delivered" /\ row[o[2]].work = o[3]
  /\ \A o, p \in outcomes : o[1] = p[1] \/ o[2] = p[2] => o = p

\* "A changed ticket leaves a stale pending request denied": once its ticket has moved
\* on, a pending row is never delivered and gets no outcome, though Tasks may have
\* recorded its event already.
StaleRequestStaysDenied ==
  [][\A f \in Refs :
       row[f].state # "absent" /\ ticket[row[f].issue].ver # row[f].ver =>
         /\ row[f].state = "pending" => row'[f].state = "pending"
         /\ \A o \in outcomes' \ outcomes : o[2] # f]_vars

\* Task work keeps the same abstract promise as the operational outbox: only a recorded
\* request reaches Tasks, and it reads delivered only after it did.
Outcome(f) == CASE row[f].state = "absent" -> "absent"
               [] row[f].state = "pending" -> "owed"
               [] row[f].state = "delivered" -> "acknowledged"

Promise == INSTANCE FactDelivery WITH
             Facts <- Refs,
             outcome <- [f \in Refs |-> Outcome(f)],
             received <- {f \in Refs : tasks[f] # NoWork}

ImplementsFactDelivery == Promise!DeliverySpec

\* What an operator must reconcile: the ticket, the owner or the manager moved on.
Stranded(f) ==
  /\ row[f].state = "pending"
  /\ \/ ticket[row[f].issue].ver # row[f].ver
     \/ owner # "ready" \/ ~manager
     \/ tasks[f] # NoWork /\ row[f].source \notin {NoWork, tasks[f]}

\* A pending request is in the end delivered unless an operator has to reconcile it.
RequestSettles ==
  \A f \in Refs :
    row[f].state = "pending" ~> row[f].state = "delivered" \/ Stranded(f)

\* Only captured rows name a ticket, and only a captured row has attempts, requests under way
\* or a work at Tasks; a work an attempt holds is the one Tasks recorded (for the proofs).
AttemptsAreReal ==
  \A f \in Refs :
    /\ row[f].issue = NoIssue <=> row[f].state = "absent"
    /\ tasks[f] # NoWork => row[f].state # "absent"
    /\ \A g \in Gens :
         /\ att[f][g].pc # "idle" \/ <<f, g>> \in wire => row[f].state # "absent"
         /\ att[f][g].work \in {NoWork, tasks[f]}

\* A revision was requested after all earlier ones of its ticket were delivered, and takes
\* their work as its source; it is delivered under its source if it has one.
SourceIsLink ==
  /\ \A f, h \in Refs :
       row[f].issue = row[h].issue /\ row[f].issue # NoIssue =>
         /\ row[h].rev = row[f].rev => h = f
         /\ row[h].rev < row[f].rev => row[h].state = "delivered" /\ row[f].source = row[h].work
  /\ \A f \in Refs : row[f].state = "delivered" => row[f].source \in {NoWork, row[f].work}

\* The inductive invariant of module TaskWorkProofs.
IInv ==
  /\ TypeOK /\ AttemptsAreReal /\ SourceIsLink
  /\ RevisionsAreSettled /\ WorkLinkIsStable /\ OneOutcomePerIntake
=============================================================================
