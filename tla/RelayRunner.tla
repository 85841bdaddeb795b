----------------------------- MODULE RelayRunner ------------------------------
(***************************************************************************)
(* The chat relay process: one loop per source (RelayRunner.run) that      *)
(* claims a batch of events and publishes, completes or fails them one by  *)
(* one (processChatOutboxBatch, processRuntimeDeliveryBatch), and the      *)
(* drain that stops the loops under one deadline and ends the process.     *)
(*                                                                         *)
(* The rows are in the database of the source and their SQL functions are  *)
(* not in the repository: a claim leases due rows up to the limit.  Events *)
(* are numbered in the order a batch holds them.  A call that is under way *)
(* when the process ends has either taken effect before or does not.       *)
(* forceClose and the second close of the drain are followed at once by    *)
(* process.exit: both are part of Exit.                                    *)
(***************************************************************************)
EXTENDS Naturals, FiniteSets

CONSTANTS
  Sources,     \* the adapters
  Guarded,     \* those whose completion is bound to the lease (Runtime)
  MaxEvents,   \* events of all outboxes
  SourceOf,    \* SourceOf[e]: the source that carries e
  Limit,       \* batch size
  MaxRuns,     \* bound on the starts of the process
  MaxFaults    \* bound on lost calls, calls that never return, slow batches and crashes

Events == 1 .. MaxEvents

ASSUME RelayAssumption ==
  /\ Guarded \subseteq Sources /\ MaxEvents \in Nat /\ SourceOf \in [Events -> Sources]
  /\ Limit \in Nat \ {0} /\ MaxRuns \in Nat \ {0} /\ MaxFaults \in Nat

VARIABLES
  proc,      \* the process: up, draining after a signal, or gone
  runs,      \* its starts so far
  deadline,  \* the drain's ten-second timer
  loop,      \* loop[s]: where the loop of s stands and what is left of its batch
  hung,      \* sources whose awaited call never returns
  adapter,   \* adapter[s]: close() not called, under way, or done
  row,       \* row[e]: the outbox row
  pub,       \* pub[e]: not published, once, or again
  hurt,      \* history: sources met by a fault or cut off by the deadline
  faults

procVars == <<proc, runs, deadline, adapter>>
vars == <<procVars, loop, hung, row, pub, hurt, faults>>

Working == {"claiming", "publishing", "completing", "failing"}
Idle(pc) == [pc |-> pc, batch |-> {}]
Pos == [pc : {"ready", "ended"} \cup Working, batch : SUBSET Events]

TypeOK ==
  /\ proc \in {"up", "draining", "gone"} /\ runs \in 1 .. MaxRuns
  /\ deadline \in {"off", "armed", "passed"}
  /\ loop \in [Sources -> Pos] /\ hung \subseteq Sources
  /\ adapter \in [Sources -> {"open", "closing", "closed"}]
  /\ row \in [Events -> {"pending", "leased", "expired", "delivered"}]
  /\ pub \in [Events -> 0 .. 2]
  /\ hurt \subseteq Sources /\ faults \in 0 .. MaxFaults

Init ==
  /\ proc = "up" /\ runs = 1 /\ deadline = "off"
  /\ loop = [s \in Sources |-> Idle("ready")] /\ hung = {}
  /\ adapter = [s \in Sources |-> "open"]
  /\ row = [e \in Events |-> "pending"] /\ pub = [e \in Events |-> 0]
  /\ hurt = {} /\ faults = 0

FaultOf(S) == faults < MaxFaults /\ faults' = faults + 1 /\ hurt' = hurt \cup S
NoFault == UNCHANGED <<hurt, faults>>
Stands(s, pc) == proc # "gone" /\ loop[s].pc = pc /\ s \notin hung
Goto(s, pc) == loop' = [loop EXCEPT ![s].pc = pc]

-----------------------------------------------------------------------------
(* RelayRunner.run: the loop of one source.                                *)

\* Mutant: the sources take turns.
BeginInTurn(s) ==
  /\ Stands(s, "ready") /\ proc = "up"
  /\ \A r \in Sources : loop[r].pc \notin Working
  /\ Goto(s, "claiming")
  /\ UNCHANGED <<procVars, hung, row, pub>> /\ NoFault

\* The loop goes round until the signal is aborted; the sleep between two rounds ends by
\* its timer, or at once with the abort, and stands for the wait in "ready".
Begin(s) ==
  /\ Stands(s, "ready") /\ proc = "up"
  /\ Goto(s, "claiming")
  /\ UNCHANGED <<procVars, hung, row, pub>> /\ NoFault

End(s) ==
  /\ Stands(s, "ready") /\ proc = "draining"
  /\ Goto(s, "ended")
  /\ UNCHANGED <<procVars, hung, row, pub>> /\ NoFault

-----------------------------------------------------------------------------
(* One batch.                                                              *)

Due(s) == {e \in Events : SourceOf[e] = s /\ row[e] \in {"pending", "expired"}}
Batches(s) ==
  {B \in SUBSET Due(s) : Cardinality(B) = (IF Cardinality(Due(s)) < Limit THEN Cardinality(Due(s)) ELSE Limit)}
Leased(B) == [e \in Events |-> IF e \in B THEN "leased" ELSE row[e]]

\* The event in hand, the first of those left in the batch.
At(s) == CHOOSE e \in loop[s].batch : \A d \in loop[s].batch : e <= d

\* The batch goes on with the next event; the loop waits when there is none.
Work(s, B) ==
  loop' = [loop EXCEPT ![s] = [pc |-> IF B = {} THEN "ready" ELSE "publishing", batch |-> B]]
GoOn(s) == Work(s, loop[s].batch \ {At(s)})

Claim(s) ==
  /\ Stands(s, "claiming")
  /\ \E B \in Batches(s) : row' = Leased(B) /\ Work(s, B)
  /\ UNCHANGED <<procVars, hung, pub>> /\ NoFault

\* The claim throws; it may have leased its rows.
ClaimThrows(s) ==
  /\ Stands(s, "claiming") /\ FaultOf({s})
  /\ \E B \in Batches(s) \cup {{}} : row' = Leased(B)
  /\ Work(s, {})
  /\ UNCHANGED <<procVars, hung, pub>>

Published(e) == pub' = [pub EXCEPT ![e] = IF @ = 0 THEN 1 ELSE 2]

Publish(s) ==
  /\ Stands(s, "publishing")
  /\ Published(At(s)) /\ Goto(s, "completing")
  /\ UNCHANGED <<procVars, hung, row>> /\ NoFault

\* Redis may have the entry all the same.
PublishThrows(s) ==
  /\ Stands(s, "publishing") /\ FaultOf({s})
  /\ Published(At(s)) \/ UNCHANGED pub
  /\ Goto(s, "failing")
  /\ UNCHANGED <<procVars, hung, row>>

Deliver(e) == row' = [row EXCEPT ![e] = "delivered"]

\* A completion whose lease ran out is refused where it is bound to the lease ("cannot
\* acknowledge this attempt"); the support function may take it or not, and nobody looks.
Complete(s) ==
  /\ Stands(s, "completing")
  /\ \/ row[At(s)] = "leased" /\ Deliver(At(s))
     \/ row[At(s)] = "expired" /\ s \notin Guarded /\ Deliver(At(s))
     \/ row[At(s)] = "expired" /\ UNCHANGED row
  /\ GoOn(s)
  /\ UNCHANGED <<procVars, hung, pub>> /\ NoFault

CompleteThrows(s) ==
  /\ Stands(s, "completing") /\ FaultOf({s})
  /\ UNCHANGED row \/ (row[At(s)] = "leased" /\ Deliver(At(s)))
  /\ Goto(s, "failing")
  /\ UNCHANGED <<procVars, hung, pub>>

\* fail gives a lease back; a row that was delivered, or whose lease ran out, stays.
Fail(s) ==
  /\ Stands(s, "failing")
  /\ row' = [row EXCEPT ![At(s)] = IF @ = "leased" THEN "pending" ELSE @]
  /\ GoOn(s)
  /\ UNCHANGED <<procVars, hung, pub>> /\ NoFault

\* The outage that made the event fail may make this call throw too.  In the Runtime batch
\* the next event is still tried; in the support batch the throw leaves the loop over the
\* events, and the leases of the rest run out.
FailThrows(s) ==
  /\ Stands(s, "failing")
  /\ IF s \in Guarded THEN GoOn(s) ELSE Work(s, {})
  /\ UNCHANGED <<procVars, hung, row, pub>> /\ NoFault

\* A call that never returns.
Hang(s) ==
  /\ loop[s].pc \in Working /\ Stands(s, loop[s].pc) /\ FaultOf({s})
  /\ hung' = hung \cup {s}
  /\ UNCHANGED <<procVars, loop, row, pub>>

\* Thirty seconds pass; as a fault under a batch that is still at work.
LeaseExpires(e) ==
  /\ row[e] = "leased"
  /\ IF e \in loop[SourceOf[e]].batch /\ SourceOf[e] \notin hung THEN FaultOf({SourceOf[e]}) ELSE NoFault
  /\ row' = [row EXCEPT ![e] = "expired"]
  /\ UNCHANGED <<procVars, loop, hung, pub>>

-----------------------------------------------------------------------------
(* RelayRunner.stop and drain, and the process.                            *)

\* SIGTERM, SIGINT or an error of the health server; another of these while the process
\* drains changes nothing. But process.once removes the handler of the signal it has had: the
\* same signal again ends the process at once, which is a Crash.
Stop ==
  /\ proc = "up"
  /\ proc' = "draining" /\ deadline' = "armed"
  /\ UNCHANGED <<runs, adapter, loop, hung, row, pub>> /\ NoFault

\* Each source is closed on its own once its loop has ended.
Close(s) ==
  /\ proc = "draining" /\ loop[s].pc = "ended" /\ adapter[s] = "open"
  /\ adapter' = [adapter EXCEPT ![s] = "closing"]
  /\ UNCHANGED <<proc, runs, deadline, loop, hung, row, pub>> /\ NoFault

Closed(s) ==
  /\ proc = "draining" /\ adapter[s] = "closing" /\ s \notin hung
  /\ adapter' = [adapter EXCEPT ![s] = "closed"]
  /\ UNCHANGED <<proc, runs, deadline, loop, hung, row, pub>> /\ NoFault

\* pool.end() or quit() never returns.
CloseHangs(s) ==
  /\ proc = "draining" /\ adapter[s] = "closing" /\ s \notin hung /\ FaultOf({s})
  /\ hung' = hung \cup {s}
  /\ UNCHANGED <<procVars, loop, row, pub>>

DeadlinePasses ==
  /\ proc = "draining" /\ deadline = "armed"
  /\ deadline' = "passed"
  /\ UNCHANGED <<proc, runs, adapter, loop, hung, row, pub>> /\ NoFault

\* Mutant: the drain is over with the first source.
DrainedByOne == deadline = "passed" \/ \E s \in Sources : adapter[s] = "closed"

\* Mutant: no deadline bounds the drain.
DrainedByAll == \A s \in Sources : adapter[s] = "closed"

\* The race of the drain: every source is closed, or the deadline passed.
Drained == deadline = "passed" \/ \A s \in Sources : adapter[s] = "closed"

Gone ==
  /\ proc' = "gone" /\ deadline' = "off" /\ hung' = {}
  /\ loop' = [s \in Sources |-> Idle("ended")]
  /\ adapter' = [s \in Sources |-> "open"]
  /\ UNCHANGED <<runs, row, pub>>

Exit ==
  /\ proc = "draining" /\ Drained
  /\ hurt' = hurt \cup (IF deadline = "passed" THEN {s \in Sources : loop[s].pc \in Working} ELSE {})
  /\ Gone
  /\ UNCHANGED faults

Crash == proc # "gone" /\ FaultOf(Sources) /\ Gone

\* The orchestrator starts the worker again.
Start ==
  /\ proc = "gone" /\ runs < MaxRuns
  /\ proc' = "up" /\ runs' = runs + 1
  /\ loop' = [s \in Sources |-> Idle("ready")]
  /\ UNCHANGED <<deadline, adapter, hung, row, pub>> /\ NoFault

-----------------------------------------------------------------------------
LoopStep(s) == Begin(s) \/ End(s) \/ Claim(s) \/ Publish(s) \/ Complete(s) \/ Fail(s)
LoopFault(s) == ClaimThrows(s) \/ PublishThrows(s) \/ CompleteThrows(s) \/ FailThrows(s) \/ Hang(s)
Finish == Exit \/ Start

Next ==
  \/ \E s \in Sources : LoopStep(s) \/ LoopFault(s) \/ Close(s) \/ Closed(s) \/ CloseHangs(s)
  \/ \E e \in Events : LeaseExpires(e)
  \/ Stop \/ DeadlinePasses \/ Finish \/ Crash

Spec == Init /\ [][Next]_vars

\* Calls return unless they hang, timers fire, leases run out, the process ends when it is
\* drained and is started again. Nothing forces a signal or a fault.
Fairness ==
  /\ \A s \in Sources : WF_vars(LoopStep(s)) /\ WF_vars(Close(s) \/ Closed(s))
  /\ \A e \in Events : WF_vars(LeaseExpires(e))
  /\ WF_vars(DeadlinePasses) /\ WF_vars(Finish)

FairSpec == Spec /\ Fairness

-----------------------------------------------------------------------------
(* Properties.                                                             *)

\* A source that met no fault of its own and that no deadline cut off publishes nothing
\* twice and leaves no lease behind, over any number of stops and restarts and whatever
\* happens to the other source ("Each source drains and closes independently").
UnhurtRepeatsNothing ==
  \A e \in Events :
    SourceOf[e] \notin hurt =>
      /\ pub[e] < 2 /\ (pub[e] = 1 => row[e] # "pending")
      /\ row[e] = "leased" => e \in loop[SourceOf[e]].batch
      /\ row[e] # "expired"

\* A signal ends the process, though batches or close calls never return ("one common
\* 10-second deadline bounds the whole shutdown").
StopResolves == proc = "draining" ~> proc = "gone"

\* An event is delivered in the end, over crashes and restarts, unless its own source hangs
\* or the process is not started again: a stuck source does not hold up the other.
EveryEventDelivered ==
  \A e \in Events :
    row[e] # "delivered" ~>
      row[e] = "delivered" \/ SourceOf[e] \in hung \/ (proc = "gone" /\ runs = MaxRuns)

\* A loop holds a batch of its own source just while it works on it (for the proofs).
InHand == {"publishing", "completing", "failing"}
BatchShape ==
  \A s \in Sources :
    /\ \A e \in loop[s].batch : SourceOf[e] = s
    /\ loop[s].batch = {} <=> loop[s].pc \notin InHand
    /\ proc = "gone" => loop[s].batch = {}

\* A source is closed only by the drain, after its loop; a hanging call is a fault.
CloseOrder ==
  /\ hung \subseteq hurt
  /\ \A s \in Sources : adapter[s] # "open" => proc = "draining" /\ loop[s].pc = "ended"

\* Where an event of an unhurt source stands: leased and published once exactly if it is the
\* one being completed while it is in the batch, untouched or done with otherwise.
Stage(e) ==
  LET s == SourceOf[e]
  IN s \notin hurt =>
       /\ e \in loop[s].batch =>
            /\ row[e] = "leased" /\ loop[s].pc # "failing"
            /\ pub[e] = (IF loop[s].pc = "completing" /\ e = At(s) THEN 1 ELSE 0)
       /\ e \notin loop[s].batch =>
            \/ row[e] = "pending" /\ pub[e] = 0
            \/ row[e] = "delivered" /\ pub[e] = 1

\* The inductive invariant of module RelayRunnerProofs.
IInv == TypeOK /\ BatchShape /\ CloseOrder /\ \A e \in Events : Stage(e)
=============================================================================
