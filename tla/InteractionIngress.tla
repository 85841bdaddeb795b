------------------------- MODULE InteractionIngress -------------------------
(***************************************************************************)
(* Ingress of provider interactions: the route that records an event and   *)
(* dispatches a Temporal workflow for it, the workflow's derivation of an  *)
(* issue, the relay that claims and derives what was not dispatched, and   *)
(* the hourly purge of expired raw text.                                   *)
(*                                                                         *)
(* A derivation reads the event, appends its message to the issue of its   *)
(* source reference and completes the event, in three transactions.  It    *)
(* runs in an attempt <<e, k>> of the workflow of event e, which claims    *)
(* nothing, or in a relay, for each event of its claimed batch in turn.    *)
(* Attempts that timed out run on beside their retry; two relays stand for *)
(* a timed-out drain beside the next.  The envelope admits one source and  *)
(* non-empty references only, so a recorded event is never refused as      *)
(* malformed and no row reaches processing_state failed.  One issue per    *)
(* source reference is the upsert's own conflict key: only what the issue  *)
(* holds of each event is kept.                                            *)
(***************************************************************************)
EXTENDS Naturals, FiniteSets

CONSTANTS
  Events,     \* provider events of one tenant
  Relays,     \* processes that drain
  NoEvent,    \* no event in hand
  Expiring,   \* events old enough to expire (received_at may come with the event)
  Limit,      \* events per claim
  MaxTries,   \* attempts of the derivation activity per workflow
  MaxFaults   \* bound on lost dispatches, errors, crashes and timeouts

ASSUME IngressAssumption ==
  /\ IsFiniteSet(Events) /\ NoEvent \notin Events /\ Expiring \subseteq Events
  /\ Relays \cap (Events \X Nat) = {}
  /\ Limit \in Nat \ {0} /\ MaxTries \in Nat \ {0} /\ MaxFaults \in Nat

Tries == 1 .. MaxTries
Attempts == Events \X Tries
Procs == Relays \cup Attempts

VARIABLES
  state,    \* state[e]: interaction_events.processing_state
  text,     \* text[e]: interaction_events.text, the event's own or redacted
  outbox,   \* outbox[e]: interaction_outbox.status
  copies,   \* copies[e][t]: messages of e with text t in its issue
  lost,     \* events redacted before their own text stood in an issue
  posts,    \* events recorded by a request that has not dispatched them yet
  wf,       \* wf[e]: the workflow support-interaction:tenant:e
  run,      \* run[p]: the derivation p is in
  left,     \* left[w]: claimed events relay w has not finished with
  faults    \* faults so far, at most MaxFaults

vars == <<state, text, outbox, copies, lost, posts, wf, run, left, faults>>
rows == <<state, text, outbox>>

Texts == {"own", "redacted"}
Steps == {"started", "read", "derived", "completed"}
Idle == [pc |-> "idle", event |-> NoEvent, text |-> "own"]
Run == [pc : Steps \cup {"idle", "thrown"}, event : Events \cup {NoEvent}, text : Texts]

Started(e) == [Idle EXCEPT !.pc = "started", !.event = e]
Running(p) == run[p].pc \in Steps

\* Shapes of the tables and of the local state; an event has its outbox row from the
\* transaction that recorded it, and a running derivation has its event.
TypeOK ==
  /\ state \in [Events -> {"absent", "pending", "processing", "completed"}]
  /\ text \in [Events -> Texts]
  /\ outbox \in [Events -> {"absent", "pending", "delivered"}]
  /\ copies \in [Events -> [Texts -> Nat]]
  /\ lost \subseteq Events
  /\ posts \subseteq Events
  /\ wf \in [Events -> {"none", "open", "completed", "failed"}]
  /\ run \in [Procs -> Run]
  /\ left \in [Relays -> SUBSET Events]
  /\ faults \in 0 .. MaxFaults
  /\ \A e \in Events :
       /\ state[e] = "absent" <=> outbox[e] = "absent"
       /\ state[e] = "absent" => e \notin posts /\ wf[e] = "none"
  /\ \A p \in Procs : Running(p) => run[p].event \in Events /\ state[run[p].event] # "absent"

Init ==
  /\ state = [e \in Events |-> "absent"]
  /\ text = [e \in Events |-> "own"]
  /\ outbox = [e \in Events |-> "absent"]
  /\ copies = [e \in Events |-> [t \in Texts |-> 0]]
  /\ lost = {}
  /\ posts = {}
  /\ wf = [e \in Events |-> "none"]
  /\ run = [p \in Procs |-> Idle]
  /\ left = [w \in Relays |-> {}]
  /\ faults = 0

Fault == faults < MaxFaults /\ faults' = faults + 1
Goto(p, pc) == run' = [run EXCEPT ![p].pc = pc]

-----------------------------------------------------------------------------
(* The route POST /api/private/interaction-events.                         *)

\* Mutant: the outbox row is written by another transaction, for a repeated delivery.
RecordInTwo(e) ==
  /\ e \notin posts
  /\ posts' = posts \cup {e}
  /\ state' = [state EXCEPT ![e] = IF @ = "absent" THEN "pending" ELSE @]
  /\ outbox' = [outbox EXCEPT ![e] = IF state[e] # "absent" THEN "pending" ELSE @]
  /\ UNCHANGED <<text, copies, lost, wf, run, left, faults>>

\* A first delivery writes the event and its outbox row in one transaction, a repeated one
\* finds them; both go on to dispatch.
Record(e) ==
  /\ e \notin posts
  /\ posts' = posts \cup {e}
  /\ state' = [state EXCEPT ![e] = IF @ = "absent" THEN "pending" ELSE @]
  /\ outbox' = [outbox EXCEPT ![e] = IF @ = "absent" THEN "pending" ELSE @]
  /\ UNCHANGED <<text, copies, lost, wf, run, left, faults>>

\* Workflow ids may be used again after a failure only.  The next execution starts when no
\* attempt of the failed one is left (bound: the attempts are used again).
Dispatch(e) ==
  /\ e \in posts
  /\ posts' = posts \ {e}
  /\ IF wf[e] \in {"open", "completed"} THEN UNCHANGED <<wf, run>>
     ELSE /\ \A k \in Tries : ~Running(<<e, k>>)
          /\ wf' = [wf EXCEPT ![e] = "open"]
          /\ run' = [run EXCEPT ![<<e, 1>>] = Started(e)]
  /\ UNCHANGED <<rows, copies, lost, left, faults>>

\* Temporal is not reachable, or the process ends: the error is swallowed.
DispatchLost(e) ==
  /\ e \in posts
  /\ Fault
  /\ posts' = posts \ {e}
  /\ UNCHANGED <<rows, copies, lost, wf, run, left>>

-----------------------------------------------------------------------------
(* The derivation.                                                         *)

\* A scheduled attempt begins and reads its event; a relay reads in Take.
Read(p) ==
  /\ run[p].pc = "started"
  /\ run' = [run EXCEPT ![p].pc = "read", ![p].text = text[run[p].event]]
  /\ UNCHANGED <<rows, copies, lost, posts, wf, left, faults>>

\* Mutant: a conflict replaces the messages instead of appending to them.
Replaced(c, t) == [u \in Texts |-> IF u = t THEN 1 ELSE 0]

\* ON CONFLICT: messages = issues.messages || EXCLUDED.messages.
Appended(c, t) == [c EXCEPT ![t] = @ + 1]

Upsert(p) ==
  /\ run[p].pc = "read"
  /\ copies' = [copies EXCEPT ![run[p].event] = Appended(@, run[p].text)]
  /\ run' = [run EXCEPT ![p].pc = "derived", ![p].text = "own"]
  /\ UNCHANGED <<rows, lost, posts, wf, left, faults>>

\* Mutant: the event is completed before the issue is written.
CompletesEarly(p) == run[p].pc \in {"read", "derived"}

\* completeInteraction comes after the upsert and looks at neither state nor lock.
Completes(p) == run[p].pc = "derived"

Complete(p) ==
  /\ Completes(p)
  /\ state' = [state EXCEPT ![run[p].event] = "completed"]
  /\ Goto(p, "completed")
  /\ UNCHANGED <<text, outbox, copies, lost, posts, wf, left, faults>>

-----------------------------------------------------------------------------
(* The workflow around it.                                                 *)

Latest(e, k) == wf[e] = "open" /\ \A m \in Tries : m > k => run[<<e, m>>].pc = "idle"

\* The result of the attempt Temporal waits for closes the workflow, a late one is ignored.
Return(e, k) ==
  /\ run[<<e, k>>].pc = "completed"
  /\ run' = [run EXCEPT ![<<e, k>>] = Idle]
  /\ wf' = [wf EXCEPT ![e] = IF Latest(e, k) THEN "completed" ELSE @]
  /\ UNCHANGED <<rows, copies, lost, posts, left, faults>>

\* An attempt throws, or its process ends; of a late one nobody takes notice.
Throw(e, k) ==
  /\ Fault
  /\ Running(<<e, k>>)
  /\ run' = [run EXCEPT ![<<e, k>>] = IF Latest(e, k) THEN [Idle EXCEPT !.pc = "thrown"] ELSE Idle]
  /\ UNCHANGED <<rows, copies, lost, posts, wf, left>>

\* Temporal gives up the latest attempt, which is then in state t: it tries again or fails
\* the workflow.
GiveUp(e, k, t) ==
  /\ Latest(e, k)
  /\ run' = [p \in Procs |-> IF p = <<e, k + 1>> THEN Started(e)
                             ELSE IF p = <<e, k>> THEN t ELSE run[p]]
  /\ wf' = [wf EXCEPT ![e] = IF k + 1 \in Tries THEN @ ELSE "failed"]
  /\ UNCHANGED <<rows, copies, lost, posts, left>>

AfterThrow(e, k) == run[<<e, k>>].pc = "thrown" /\ GiveUp(e, k, Idle) /\ UNCHANGED faults

\* Thirty seconds passed: the attempt runs on, unheard.
AfterTimeout(e, k) == Running(<<e, k>>) /\ GiveUp(e, k, run[<<e, k>>]) /\ Fault

-----------------------------------------------------------------------------
(* The relay.                                                              *)

\* Mutant: a claim takes what another relay is at work on.
DueAgain(e) == state[e] \in {"pending", "processing"}

\* Mutant: the relay leaves to Temporal what was dispatched once.
DueUndispatched(e) == state[e] = "pending" /\ wf[e] = "none"

\* claim_interaction_events: pending (or failed and due, which no row is); nothing selects
\* processing again.
Due(e) == state[e] = "pending"

\* received_at may come with the event, so any Limit due events may be the oldest.
Claim(w) ==
  /\ left[w] = {}
  /\ \E S \in SUBSET {e \in Events : Due(e)} :
       /\ S # {} /\ Cardinality(S) <= Limit
       /\ left' = [left EXCEPT ![w] = S]
       /\ state' = [e \in Events |-> IF e \in S THEN "processing" ELSE state[e]]
  /\ UNCHANGED <<text, outbox, copies, lost, posts, wf, run, faults>>

\* The loop goes on with the next event of the batch, and reads it first.
Take(w, e) ==
  /\ run[w].pc = "idle" /\ e \in left[w]
  /\ run' = [run EXCEPT ![w] = [pc |-> "read", event |-> e, text |-> text[e]]]
  /\ UNCHANGED <<rows, copies, lost, posts, wf, left, faults>>

\* The event in hand is over, delivered or failed; the batch goes on.
Drop(w) ==
  /\ run' = [run EXCEPT ![w] = Idle]
  /\ left' = [left EXCEPT ![w] = @ \ {run[w].event}]

Deliver(w) ==
  /\ run[w].pc = "completed"
  /\ outbox' = [outbox EXCEPT ![run[w].event] = "delivered"]
  /\ Drop(w)
  /\ UNCHANGED <<state, text, copies, lost, posts, wf, faults>>

\* The catch counts the failure and leaves the row as it is.
RelayThrow(w) ==
  /\ Fault
  /\ Running(w)
  /\ Drop(w)
  /\ UNCHANGED <<rows, copies, lost, posts, wf>>

\* The process ends; the claimed rows stay in processing.
RelayCrash(w) ==
  /\ Fault
  /\ left[w] # {}
  /\ run' = [run EXCEPT ![w] = Idle]
  /\ left' = [left EXCEPT ![w] = {}]
  /\ UNCHANGED <<rows, copies, lost, posts, wf>>

-----------------------------------------------------------------------------
(* Retention.                                                              *)

\* One update redacts the expired events, whatever their processing state.
Purge ==
  /\ \E S \in SUBSET {e \in Expiring : state[e] # "absent" /\ text[e] = "own"} :
       /\ S # {}
       /\ text' = [e \in Events |-> IF e \in S THEN "redacted" ELSE text[e]]
       /\ lost' = lost \cup {e \in S : copies[e]["own"] = 0}
  /\ UNCHANGED <<state, outbox, copies, posts, wf, run, left, faults>>

-----------------------------------------------------------------------------

Next ==
  \/ \E e \in Events : Record(e) \/ Dispatch(e) \/ DispatchLost(e)
  \/ \E p \in Procs : Read(p) \/ Upsert(p) \/ Complete(p)
  \/ \E e \in Events, k \in Tries :
       Return(e, k) \/ Throw(e, k) \/ AfterThrow(e, k) \/ AfterTimeout(e, k)
  \/ \E w \in Relays :
       Claim(w) \/ (\E e \in Events : Take(w, e)) \/ Deliver(w) \/ RelayThrow(w) \/ RelayCrash(w)
  \/ Purge

Spec == Init /\ [][Next]_vars

\* A request that recorded goes on to dispatch, a running derivation goes on, Temporal
\* answers a throw, and a relay is scheduled every minute and works its batch off.
Fairness ==
  /\ \A e \in Events : WF_vars(Dispatch(e))
  /\ \A p \in Procs : WF_vars(Read(p)) /\ WF_vars(Upsert(p)) /\ WF_vars(Complete(p))
  /\ \A e \in Events, k \in Tries : WF_vars(Return(e, k)) /\ WF_vars(AfterThrow(e, k))
  /\ \A w \in Relays : /\ WF_vars(Claim(w)) /\ WF_vars(Deliver(w))
                       /\ WF_vars(\E e \in Events : Take(w, e))

FairSpec == Spec /\ Fairness

-----------------------------------------------------------------------------
(* Properties.                                                             *)

\* Whoever completes an event, and however often it is derived, a completed event's message
\* stands in an issue, with the event's own text unless the text expired before any
\* derivation had written it: no purge takes it away, although derivations may read before
\* the purge and write after it, or the other way round.  An outbox row is delivered only
\* for a completed event.
CompletedIsDerived ==
  \A e \in Events :
    /\ state[e] = "completed" => /\ copies[e]["own"] + copies[e]["redacted"] > 0
                                 /\ copies[e]["own"] > 0 \/ e \in lost
    /\ outbox[e] = "delivered" => state[e] = "completed"

\* No event is in the batches of two relays, not even when one of them has long timed out,
\* and a relay works on events of its own batch only.
OneRelayPerEvent ==
  /\ \A v, w \in Relays : v # w => left[v] \cap left[w] = {}
  /\ \A w \in Relays : Running(w) => run[w].event \in left[w]

\* What a derivation has behind it: what it read, wrote and completed stays so.  A redacted
\* copy comes from a redacted row, and redaction spares the copies (for the proofs).
StepsAreKept ==
  /\ \A p \in Procs :
       /\ run[p].pc = "read" /\ run[p].text = "redacted" => text[run[p].event] = "redacted"
       /\ run[p].pc \in {"derived", "completed"} =>
            copies[run[p].event]["own"] + copies[run[p].event]["redacted"] > 0
       /\ run[p].pc = "completed" => state[run[p].event] = "completed"
  /\ \A e \in Events :
       /\ copies[e]["redacted"] > 0 => text[e] = "redacted"
       /\ text[e] = "redacted" => copies[e]["own"] > 0 \/ e \in lost
  /\ \A w \in Relays : \A e \in left[w] : state[e] \in {"processing", "completed"}

\* The inductive invariant of module InteractionIngressProofs.
IInv == TypeOK /\ StepsAreKept /\ CompletedIsDerived /\ OneRelayPerEvent

\* Left alone in processing: no relay has the event, and no workflow or request is under way.
Abandoned(e) ==
  /\ state[e] = "processing"
  /\ \A w \in Relays : e \notin left[w]
  /\ \A k \in Tries : ~Running(<<e, k>>)
  /\ wf[e] # "open" /\ e \notin posts

\* Every recorded event is derived in the end, or its relay failed or died on it after its
\* dispatch had failed, too: nothing else can keep it.
EveryEventSettles ==
  \A e \in Events : state[e] = "pending" ~> state[e] = "completed" \/ Abandoned(e)

\* The relay "guarantees complete ingress recovery" of events that were persisted but not
\* dispatched or completed (a comment of the relay): each one is completed in the end.
EveryEventRecovered ==
  \A e \in Events : state[e] = "pending" ~> state[e] = "completed"
=============================================================================
