------------------------------ MODULE WriteBack -------------------------------
(***************************************************************************)
(* Write-back to the source system through the action gateway: requests of *)
(* the source-action route of one Zendesk issue, and of the gateway client *)
(* that employees and automations use (requestAction), with the receipts   *)
(* both keep.                                                              *)
(*                                                                         *)
(* A write is an idempotency key: the route derives it from action and     *)
(* payload, so equal mutations are one write; callers of the client bring  *)
(* or draw their own.  The gateway (external) answers a key it knows with  *)
(* what it has recorded for it, and may try a failed one again.  Two       *)
(* conversions lose what a status said: the HTTP client takes an answer    *)
(* without a status for completed, and requestAction answers "executed"    *)
(* from any receipt that is not failed.                                    *)
(***************************************************************************)
EXTENDS Naturals, FiniteSets

CONSTANTS
  Requests,
  RouteWrites,   \* keys of the route
  ClientWrites,  \* keys of requestAction, of ticket operations
  Held,          \* those of critical operations, or with requiresApproval
  Notes,         \* route writes that carry an internal note only
  Payload,       \* Payload[w]: what the write says
  NoWrite,
  MaxMoves,      \* bound on the changes of mode and connection
  MaxFaults      \* bound on failed queries, refused or lost calls and crashes

Writes == RouteWrites \cup ClientWrites

ASSUME WriteBackAssumption ==
  /\ RouteWrites \cap ClientWrites = {} /\ NoWrite \notin Writes
  /\ Held \subseteq ClientWrites /\ Notes \subseteq RouteWrites /\ DOMAIN Payload = Writes
  /\ MaxMoves \in Nat /\ MaxFaults \in Nat

VARIABLES
  observe,    \* the tenant's policy is in observe mode
  connected,  \* its Zendesk connection is connected
  receipt,    \* receipt[w]: status of the action_receipts row of key w
  done,       \* done[w]: what the gateway recorded under key w (external)
  issue,      \* the write the local issue shows
  req,        \* req[r]: one request
  wire,       \* calls of the gateway not handled yet
  presumed,   \* writes taken for completed that the gateway had not (history)
  moves, faults

vars == <<observe, connected, receipt, done, issue, req, wire, presumed, moves, faults>>

Statuses == {"failed", "accepted", "completed"}   \* what the gateway answers
Receipts == Statuses \cup {"executed", "awaiting_approval"}
Asking == {"mode", "connection", "client key", "key"}
Calling == {"lookup", "approval", "source"}

NoRequest == [pc |-> "idle", write |-> NoWrite, header |-> NoWrite, status |-> "none",
              answer |-> "none", shown |-> "none"]
Answers == {"rejected", "error", "failed", "awaiting", "success", "replayed", "repeated"}
Request == [pc : {"idle", "sent", "answered", "updating", "over"} \cup Asking \cup Calling,
            write : Writes \cup {NoWrite}, header : Writes \cup {NoWrite},
            status : {"none"} \cup Statuses,
            answer : {"none"} \cup Answers,
            shown : {"none"} \cup Receipts]

TypeOK ==
  /\ observe \in BOOLEAN /\ connected \in BOOLEAN
  /\ receipt \in [Writes -> {"none"} \cup Receipts]
  /\ done \in [Writes -> {"none"} \cup Statuses]
  /\ issue \in RouteWrites \cup {NoWrite}
  /\ req \in [Requests -> Request]
  /\ wire \subseteq Requests \X Writes /\ presumed \subseteq Writes
  /\ moves \in 0 .. MaxMoves /\ faults \in 0 .. MaxFaults

Init ==
  /\ observe = FALSE /\ connected = TRUE
  /\ receipt = [w \in Writes |-> "none"] /\ done = [w \in Writes |-> "none"]
  /\ issue = NoWrite
  /\ req = [r \in Requests |-> NoRequest] /\ wire = {} /\ presumed = {}
  /\ moves = 0 /\ faults = 0

Fault == faults < MaxFaults /\ faults' = faults + 1
Move == moves < MaxMoves /\ moves' = moves + 1
Local == UNCHANGED <<observe, connected, done, presumed, moves>>

Goto(r, pc) == req' = [req EXCEPT ![r].pc = pc]

\* A request ends with an answer, and the answer may show the receipt of a key.
Ends(r, answer, w, shown) ==
  req' = [req EXCEPT ![r] = [NoRequest EXCEPT !.pc = "over", !.answer = answer, !.write = w,
                                             !.shown = shown]]
Over(r, answer) == Ends(r, answer, NoWrite, "none")

-----------------------------------------------------------------------------
(* The tenant's policy and source connection change under way.             *)

SetMode ==
  /\ Move /\ observe' = ~observe
  /\ UNCHANGED <<connected, receipt, done, issue, req, wire, presumed, faults>>
SetConnection ==
  /\ Move /\ connected' = ~connected
  /\ UNCHANGED <<observe, receipt, done, issue, req, wire, presumed, faults>>

-----------------------------------------------------------------------------
(* POST issues/[id]/source-action, up to the call.                         *)

\* An authorized request of a valid action on a Zendesk issue, with or without a key of
\* the client in its header.
Ask(r, w, header) ==
  /\ req[r].pc = "idle"
  /\ req' = [req EXCEPT ![r] = [NoRequest EXCEPT !.pc = "mode", !.write = w, !.header = header]]
  /\ Local /\ UNCHANGED <<receipt, issue, wire, faults>>

CheckMode(r) ==
  /\ req[r].pc = "mode"
  /\ IF observe THEN Over(r, "rejected") ELSE Goto(r, "connection")
  /\ Local /\ UNCHANGED <<receipt, issue, wire, faults>>

CheckConnection(r) ==
  /\ req[r].pc = "connection"
  /\ IF connected THEN Goto(r, IF req[r].header = NoWrite THEN "key" ELSE "client key")
     ELSE Over(r, "rejected")
  /\ Local /\ UNCHANGED <<receipt, issue, wire, faults>>

\* A receipt under the client's key: with another payload a conflict, and sometimes with
\* the same one, for the comparison is of the order of its fields too.
LookupClientKey(r) ==
  /\ req[r].pc = "client key"
  /\ LET h == req[r].header
     IN IF receipt[h] = "none" THEN req' = [req EXCEPT ![r].pc = "key", ![r].header = NoWrite]
        ELSE \/ Over(r, "rejected")
             \/ Payload[h] = Payload[req[r].write] /\ Ends(r, "replayed", h, receipt[h])
  /\ Local /\ UNCHANGED <<receipt, issue, wire, faults>>

Send(r) == Goto(r, "sent") /\ wire' = wire \cup {<<r, req[r].write>>}

\* A receipt under the derived key is replayed, whatever its status; otherwise the call.
LookupKey(r) ==
  /\ req[r].pc = "key"
  /\ LET w == req[r].write
     IN IF receipt[w] # "none" THEN Ends(r, "replayed", w, receipt[w]) /\ UNCHANGED wire ELSE Send(r)
  /\ Local /\ UNCHANGED <<receipt, issue, faults>>

\* A query before the call throws.
AskFails(r) ==
  /\ req[r].pc \in Asking /\ Fault
  /\ Over(r, "error")
  /\ Local /\ UNCHANGED <<receipt, issue, wire>>

-----------------------------------------------------------------------------
(* requestAction of the client, up to the call.                            *)

AskClient(r, w) ==
  /\ req[r].pc = "idle"
  /\ req' = [req EXCEPT ![r] = [NoRequest EXCEPT !.pc = "lookup", !.write = w]]
  /\ Local /\ UNCHANGED <<receipt, issue, wire, faults>>

\* What requestAction answers from a receipt: also one that awaits approval was executed.
ClientSays(status) == IF status = "failed" THEN "failed" ELSE "executed"

\* A repeated operation is answered from its receipt. A failed lookup is ignored.
LookupReceipt(r) ==
  /\ req[r].pc = "lookup"
  /\ LET w == req[r].write
     IN \/ /\ IF receipt[w] # "none" THEN Ends(r, "repeated", w, ClientSays(receipt[w]))
              ELSE Goto(r, "approval")
           /\ UNCHANGED faults
        \/ Fault /\ Goto(r, "approval")
  /\ Local /\ UNCHANGED <<receipt, issue, wire>>

\* Mutant: a second record of a key replaces the first.
RecordByUpsert(w, status) == receipt' = [receipt EXCEPT ![w] = status]

\* recordActionReceipt: the first record of a key stays.
Record(w, status) == receipt' = [receipt EXCEPT ![w] = IF @ = "none" THEN status ELSE @]

\* The gate of human approval; a receipt that cannot be stored is ignored.
CheckApproval(r) ==
  /\ req[r].pc = "approval"
  /\ LET w == req[r].write
     IN IF w \in Held
        THEN /\ Ends(r, "awaiting", w, "none")
             /\ \/ Record(w, "awaiting_approval") /\ UNCHANGED faults
                \/ Fault /\ UNCHANGED receipt
        ELSE Goto(r, "source") /\ UNCHANGED <<receipt, faults>>
  /\ Local /\ UNCHANGED <<issue, wire>>

\* Without a connection, or when it cannot be read, there is no call, and the operation
\* is recorded as executed all the same.
CheckSource(r) ==
  /\ req[r].pc = "source"
  /\ \/ connected /\ Send(r) /\ UNCHANGED faults
     \/ Goto(r, "answered") /\ UNCHANGED wire /\ (IF connected THEN Fault ELSE UNCHANGED faults)
  /\ Local /\ UNCHANGED <<receipt, issue>>

-----------------------------------------------------------------------------
(* The call (execute, five seconds) and the gateway.                       *)

\* The HTTP client takes an answer that names no status for a completion.
Understood(says) == IF says = "unnamed" THEN "completed" ELSE says

\* The answer to a write that ended in status. A request that no longer waits takes none.
Answer(r, w, status, says) ==
  /\ wire' = wire \ {<<r, w>>}
  /\ IF req[r].pc = "sent"
     THEN /\ req' = [req EXCEPT ![r].pc = "answered", ![r].status = Understood(says)]
          /\ presumed' = IF Understood(says) = status THEN presumed ELSE presumed \cup {w}
     ELSE UNCHANGED <<req, presumed>>

GatewayExecutes(r, w) ==
  /\ <<r, w>> \in wire
  /\ \E status \in Statuses :
       /\ done[w] \in {"accepted", "completed"} => status = done[w]
       /\ done' = [done EXCEPT ![w] = status]
       /\ \E says \in {status, "unnamed"} : Answer(r, w, status, says)
  /\ UNCHANGED <<observe, connected, receipt, issue, moves, faults>>

\* What was accepted ends; nobody tells the application.
GatewayFinishes(w) ==
  /\ done[w] = "accepted"
  /\ \E status \in {"failed", "completed"} : done' = [done EXCEPT ![w] = status]
  /\ UNCHANGED <<observe, connected, receipt, issue, req, wire, presumed, moves, faults>>

\* A timeout, a refusal or a malformed answer; the request may be lost or come late.
CallThrows(r) ==
  /\ req[r].pc = "sent" /\ Fault
  /\ Over(r, IF req[r].write \in RouteWrites THEN "error" ELSE "failed")
  /\ wire' = wire \/ wire' = wire \ {<<r, req[r].write>>}
  /\ Local /\ UNCHANGED <<receipt, issue>>

-----------------------------------------------------------------------------
(* After the answer.                                                       *)

\* Mutant: anything but a failure counts as completed.
TerminalUnlessFailed(status) == status # "failed"

Terminal(status) == status = "completed"

\* The route records the receipt, and answers with it unless the issue is to follow.
RecordAnswer(r) ==
  /\ req[r].pc = "answered" /\ req[r].write \in RouteWrites
  /\ LET w == req[r].write
         s == req[r].status
     IN /\ Record(w, s)
        /\ IF Terminal(s) THEN req' = [req EXCEPT ![r].pc = "updating", ![r].shown = receipt'[w]]
           ELSE Ends(r, IF s = "failed" THEN "failed" ELSE "success", w, receipt'[w])
  /\ Local /\ UNCHANGED <<issue, wire, faults>>

Show(w) == issue' = IF w \in Notes THEN issue ELSE w

\* The issue takes the status or priority that was written; a note changes nothing in it.
UpdateIssue(r) ==
  /\ req[r].pc = "updating"
  /\ Show(req[r].write)
  /\ Ends(r, "success", req[r].write, req[r].shown)
  /\ Local /\ UNCHANGED <<receipt, wire, faults>>

\* The client records "executed" whatever the gateway answered, or fails to, and says so.
RecordExecuted(r) ==
  /\ req[r].pc = "answered" /\ req[r].write \in ClientWrites
  /\ \/ Record(req[r].write, "executed") /\ UNCHANGED faults
     \/ Fault /\ UNCHANGED receipt
  /\ Over(r, "success")
  /\ Local /\ UNCHANGED <<issue, wire>>

\* A query after the call throws, or the process is gone; the query may have committed.
FinishFails(r) ==
  /\ req[r].pc \in {"answered", "updating"} /\ req[r].write \in RouteWrites /\ Fault
  /\ Over(r, "error")
  /\ \/ UNCHANGED <<receipt, issue>>
     \/ req[r].pc = "answered" /\ Record(req[r].write, req[r].status) /\ UNCHANGED issue
     \/ req[r].pc = "updating" /\ Show(req[r].write) /\ UNCHANGED receipt
  /\ Local /\ UNCHANGED wire

-----------------------------------------------------------------------------
RouteStep(r) ==
  \/ \E w \in RouteWrites, header \in Writes \cup {NoWrite} : Ask(r, w, header)
  \/ CheckMode(r) \/ CheckConnection(r) \/ LookupClientKey(r) \/ LookupKey(r) \/ AskFails(r)
  \/ RecordAnswer(r) \/ UpdateIssue(r) \/ FinishFails(r)

ClientStep(r) ==
  \/ \E w \in ClientWrites : AskClient(r, w)
  \/ LookupReceipt(r) \/ CheckApproval(r) \/ CheckSource(r) \/ RecordExecuted(r)

Next ==
  \/ \E r \in Requests : RouteStep(r) \/ ClientStep(r) \/ CallThrows(r)
  \/ \E r \in Requests, w \in Writes : GatewayExecutes(r, w)
  \/ \E w \in Writes : GatewayFinishes(w)
  \/ SetMode \/ SetConnection

Spec == Init /\ [][Next]_vars

-----------------------------------------------------------------------------
(* Properties.                                                             *)

\* The issue shows only a write with a receipt that the gateway has completed, or that it
\* answered without a status: whichever of its requests were lost, late, retried or raced, an
\* answer that says accepted or failed never moves it. An operation that awaits approval
\* never reaches the gateway.
IssueFollowsGateway ==
  /\ issue # NoWrite =>
       receipt[issue] # "none" /\ (done[issue] = "completed" \/ issue \in presumed)
  /\ \A w \in Held : done[w] = "none" /\ \A r \in Requests : <<r, w>> \notin wire

\* What an answer shows of the receipt it was given from.
Shows(answer, status) == IF answer = "repeated" THEN ClientSays(status) ELSE status

\* All answers of one key come from the same receipt, the one stored first: the route shows
\* its status, and the client what it makes of it, so that a repeated operation is called
\* executed while it awaits approval. A receipt of the route that reads completed is true or
\* was presumed, and the gateway has handled what the route calls a success: also when
\* requests race, calls are late and replays come through a client's key.
AnswersAgree ==
  /\ \A r \in Requests :
       /\ req[r].shown # "none" =>
            /\ receipt[req[r].write] # "none"
            /\ req[r].shown = Shows(req[r].answer, receipt[req[r].write])
       /\ req[r].answer = "success" /\ req[r].write \in RouteWrites => done[req[r].write] # "none"
  /\ \A w \in RouteWrites : receipt[w] = "completed" => done[w] = "completed" \/ w \in presumed

\* What a request q relies on, with rc the receipts, dn the gateway's record and pr what was
\* presumed: what it shows is of the stored receipt, a success of the route was handled, what
\* it goes on with is of its kind, and what it was told is so (for the proofs).
Good(q, rc, dn, pr) ==
  /\ q.shown # "none" =>
       q.write \in Writes /\ rc[q.write] # "none" /\ q.shown = Shows(q.answer, rc[q.write])
  /\ q.answer = "success" /\ q.write \in RouteWrites => dn[q.write] # "none"
  /\ q.pc # "over" => q.answer = "none"
  /\ q.pc \notin {"updating", "over"} => q.shown = "none"
  /\ q.pc \in Asking => q.write \in RouteWrites
  /\ q.pc = "client key" => q.header \in Writes
  /\ q.pc \in Calling => q.write \in ClientWrites
  /\ q.pc \in {"source", "sent", "answered", "updating"} => q.write \in Writes \ Held
  /\ q.pc = "answered" /\ q.write \in RouteWrites =>
       /\ q.status # "none" /\ dn[q.write] # "none"
       /\ q.status = "completed" => dn[q.write] = "completed" \/ q.write \in pr
  /\ q.pc = "updating" =>
       /\ q.write \in RouteWrites /\ dn[q.write] # "none" /\ rc[q.write] # "none"
       /\ dn[q.write] = "completed" \/ q.write \in pr

RequestsGood == \A r \in Requests : Good(req[r], receipt, done, presumed)

\* A call under way is of a request that has sent it, of a write that is not held, and of
\* the write that the request still waits for.
WireIsSent ==
  \A r \in Requests, w \in Writes :
    <<r, w>> \in wire =>
      /\ w \notin Held
      /\ req[r].pc \in {"sent", "answered", "updating", "over"}
      /\ req[r].pc = "sent" => req[r].write = w

\* The inductive invariant of module WriteBackProofs.
IInv == TypeOK /\ RequestsGood /\ WireIsSent /\ IssueFollowsGateway /\ AnswersAgree
=============================================================================
