------------------------- MODULE OperationalCapture -------------------------
(***************************************************************************)
(* Capture of operational facts in the transaction that writes a native    *)
(* support issue: the AFTER INSERT/UPDATE trigger on supportv8.issues, the *)
(* permanent tuple that owns the issue's workspace, and the qualification  *)
(* snapshot the registration worker persists for that tuple.               *)
(*                                                                         *)
(* One account stands for one permanent Support tuple (installation,       *)
(* acquisition, account, Registry tenant, native workspace).  A pin stands *)
(* for a provenance (the two certificate digests are all that varies in    *)
(* it), a fact for the random UUID of an outbox row.  The row fields that  *)
(* only delivery changes (gen, lease, due) are declared here with the      *)
(* values the trigger's INSERT gives them; module OperationalOutbox moves  *)
(* them.                                                                   *)
(***************************************************************************)
EXTENDS Naturals, FiniteSets, Functions

CONSTANTS
  Accounts,    \* permanent Support tuples
  Issues,      \* native issue ids
  AccountOf,   \* the tuple whose workspace an issue belongs to
  Facts,       \* pool of outbox row ids (gen_random_uuid)
  Pins,        \* provenance values a Registry certificate can give
  Declares,    \* the event kinds each certificate's descriptor declares
  NoPin,       \* provenance IS NULL, or no certificate
  NoIssue,     \* issue of an id no row uses yet
  MaxMoves     \* bound on the changes of owner state and certificate

Kinds == {"created", "escalated", "resolved"}

ASSUME CaptureAssumption ==
  /\ AccountOf \in [Issues -> Accounts]
  /\ Declares \in [Pins -> SUBSET Kinds]
  /\ NoPin \notin Pins
  /\ NoIssue \notin Issues
  /\ MaxMoves \in Nat

VARIABLES
  issue,     \* issue[i]: priority and status group of a native issue
  source,    \* source[a]: what the owner join sees of the tuple
  registry,  \* registry[a]: pin of the certificate the Registry serves (external)
  seen,      \* seen[a]: certificate a registration activity observed, not yet stored
  qual,      \* qual[a]: operational_qualifications.pin
  row,       \* row[f]: supportv8.operational_outbox
  moves      \* changes of owner state and certificate so far, at most MaxMoves

captureVars == <<issue, source, registry, seen, qual, row, moves>>

Statuses == {"open", "escalated", "resolved"}   \* resolved stands for resolved, closed
Owners == {"unready", "ready", "revoked"}
States == {"absent", "pending", "pending_authority", "delivered", "quarantined"}
Leases == {"none", "live", "expired"}
Final == {"pending_authority", "delivered", "quarantined"}

NoTicket == [exists |-> FALSE, urgent |-> FALSE, status |-> "open"]
NoRow == [state |-> "absent", issue |-> NoIssue, kind |-> "created", pin |-> NoPin,
          gen |-> 0, lease |-> "none", due |-> FALSE]

Ticket == [exists : BOOLEAN, urgent : BOOLEAN, status : Statuses]
Row == [state : States, issue : Issues \cup {NoIssue}, kind : Kinds,
        pin : Pins \cup {NoPin}, gen : Nat, lease : Leases, due : BOOLEAN]

\* The table's CHECK: provenance is null exactly for rows held without authority.
RowCheck(r) == r.pin = NoPin <=> r.state \in {"absent", "pending_authority"}

\* Every variable keeps its shape, the CHECKs of the outbox table included: the tables
\* of migration 011 and the columns of issues its trigger reads.
CaptureTypeOK ==
  /\ issue \in [Issues -> Ticket]
  /\ source \in [Accounts -> Owners]
  /\ registry \in [Accounts -> Pins \cup {NoPin}]
  /\ seen \in [Accounts -> Pins \cup {NoPin}]
  /\ qual \in [Accounts -> Pins \cup {NoPin}]
  /\ row \in [Facts -> Row]
  /\ \A f \in Facts : RowCheck(row[f])
  /\ moves \in 0 .. MaxMoves

CaptureInit ==
  /\ issue = [i \in Issues |-> NoTicket]
  /\ source \in [Accounts -> {"unready", "ready"}]
  /\ registry \in [Accounts -> Pins \cup {NoPin}]
  /\ seen = [a \in Accounts |-> NoPin]
  /\ qual = [a \in Accounts |-> NoPin]
  /\ row = [f \in Facts |-> NoRow]
  /\ moves = 0

-----------------------------------------------------------------------------
(* The owner and the Registry move under the capture's feet.               *)

Move == moves < MaxMoves /\ moves' = moves + 1

\* The registration job leaves or reaches ready; a tombstone revokes for good.
OwnerChange(a, s) ==
  /\ Move
  /\ source[a] # "revoked" /\ source[a] # s
  /\ source' = [source EXCEPT ![a] = s]
  /\ UNCHANGED <<issue, registry, seen, qual, row>>

\* The Registry serves another certificate, or none.
CertificateChange(a, p) ==
  /\ Move
  /\ registry[a] # p
  /\ registry' = [registry EXCEPT ![a] = p]
  /\ UNCHANGED <<issue, source, seen, qual, row>>

-----------------------------------------------------------------------------
(* Qualification: the registration activity observes, then SQL persists.   *)

\* sourceResolver returned a certificate for a job claimed in state ready.
ObserveQualification(a) ==
  /\ source[a] = "ready" /\ seen[a] = NoPin /\ registry[a] # NoPin
  /\ seen' = [seen EXCEPT ![a] = registry[a]]
  /\ UNCHANGED <<issue, source, registry, qual, row, moves>>

\* Mutant: the later observation replaces the stored one (an upsert).
PersistByUpsert(a) ==
  /\ seen[a] # NoPin /\ source[a] = "ready"
  /\ qual' = [qual EXCEPT ![a] = seen[a]]
  /\ seen' = [seen EXCEPT ![a] = NoPin]
  /\ UNCHANGED <<issue, source, registry, row, moves>>

\* qualify_operational_source: insert once, else keep (false) or raise (conflict).
PersistQualification(a) ==
  /\ seen[a] # NoPin /\ source[a] = "ready"
  /\ qual' = [qual EXCEPT ![a] = IF qual[a] = NoPin THEN seen[a] ELSE qual[a]]
  /\ seen' = [seen EXCEPT ![a] = NoPin]
  /\ UNCHANGED <<issue, source, registry, row, moves>>

\* The lease or the owner was lost, or the activity timed out: nothing is stored.
DropQualification(a) ==
  /\ seen[a] # NoPin
  /\ seen' = [seen EXCEPT ![a] = NoPin]
  /\ UNCHANGED <<issue, source, registry, qual, row, moves>>

-----------------------------------------------------------------------------
(* The trigger.                                                            *)

\* Mutant: only the priority escalates an existing issue.
TransitionsByPriority(old, new) ==
  (IF new.exists /\ ~old.exists THEN {"created"} ELSE {})
    \cup (IF new.urgent /\ ~old.urgent THEN {"escalated"} ELSE {})
    \cup (IF old.exists /\ new.status = "resolved" /\ old.status # "resolved"
          THEN {"resolved"} ELSE {})

\* Mutant: the old status is not compared before a resolved fact.
TransitionsByNewStatus(old, new) ==
  (IF new.exists /\ ~old.exists THEN {"created"} ELSE {})
    \cup (IF (new.urgent /\ ~old.urgent) \/ (old.exists /\ new.status = "escalated" /\ old.status # "escalated")
          THEN {"escalated"} ELSE {})
    \cup (IF old.exists /\ new.status = "resolved" THEN {"resolved"} ELSE {})

\* The transitions of an issue write that the trigger turns into facts.
Transitions(old, new) ==
  (IF new.exists /\ ~old.exists THEN {"created"} ELSE {})
    \cup (IF (new.urgent /\ ~old.urgent) \/ (old.exists /\ new.status = "escalated" /\ old.status # "escalated")
          THEN {"escalated"} ELSE {})
    \cup (IF old.exists /\ new.status = "resolved" /\ old.status # "resolved"
          THEN {"resolved"} ELSE {})

\* The pin a fact of this kind is captured with: the stored qualification of a ready
\* owner whose rows no lifecycle transaction holds, if its descriptor declares the kind.
CapturedPin(a, k, busy) ==
  IF source[a] = "ready" /\ ~busy /\ qual[a] # NoPin /\ k \in Declares[qual[a]]
  THEN qual[a] ELSE NoPin

\* The row the trigger inserts: held when it has no pin.
Captured(i, k, busy) ==
  LET pin == CapturedPin(AccountOf[i], k, busy)
  IN [state |-> IF pin = NoPin THEN "pending_authority" ELSE "pending",
      issue |-> i, kind |-> k, pin |-> pin, gen |-> 0, lease |-> "none", due |-> TRUE]

\* An issue write and the facts it captures commit together, each under a fresh row id.
WriteIssue(i, new, busy) ==
  \E fresh \in SUBSET {f \in Facts : row[f].state = "absent"} :
    \E kind \in Bijection(fresh, Transitions(issue[i], new)) :
      /\ issue' = [issue EXCEPT ![i] = new]
      /\ row' = [f \in Facts |-> IF f \in fresh THEN Captured(i, kind[f], busy) ELSE row[f]]
      /\ UNCHANGED <<source, registry, seen, qual, moves>>

\* Every SQL writer of issues inserts source_status 'open'.
InsertIssue(i) ==
  /\ ~issue[i].exists
  /\ \E urgent \in BOOLEAN, busy \in BOOLEAN :
       WriteIssue(i, [exists |-> TRUE, urgent |-> urgent, status |-> "open"], busy)

UpdateIssue(i) ==
  /\ issue[i].exists
  /\ \E urgent \in BOOLEAN, status \in Statuses, busy \in BOOLEAN :
       WriteIssue(i, [exists |-> TRUE, urgent |-> urgent, status |-> status], busy)

CaptureNext ==
  \/ \E a \in Accounts, s \in Owners : OwnerChange(a, s)
  \/ \E a \in Accounts, p \in Pins \cup {NoPin} : CertificateChange(a, p)
  \/ \E a \in Accounts : ObserveQualification(a)
  \/ \E a \in Accounts : PersistQualification(a)
  \/ \E a \in Accounts : DropQualification(a)
  \/ \E i \in Issues : InsertIssue(i)
  \/ \E i \in Issues : UpdateIssue(i)

CaptureSpec == CaptureInit /\ [][CaptureNext]_captureVars

-----------------------------------------------------------------------------
(* Properties.                                                             *)

FactsOf(i, k) == {f \in Facts : row[f].issue = i /\ row[f].kind = k}

\* The fact log never lags the issue: an issue has exactly one created fact from the
\* moment it exists, an urgent or escalated issue has an escalated fact, a resolved one
\* a resolved fact (docs table of transitions; the trigger runs in the same transaction).
FactsMatchIssue ==
  \A i \in Issues :
    /\ Cardinality(FactsOf(i, "created")) = IF issue[i].exists THEN 1 ELSE 0
    /\ issue[i].urgent \/ issue[i].status = "escalated" => FactsOf(i, "escalated") # {}
    /\ issue[i].status = "resolved" => FactsOf(i, "resolved") # {}

\* A fact captured by this step is news: its kind is something its own issue just became
\* and was not before, and no two facts of one write say the same.
News ==
  \A f \in Facts :
    row[f].state = "absent" /\ row'[f].state # "absent" =>
      LET old == issue[row'[f].issue]
          new == issue'[row'[f].issue]
      IN /\ row'[f].kind = "created" => ~old.exists
         /\ row'[f].kind = "resolved" => new.status = "resolved" /\ old.status # "resolved"
         /\ row'[f].kind = "escalated" =>
              \/ new.urgent /\ ~old.urgent
              \/ new.status = "escalated" /\ old.status # "escalated"
         /\ \A g \in Facts \ {f} :
              row[g].state = "absent" /\ row'[g].issue = row'[f].issue
                => row'[g].kind # row'[f].kind

\* A repeated write captures nothing: every new fact is news.
FactsAreNews == [][News]_captureVars

\* A fact that carries a pin carries the one qualification ever stored for its owner and
\* of a kind that qualification declares: later observations never relabel history.
PinIsTheQualification ==
  \A f \in Facts :
    row[f].pin # NoPin => /\ row[f].pin = qual[AccountOf[row[f].issue]]
                          /\ row[f].kind \in Declares[row[f].pin]

\* What a step may not change: a captured fact keeps its issue, kind and pin, a held or
\* settled fact keeps everything, a stored qualification stays.
KeepsEvidence ==
  /\ \A f \in Facts :
       /\ row[f].state # "absent" =>
            /\ row'[f].issue = row[f].issue
            /\ row'[f].kind = row[f].kind
            /\ row'[f].pin = row[f].pin
       /\ row[f].state \in Final => row'[f] = row[f]
  /\ \A a \in Accounts : qual[a] # NoPin => qual'[a] = qual[a]

\* Evidence is immutable (protect_operational_outbox, qualify_operational_source).
EvidenceImmutable == [][KeepsEvidence]_<<row, qual>>

-----------------------------------------------------------------------------
(* The inductive invariant.                                                *)

\* Only captured rows name an issue.
RowsNamed ==
  \A f \in Facts :
    IF row[f].state = "absent" THEN row[f].issue = NoIssue ELSE row[f].issue \in Issues

\* FactsMatchIssue without numbers, and an issue is blank until it exists.
FactsKeepUp ==
  \A i \in Issues :
    /\ ~issue[i].exists => issue[i] = NoTicket /\ FactsOf(i, "created") = {}
    /\ issue[i].exists => \E f \in Facts : FactsOf(i, "created") = {f}
    /\ issue[i].urgent \/ issue[i].status = "escalated" => FactsOf(i, "escalated") # {}
    /\ issue[i].status = "resolved" => FactsOf(i, "resolved") # {}

CaptureInv == CaptureTypeOK /\ RowsNamed /\ FactsKeepUp /\ PinIsTheQualification

=============================================================================
