----------------------- MODULE OperationalOutboxProofs ----------------------
(***************************************************************************)
(* Proofs about OperationalOutbox for every set of owners, issues, facts   *)
(* and certificates, every batch limit and every bound.                    *)
(*                                                                         *)
(* The argument: a row leaves "absent" only in the capture step, and then  *)
(* is pending or held; attempts and requests exist only for rows a claim   *)
(* touched, so never for a held row (HeldNeverLeaves is inductive); an     *)
(* attempt holds a receipt only if the intake recorded its fact            *)
(* (ReceiptsAreReal), and only such an attempt marks a row delivered.      *)
(*                                                                         *)
(* The capture has an invariant of its own, CaptureInv: the kinds a write  *)
(* captures are in bijection with its transitions, so an issue's facts     *)
(* keep up with it.  Delivery leaves what it speaks about alone, so it     *)
(* holds in the composed system too.  Only a pending row is leased, so no  *)
(* step of time touches a settled row, and the evidence is immutable.      *)
(***************************************************************************)
EXTENDS OperationalOutbox, FiniteSetTheorems, TLAPS

Others(f, g) ==
  \A x \in Facts, y \in Gens : x # f \/ y # g => att'[x][y] = att[x][y]

-----------------------------------------------------------------------------
(* What the capture step does to rows.                                     *)

\* A captured row is a well-typed row, pending or held.
LEMMA CapturedIsRow ==
  ASSUME CaptureAssumption, CaptureTypeOK,
         NEW i \in Issues, NEW k \in Kinds, NEW busy \in BOOLEAN
  PROVE  /\ Captured(i, k, busy) \in Row
         /\ Captured(i, k, busy).state \in {"pending", "pending_authority"}
         /\ Captured(i, k, busy).issue = i /\ Captured(i, k, busy).lease = "none"
         /\ RowCheck(Captured(i, k, busy))
<1>1. CapturedPin(AccountOf[i], k, busy) \in Pins \cup {NoPin}
  BY DEF CapturedPin, CaptureTypeOK, CaptureAssumption
<1>2. QED
  BY <1>1 DEF Captured, Row, States, Leases, RowCheck

LEMMA TransitionsAreKinds ==
  ASSUME NEW old, NEW new PROVE Transitions(old, new) \subseteq Kinds
BY DEF Transitions, Kinds

\* A write keeps the types, and changes absent rows only, to captured ones.
LEMMA WriteIssueStep ==
  ASSUME CaptureAssumption, CaptureTypeOK, NEW i \in Issues, NEW new \in Ticket,
         NEW busy \in BOOLEAN, WriteIssue(i, new, busy)
  PROVE  /\ CaptureTypeOK'
         /\ \A f \in Facts : \/ row'[f] = row[f]
                             \/ /\ row[f].state = "absent"
                                /\ row'[f].state \in {"pending", "pending_authority"}
                                /\ row'[f].issue \in Issues /\ row'[f].lease = "none"
<1>a. PICK fresh \in SUBSET {f \in Facts : row[f].state = "absent"} :
        \E kind \in Bijection(fresh, Transitions(issue[i], new)) :
          /\ issue' = [issue EXCEPT ![i] = new]
          /\ row' = [f \in Facts |-> IF f \in fresh THEN Captured(i, kind[f], busy) ELSE row[f]]
          /\ UNCHANGED <<source, registry, seen, qual, moves>>
  BY DEF WriteIssue
<1>1. PICK kind \in Bijection(fresh, Transitions(issue[i], new)) :
        /\ issue' = [issue EXCEPT ![i] = new]
        /\ row' = [f \in Facts |-> IF f \in fresh THEN Captured(i, kind[f], busy) ELSE row[f]]
        /\ UNCHANGED <<source, registry, seen, qual, moves>>
  BY <1>a
<1>2. \A f \in fresh : kind[f] \in Kinds
  BY <1>1, TransitionsAreKinds DEF Bijection, Injection
<1>3. \A f \in fresh : /\ Captured(i, kind[f], busy) \in Row
                       /\ Captured(i, kind[f], busy).state \in {"pending", "pending_authority"}
                       /\ Captured(i, kind[f], busy).issue = i
                       /\ Captured(i, kind[f], busy).lease = "none"
                       /\ RowCheck(Captured(i, kind[f], busy))
  BY <1>2, CapturedIsRow
<1>4. row' \in [Facts -> Row]
  BY <1>1, <1>3 DEF CaptureTypeOK
<1>5. issue' \in [Issues -> Ticket]
  BY <1>1 DEF CaptureTypeOK
<1>b. \A f \in Facts : RowCheck(row'[f])
  BY <1>1, <1>3 DEF CaptureTypeOK
<1>6. CaptureTypeOK'
  BY <1>1, <1>4, <1>5, <1>b DEF CaptureTypeOK, RowCheck
<1>7. ASSUME NEW f \in Facts
      PROVE  \/ row'[f] = row[f]
             \/ /\ row[f].state = "absent"
                /\ row'[f].state \in {"pending", "pending_authority"}
                /\ row'[f].issue \in Issues /\ row'[f].lease = "none"
  <2>1. CASE f \in fresh
    BY <1>1, <1>3, <2>1
  <2>2. CASE f \notin fresh
    BY <1>1, <2>2
  <2>3. QED BY <2>1, <2>2
<1>8. QED
  BY <1>6, <1>7

LEMMA CaptureStep ==
  ASSUME CaptureAssumption, CaptureTypeOK, CaptureNext
  PROVE  /\ CaptureTypeOK'
         /\ \A f \in Facts : \/ row'[f] = row[f]
                             \/ /\ row[f].state = "absent"
                                /\ row'[f].state \in {"pending", "pending_authority"}
                                /\ row'[f].issue \in Issues /\ row'[f].lease = "none"
<1>1. ASSUME NEW a \in Accounts, NEW s \in Owners, OwnerChange(a, s)
      PROVE  CaptureTypeOK' /\ row' = row
  BY <1>1, CaptureAssumption DEF OwnerChange, Move, CaptureTypeOK
<1>2. ASSUME NEW a \in Accounts, NEW p \in Pins \cup {NoPin}, CertificateChange(a, p)
      PROVE  CaptureTypeOK' /\ row' = row
  BY <1>2, CaptureAssumption DEF CertificateChange, Move, CaptureTypeOK
<1>3. ASSUME NEW a \in Accounts, ObserveQualification(a)
      PROVE  CaptureTypeOK' /\ row' = row
  BY <1>3 DEF ObserveQualification, CaptureTypeOK
<1>4. ASSUME NEW a \in Accounts, PersistQualification(a)
      PROVE  CaptureTypeOK' /\ row' = row
  BY <1>4 DEF PersistQualification, CaptureTypeOK
<1>5. ASSUME NEW a \in Accounts, DropQualification(a)
      PROVE  CaptureTypeOK' /\ row' = row
  BY <1>5 DEF DropQualification, CaptureTypeOK
<1>6. ASSUME NEW i \in Issues, InsertIssue(i)
      PROVE  \E new \in Ticket, busy \in BOOLEAN : WriteIssue(i, new, busy)
  BY <1>6 DEF InsertIssue, Ticket, Statuses
<1>7. ASSUME NEW i \in Issues, UpdateIssue(i)
      PROVE  \E new \in Ticket, busy \in BOOLEAN : WriteIssue(i, new, busy)
  BY <1>7 DEF UpdateIssue, Ticket, Statuses
<1>8. CASE \E i \in Issues, new \in Ticket, busy \in BOOLEAN : WriteIssue(i, new, busy)
  BY <1>8, WriteIssueStep
<1>9. QED
  BY <1>1, <1>2, <1>3, <1>4, <1>5, <1>6, <1>7, <1>8 DEF CaptureNext

-----------------------------------------------------------------------------
(* The capture transaction: the facts follow the issue.                    *)

\* What a write does: fresh rows, one for each transition, that name the issue and carry
\* the pin of its owner; every other row stays.
LEMMA WrittenRows ==
  ASSUME CaptureAssumption, CaptureTypeOK, NEW i \in Issues, NEW new \in Ticket,
         NEW busy \in BOOLEAN, WriteIssue(i, new, busy)
  PROVE  \E fresh \in SUBSET {f \in Facts : row[f].state = "absent"} :
           \E kind \in Bijection(fresh, Transitions(issue[i], new)) :
             /\ issue' = [issue EXCEPT ![i] = new] /\ qual' = qual
             /\ \A f \in fresh :
                  /\ row'[f].state # "absent" /\ row'[f].issue = i
                  /\ row'[f].kind = kind[f]
                  /\ row'[f].pin = CapturedPin(AccountOf[i], kind[f], busy)
             /\ \A f \in Facts \ fresh : row'[f] = row[f]
<1>1. PICK fresh \in SUBSET {f \in Facts : row[f].state = "absent"} :
        \E kind \in Bijection(fresh, Transitions(issue[i], new)) :
          /\ issue' = [issue EXCEPT ![i] = new]
          /\ row' = [f \in Facts |-> IF f \in fresh THEN Captured(i, kind[f], busy) ELSE row[f]]
          /\ UNCHANGED <<source, registry, seen, qual, moves>>
  BY DEF WriteIssue
<1>2. PICK kind \in Bijection(fresh, Transitions(issue[i], new)) :
        /\ issue' = [issue EXCEPT ![i] = new]
        /\ row' = [f \in Facts |-> IF f \in fresh THEN Captured(i, kind[f], busy) ELSE row[f]]
        /\ UNCHANGED <<source, registry, seen, qual, moves>>
  BY <1>1
<1>3. ASSUME NEW f \in fresh
      PROVE  /\ row'[f].state # "absent" /\ row'[f].issue = i
             /\ row'[f].kind = kind[f]
             /\ row'[f].pin = CapturedPin(AccountOf[i], kind[f], busy)
  <2>1. row'[f] = Captured(i, kind[f], busy)
    BY <1>2
  <2>2. QED
    BY <2>1 DEF Captured
<1>4. QED
  BY <1>2, <1>3

\* The transitions of a write are a subset of its news.
LEMMA TransitionsSay ==
  ASSUME NEW old, NEW new, new.exists
  PROVE  /\ "created" \in Transitions(old, new) <=> ~old.exists
         /\ "resolved" \in Transitions(old, new) <=>
              old.exists /\ new.status = "resolved" /\ old.status # "resolved"
         /\ "escalated" \in Transitions(old, new) <=>
              \/ new.urgent /\ ~old.urgent
              \/ old.exists /\ new.status = "escalated" /\ old.status # "escalated"
<1>1. "created" \in Transitions(old, new) <=> ~old.exists
  BY DEF Transitions
<1>2. "resolved" \in Transitions(old, new) <=>
        old.exists /\ new.status = "resolved" /\ old.status # "resolved"
  BY DEF Transitions
<1>3. "escalated" \in Transitions(old, new) <=>
        \/ new.urgent /\ ~old.urgent
        \/ old.exists /\ new.status = "escalated" /\ old.status # "escalated"
  BY DEF Transitions
<1>4. QED
  BY <1>1, <1>2, <1>3

LEMMA WriteKeepsCaptureInv ==
  ASSUME CaptureAssumption, CaptureInv, NEW i \in Issues, NEW new \in Ticket,
         NEW busy \in BOOLEAN, new.exists, ~issue[i].exists => new.status = "open",
         WriteIssue(i, new, busy)
  PROVE  CaptureInv' /\ News
<1>1. CaptureTypeOK /\ RowsNamed /\ FactsKeepUp /\ PinIsTheQualification
  BY DEF CaptureInv
<1>a. PICK fresh \in SUBSET {f \in Facts : row[f].state = "absent"} :
        \E kind \in Bijection(fresh, Transitions(issue[i], new)) :
          /\ issue' = [issue EXCEPT ![i] = new] /\ qual' = qual
          /\ \A f \in fresh :
               /\ row'[f].state # "absent" /\ row'[f].issue = i
               /\ row'[f].kind = kind[f]
               /\ row'[f].pin = CapturedPin(AccountOf[i], kind[f], busy)
          /\ \A f \in Facts \ fresh : row'[f] = row[f]
  BY <1>1, WrittenRows
<1>2. PICK kind \in Bijection(fresh, Transitions(issue[i], new)) :
        /\ issue' = [issue EXCEPT ![i] = new] /\ qual' = qual
        /\ \A f \in fresh :
             /\ row'[f].state # "absent" /\ row'[f].issue = i
             /\ row'[f].kind = kind[f]
             /\ row'[f].pin = CapturedPin(AccountOf[i], kind[f], busy)
        /\ \A f \in Facts \ fresh : row'[f] = row[f]
  BY <1>a
<1>3. /\ \A f \in fresh : kind[f] \in Transitions(issue[i], new)
      /\ \A f, g \in fresh : kind[f] = kind[g] => f = g
      /\ \A k \in Transitions(issue[i], new) : \E f \in fresh : kind[f] = k
  BY <1>2 DEF Bijection, Injection, Surjection, IsInjective
<1>4. \A f \in fresh : row[f].state = "absent" /\ row[f].issue = NoIssue /\ row[f].issue \notin Issues
  BY <1>1 DEF RowsNamed, CaptureAssumption
<1>5. ASSUME NEW j \in Issues, NEW k, j # i PROVE FactsOf(j, k)' = FactsOf(j, k)
  BY <1>2, <1>4, <1>5 DEF FactsOf
<1>6. ASSUME NEW k PROVE FactsOf(i, k)' = FactsOf(i, k) \cup {f \in fresh : kind[f] = k}
  BY <1>2, <1>4 DEF FactsOf
<1>7. issue \in [Issues -> Ticket] /\ issue'[i] = new /\ \A j \in Issues : j # i => issue'[j] = issue[j]
  BY <1>1, <1>2 DEF CaptureTypeOK
<1>8. /\ "created" \in Transitions(issue[i], new) <=> ~issue[i].exists
      /\ "resolved" \in Transitions(issue[i], new) <=>
           issue[i].exists /\ new.status = "resolved" /\ issue[i].status # "resolved"
      /\ "escalated" \in Transitions(issue[i], new) <=>
           \/ new.urgent /\ ~issue[i].urgent
           \/ issue[i].exists /\ new.status = "escalated" /\ issue[i].status # "escalated"
  BY TransitionsSay
<1>9. CaptureTypeOK'
  BY <1>1, WriteIssueStep
<1>10. RowsNamed'
  BY <1>1, <1>2 DEF RowsNamed
<1>11. FactsKeepUp'
  <2>1. ASSUME NEW j \in Issues, j # i
        PROVE  /\ ~issue'[j].exists => issue'[j] = NoTicket /\ FactsOf(j, "created")' = {}
               /\ issue'[j].exists => \E f \in Facts : FactsOf(j, "created")' = {f}
               /\ issue'[j].urgent \/ issue'[j].status = "escalated" => FactsOf(j, "escalated")' # {}
               /\ issue'[j].status = "resolved" => FactsOf(j, "resolved")' # {}
    BY <1>1, <1>5, <1>7, <2>1 DEF FactsKeepUp
  <2>2. \E f \in Facts : FactsOf(i, "created")' = {f}
    <3>1. CASE issue[i].exists
      <4>1. {f \in fresh : kind[f] = "created"} = {}
        BY <1>3, <1>8, <3>1
      <4>2. QED
        BY <1>1, <1>6, <3>1, <4>1 DEF FactsKeepUp
    <3>2. CASE ~issue[i].exists
      <4>1. PICK f \in fresh : kind[f] = "created"
        BY <1>3, <1>8, <3>2
      <4>2. {x \in fresh : kind[x] = "created"} = {f}
        BY <1>3, <4>1
      <4>3. FactsOf(i, "created") = {}
        BY <1>1, <3>2 DEF FactsKeepUp
      <4>4. QED
        BY <1>6, <4>2, <4>3
    <3>3. QED
      BY <3>1, <3>2
  <2>3. ~issue[i].exists => issue[i] = NoTicket
    BY <1>1 DEF FactsKeepUp
  <2>4. new.urgent \/ new.status = "escalated" => FactsOf(i, "escalated")' # {}
    <3> SUFFICES ASSUME new.urgent \/ new.status = "escalated"
                 PROVE  FactsOf(i, "escalated")' # {}
      OBVIOUS
    <3>1. CASE issue[i].urgent \/ issue[i].status = "escalated"
      BY <1>1, <1>6, <3>1 DEF FactsKeepUp
    <3>2. CASE ~(issue[i].urgent \/ issue[i].status = "escalated")
      <4>1. "escalated" \in Transitions(issue[i], new)
        BY <1>8, <3>2
      <4>2. PICK f \in fresh : kind[f] = "escalated"
        BY <1>3, <4>1
      <4>3. QED
        BY <1>6, <4>2
    <3>3. QED
      BY <3>1, <3>2
  <2>5. new.status = "resolved" => FactsOf(i, "resolved")' # {}
    <3> SUFFICES ASSUME new.status = "resolved" PROVE FactsOf(i, "resolved")' # {}
      OBVIOUS
    <3>1. CASE issue[i].status = "resolved"
      BY <1>1, <1>6, <3>1 DEF FactsKeepUp
    <3>2. CASE issue[i].status # "resolved"
      <4>1. "resolved" \in Transitions(issue[i], new)
        BY <1>8, <3>2
      <4>2. PICK f \in fresh : kind[f] = "resolved"
        BY <1>3, <4>1
      <4>3. QED
        BY <1>6, <4>2
    <3>3. QED
      BY <3>1, <3>2
  <2>6. QED
    BY <1>7, <2>1, <2>2, <2>4, <2>5 DEF FactsKeepUp
<1>12. PinIsTheQualification'
  <2> SUFFICES ASSUME NEW f \in Facts, row'[f].pin # NoPin
               PROVE  /\ row'[f].pin = qual'[AccountOf[row'[f].issue]]
                      /\ row'[f].kind \in Declares[row'[f].pin]
    BY DEF PinIsTheQualification
  <2>1. CASE f \in fresh
    BY <1>2, <2>1 DEF CapturedPin
  <2>2. CASE f \notin fresh
    BY <1>1, <1>2, <2>2 DEF PinIsTheQualification
  <2>3. QED
    BY <2>1, <2>2
<1>13. News
  <2> SUFFICES ASSUME NEW f \in Facts, row[f].state = "absent", row'[f].state # "absent"
               PROVE  LET old == issue[row'[f].issue]
                          nw == issue'[row'[f].issue]
                      IN /\ row'[f].kind = "created" => ~old.exists
                         /\ row'[f].kind = "resolved" =>
                              nw.status = "resolved" /\ old.status # "resolved"
                         /\ row'[f].kind = "escalated" =>
                              \/ nw.urgent /\ ~old.urgent
                              \/ nw.status = "escalated" /\ old.status # "escalated"
                         /\ \A g \in Facts \ {f} :
                              row[g].state = "absent" /\ row'[g].issue = row'[f].issue
                                => row'[g].kind # row'[f].kind
    BY DEF News
  <2>1. f \in fresh
    BY <1>2
  <2>2. row'[f].issue = i /\ row'[f].kind = kind[f] /\ kind[f] \in Transitions(issue[i], new)
    BY <1>2, <1>3, <2>1
  <2>3. ASSUME NEW g \in Facts \ {f}, row[g].state = "absent", row'[g].issue = i
        PROVE  row'[g].kind # kind[f]
    <3>1. g \in fresh
      <4>1. row[g].issue = NoIssue /\ NoIssue \notin Issues
        BY <1>1, <2>3 DEF RowsNamed, CaptureAssumption
      <4>2. QED
        BY <1>2, <2>3, <4>1
    <3>2. QED
      BY <1>2, <1>3, <2>1, <3>1
  <2>4. QED
    BY <1>7, <1>8, <2>2, <2>3
<1>14. QED
  BY <1>9, <1>10, <1>11, <1>12, <1>13 DEF CaptureInv

LEMMA CaptureInvStep ==
  ASSUME CaptureAssumption, CaptureInv, CaptureNext
  PROVE  CaptureInv' /\ News
<1>1. CaptureTypeOK'
  BY CaptureStep DEF CaptureInv
<1>2. ASSUME NEW i \in Issues, InsertIssue(i) PROVE CaptureInv' /\ News
  <2>1. PICK urgent \in BOOLEAN, busy \in BOOLEAN :
          WriteIssue(i, [exists |-> TRUE, urgent |-> urgent, status |-> "open"], busy)
    BY <1>2 DEF InsertIssue
  <2> DEFINE new == [exists |-> TRUE, urgent |-> urgent, status |-> "open"]
  <2>2. new \in Ticket /\ new.exists /\ new.status = "open"
    BY DEF Ticket, Statuses
  <2> HIDE DEF new
  <2>3. QED
    BY <2>1, <2>2, WriteKeepsCaptureInv DEF new
<1>3. ASSUME NEW i \in Issues, UpdateIssue(i) PROVE CaptureInv' /\ News
  <2>1. PICK urgent \in BOOLEAN, status \in Statuses, busy \in BOOLEAN :
          WriteIssue(i, [exists |-> TRUE, urgent |-> urgent, status |-> status], busy)
    BY <1>3 DEF UpdateIssue
  <2> DEFINE new == [exists |-> TRUE, urgent |-> urgent, status |-> status]
  <2>2. new \in Ticket /\ new.exists
    BY DEF Ticket
  <2>3. issue[i].exists
    BY <1>3 DEF UpdateIssue
  <2> HIDE DEF new
  <2>4. QED
    BY <2>1, <2>2, <2>3, WriteKeepsCaptureInv DEF new
<1>4. ASSUME row' = row, issue' = issue,
             \A a \in Accounts : qual[a] # NoPin => qual'[a] = qual[a]
      PROVE  CaptureInv' /\ News
  <2>1. RowsNamed' /\ News
    BY <1>4 DEF CaptureInv, RowsNamed, News
  <2>2. \A i \in Issues, k \in Kinds : FactsOf(i, k)' = FactsOf(i, k)
    BY <1>4 DEF FactsOf
  <2>3. FactsKeepUp'
    BY <1>4, <2>2 DEF CaptureInv, FactsKeepUp, Kinds
  <2>4. PinIsTheQualification'
    <3> SUFFICES ASSUME NEW f \in Facts, row[f].pin # NoPin
                 PROVE  /\ row[f].pin = qual'[AccountOf[row[f].issue]]
                        /\ row[f].kind \in Declares[row[f].pin]
      BY <1>4 DEF PinIsTheQualification
    <3>1. /\ row[f].pin = qual[AccountOf[row[f].issue]]
          /\ row[f].kind \in Declares[row[f].pin]
      BY DEF CaptureInv, PinIsTheQualification
    <3>2. row[f].state # "absent"
      BY DEF CaptureInv, CaptureTypeOK, RowCheck
    <3>3. AccountOf[row[f].issue] \in Accounts
      BY <3>2 DEF CaptureInv, RowsNamed, CaptureAssumption
    <3>4. QED
      BY <1>4, <3>1, <3>3
  <2>5. QED
    BY <1>1, <2>1, <2>3, <2>4 DEF CaptureInv
<1>5. ASSUME NEW a \in Accounts, PersistQualification(a)
      PROVE  row' = row /\ issue' = issue /\ \A x \in Accounts : qual[x] # NoPin => qual'[x] = qual[x]
  BY <1>5 DEF PersistQualification, CaptureInv, CaptureTypeOK
<1>6. QED
  BY <1>2, <1>3, <1>4, <1>5
  DEF CaptureNext, OwnerChange, CertificateChange, ObserveQualification, DropQualification

LEMMA CaptureInvInit == ASSUME CaptureAssumption, CaptureInit PROVE CaptureInv
<1>1. CaptureTypeOK
  BY DEF CaptureAssumption, CaptureInit, CaptureTypeOK, NoTicket, Ticket, Statuses, NoRow, Row,
         RowCheck, States, Kinds, Leases, Owners
<1>2. RowsNamed /\ PinIsTheQualification
  BY DEF CaptureInit, NoRow, RowsNamed, PinIsTheQualification
<1>3. \A i \in Issues, k \in Kinds : FactsOf(i, k) = {}
  BY DEF CaptureAssumption, CaptureInit, NoRow, FactsOf
<1>4. FactsKeepUp
  BY <1>3 DEF CaptureInit, NoTicket, FactsKeepUp, Kinds
<1>5. QED
  BY <1>1, <1>2, <1>4 DEF CaptureInv

\* The sets of facts of CaptureInv have the sizes FactsMatchIssue asks for.
LEMMA KeepingUpIsMatching == ASSUME CaptureInv PROVE FactsMatchIssue
<1> SUFFICES ASSUME NEW i \in Issues
             PROVE  Cardinality(FactsOf(i, "created")) = IF issue[i].exists THEN 1 ELSE 0
  BY DEF CaptureInv, FactsKeepUp, FactsMatchIssue
<1>1. CASE issue[i].exists
  <2>1. PICK f \in Facts : FactsOf(i, "created") = {f}
    BY <1>1 DEF CaptureInv, FactsKeepUp
  <2>2. Cardinality({f}) = 1
    BY FS_Singleton
  <2>3. QED
    BY <1>1, <2>1, <2>2
<1>2. CASE ~issue[i].exists
  <2>1. FactsOf(i, "created") = {}
    BY <1>2 DEF CaptureInv, FactsKeepUp
  <2>2. QED
    BY <1>2, <2>1, FS_EmptySet
<1>3. QED
  BY <1>1, <1>2

\* The invariant of the capture holds in every reachable state of the capture alone.
THEOREM CaptureInvariantHolds == CaptureSpec => []CaptureInv
<1>1. CaptureInit => CaptureInv
  BY CaptureInvInit, CaptureAssumption
<1>2. CaptureInv /\ [CaptureNext]_captureVars => CaptureInv'
  <2>1. ASSUME CaptureInv, UNCHANGED captureVars PROVE CaptureInv'
    BY <2>1 DEF captureVars, CaptureInv, CaptureTypeOK, RowsNamed, FactsKeepUp, FactsOf,
                PinIsTheQualification
  <2>2. QED
    BY <2>1, CaptureInvStep, CaptureAssumption
<1>3. QED
  BY <1>1, <1>2, PTL DEF CaptureSpec

\* The fact log never lags an issue: one created fact from the moment it exists, an
\* escalated and a resolved fact as soon as it is escalated or resolved.
THEOREM FactsFollowIssues == CaptureSpec => []FactsMatchIssue
<1>1. CaptureInv => FactsMatchIssue
  BY KeepingUpIsMatching
<1>2. QED
  BY <1>1, CaptureInvariantHolds, PTL

\* A pinned fact carries the one qualification ever stored for its owner, which declares
\* its kind.
THEOREM PinNeverRelabelled == CaptureSpec => []PinIsTheQualification
<1>1. CaptureInv => PinIsTheQualification
  BY DEF CaptureInv
<1>2. QED
  BY <1>1, CaptureInvariantHolds, PTL

\* Every fact a write captures is something its issue just became.
THEOREM NothingIsCapturedTwice == CaptureSpec => FactsAreNews
<1>1. CaptureInv /\ [CaptureNext]_captureVars => [News]_captureVars
  BY CaptureInvStep, CaptureAssumption
<1>2. QED
  BY <1>1, CaptureInvariantHolds, PTL DEF CaptureSpec, FactsAreNews

-----------------------------------------------------------------------------
(* Type correctness.                                                       *)

\* Replacing one attempt keeps att well typed and the other attempts as they were.
LEMMA AttemptUpdate ==
  ASSUME att \in [Facts -> [Gens -> Attempt]], NEW f \in Facts, NEW g \in Gens,
         NEW r \in Attempt, att' = [att EXCEPT ![f][g] = r]
  PROVE  att' \in [Facts -> [Gens -> Attempt]] /\ att'[f][g] = r /\ Others(f, g)
BY DEF Others

LEMMA BecomeStep ==
  ASSUME att \in [Facts -> [Gens -> Attempt]], NEW f \in Facts, NEW g \in Gens,
         NEW pc \in Phases, NEW obs \in Pins \cup {NoPin},
         NEW out \in {"none"} \cup Receipts \cup Refusals, Become(f, g, pc, obs, out)
  PROVE  /\ att' \in [Facts -> [Gens -> Attempt]]
         /\ att'[f][g] = [pc |-> pc, obs |-> obs, out |-> out]
         /\ Others(f, g)
<1>1. [pc |-> pc, obs |-> obs, out |-> out] \in Attempt
  BY DEF Attempt
<1>2. QED
  BY <1>1, AttemptUpdate DEF Become

LEMMA GotoStep ==
  ASSUME att \in [Facts -> [Gens -> Attempt]], NEW f \in Facts, NEW g \in Gens,
         NEW pc \in Phases, Goto(f, g, pc)
  PROVE  /\ att' \in [Facts -> [Gens -> Attempt]]
         /\ att'[f][g] = [pc |-> pc, obs |-> att[f][g].obs, out |-> att[f][g].out]
         /\ Others(f, g)
<1>1. /\ att[f][g].obs \in Pins \cup {NoPin}
      /\ att[f][g].out \in {"none"} \cup Receipts \cup Refusals
  BY DEF Attempt
<1>2. QED
  BY <1>1, BecomeStep DEF Goto

LEMMA FailStep ==
  ASSUME att \in [Facts -> [Gens -> Attempt]], NEW f \in Facts, NEW g \in Gens,
         NEW code \in {"retry", "quarantine"}, Fail(f, g, code)
  PROVE  /\ att' \in [Facts -> [Gens -> Attempt]]
         /\ att'[f][g] = [pc |-> "failing", obs |-> NoPin, out |-> code]
         /\ Others(f, g)
<1>1. "failing" \in Phases /\ code \in Refusals
  BY DEF Phases, Refusals
<1>2. QED
  BY <1>1, BecomeStep DEF Fail

LEMMA StopStep ==
  ASSUME att \in [Facts -> [Gens -> Attempt]], NEW f \in Facts, NEW g \in Gens, Stop(f, g)
  PROVE  /\ att' \in [Facts -> [Gens -> Attempt]]
         /\ att'[f][g] = [pc |-> "done", obs |-> NoPin, out |-> "none"]
         /\ Others(f, g)
<1>1. "done" \in Phases
  BY DEF Phases
<1>2. QED
  BY <1>1, BecomeStep DEF Stop

\* An answer reaches the attempt only while it still waits for it.
LEMMA AnswerStep ==
  ASSUME att \in [Facts -> [Gens -> Attempt]], wire \subseteq Facts \X Gens,
         NEW f \in Facts, NEW g \in Gens, NEW out \in Receipts \cup Refusals, Answer(f, g, out)
  PROVE  /\ att' \in [Facts -> [Gens -> Attempt]]
         /\ wire' = wire \ {<<f, g>>}
         /\ \/ att' = att
            \/ /\ att[f][g].pc = "posted"
               /\ att'[f][g] = [pc |-> "replied", obs |-> att[f][g].obs, out |-> out]
         /\ Others(f, g)
<1>1. CASE att[f][g].pc = "posted"
  <2>1. "replied" \in Phases /\ att[f][g].obs \in Pins \cup {NoPin}
    BY DEF Phases, Attempt
  <2>2. Become(f, g, "replied", att[f][g].obs, out)
    BY <1>1 DEF Answer
  <2>3. QED
    BY <1>1, <2>1, <2>2, BecomeStep DEF Answer
<1>2. CASE att[f][g].pc # "posted"
  BY <1>2 DEF Answer, Others
<1>3. QED
  BY <1>1, <1>2

LEMMA SettleStep ==
  ASSUME row \in [Facts -> Row], NEW f \in Facts,
         NEW state \in {"pending", "delivered", "quarantined"}, NEW due \in BOOLEAN,
         Settle(f, state, due)
  PROVE  /\ row' \in [Facts -> Row]
         /\ row'[f].state = state /\ row'[f].lease = "none"
         /\ row'[f].pin = row[f].pin /\ row'[f].kind = row[f].kind
         /\ row'[f].issue = row[f].issue /\ row'[f].gen = row[f].gen
         /\ \A x \in Facts : x # f => row'[x] = row[x]
<1>1. row[f] \in Row
  OBVIOUS
<1>2. [row[f] EXCEPT !.state = state, !.lease = "none", !.due = due] \in Row
  BY <1>1 DEF Row, States, Leases
<1>3. row' = [row EXCEPT ![f] = [row[f] EXCEPT !.state = state, !.lease = "none", !.due = due]]
  BY DEF Settle
<1>4. QED
  BY <1>1, <1>2, <1>3 DEF Row

LEMMA ClaimStep ==
  ASSUME OutboxAssumption, TypeOK, NEW batch \in SUBSET Facts, Claim(batch)
  PROVE  /\ row' \in [Facts -> Row]
         /\ att' \in [Facts -> [Gens -> Attempt]]
         /\ \A f \in batch :
              /\ row[f].state = "pending" /\ row[f].lease # "live"
              /\ row'[f].state = "pending" /\ row'[f].lease = "live"
              /\ row'[f].issue = row[f].issue /\ row'[f].kind = row[f].kind
              /\ row'[f].pin = row[f].pin
         /\ \A f \in Facts \ batch : row'[f] = row[f] /\ att'[f] = att[f]
         /\ \A f \in Facts, g \in Gens :
              att'[f][g] = att[f][g] \/
              (f \in batch /\ att'[f][g] = [att[f][g] EXCEPT !.pc = "claimed"])
<1> DEFINE taken(f) == [row[f] EXCEPT !.gen = @ + 1, !.lease = "live"]
<1>1. ASSUME NEW f \in batch
      PROVE  /\ taken(f) \in Row
             /\ taken(f).state = row[f].state /\ taken(f).lease = "live"
             /\ taken(f).issue = row[f].issue /\ taken(f).kind = row[f].kind
             /\ taken(f).pin = row[f].pin
  <2>1. row[f] \in Row
    BY DEF TypeOK, CaptureTypeOK
  <2> DEFINE raised == [row[f] EXCEPT !.gen = @ + 1]
  <2>2. /\ raised \in Row
        /\ raised.state = row[f].state /\ raised.issue = row[f].issue
        /\ raised.kind = row[f].kind /\ raised.pin = row[f].pin
    BY <2>1 DEF Row
  <2>3. taken(f) = [raised EXCEPT !.lease = "live"]
    BY <2>1 DEF Row
  <2> HIDE DEF raised, taken
  <2>4. QED
    BY <2>2, <2>3 DEF Row, Leases
<1>2. ASSUME NEW f \in batch PROVE row[f].gen + 1 \in Gens
  <2>1. row[f].gen \in Nat
    BY DEF TypeOK, CaptureTypeOK, Row
  <2>2. row[f].gen < MaxGen
    BY DEF Claim, Claimable
  <2>3. QED
    BY <2>1, <2>2 DEF OutboxAssumption, Gens
<1>3. ASSUME NEW f \in batch
      PROVE  [att[f] EXCEPT ![row[f].gen + 1].pc = "claimed"] \in [Gens -> Attempt]
  <2>1. att[f] \in [Gens -> Attempt] /\ att[f][row[f].gen + 1] \in Attempt
    BY <1>2 DEF TypeOK
  <2>2. [att[f][row[f].gen + 1] EXCEPT !.pc = "claimed"] \in Attempt
    BY <2>1 DEF Attempt, Phases
  <2>3. QED
    BY <2>1, <2>2
<1>4. row' \in [Facts -> Row]
  BY <1>1 DEF Claim, TypeOK, CaptureTypeOK
<1>5. att' \in [Facts -> [Gens -> Attempt]]
  BY <1>3 DEF Claim, TypeOK
<1>6. \A f \in batch :
        /\ row[f].state = "pending" /\ row[f].lease # "live"
        /\ row'[f].state = "pending" /\ row'[f].lease = "live"
        /\ row'[f].issue = row[f].issue /\ row'[f].kind = row[f].kind
        /\ row'[f].pin = row[f].pin
  <2> TAKE f \in batch
  <2>1. row'[f] = taken(f)
    BY DEF Claim
  <2>2. row[f].state = "pending" /\ row[f].lease # "live"
    BY DEF Claim, Claimable
  <2> HIDE DEF taken
  <2>3. QED
    BY <1>1, <2>1, <2>2
<1>7. \A f \in Facts \ batch : row'[f] = row[f] /\ att'[f] = att[f]
  BY DEF Claim
<1>8. ASSUME NEW f \in batch, NEW g \in Gens
      PROVE  att'[f][g] = att[f][g] \/ att'[f][g] = [att[f][g] EXCEPT !.pc = "claimed"]
  <2>1. att'[f] = [att[f] EXCEPT ![row[f].gen + 1].pc = "claimed"]
    BY DEF Claim
  <2>2. att[f] \in [Gens -> Attempt]
    BY DEF TypeOK
  <2>3. QED
    BY <1>2, <2>1, <2>2
<1>9. QED
  BY <1>4, <1>5, <1>6, <1>7, <1>8

\* The initial state is well typed.
LEMMA InitTypeOK == ASSUME CaptureAssumption, OutboxAssumption, Init PROVE TypeOK
<1>1. CaptureTypeOK
  BY DEF CaptureAssumption, Init, CaptureInit, CaptureTypeOK, NoTicket, Ticket, Statuses, NoRow, Row,
         RowCheck, States, Kinds, Leases, Owners
<1>2. att \in [Facts -> [Gens -> Attempt]]
  BY DEF Init, NoAttempt, Attempt, Phases
<1>3. faults \in 0 .. MaxFaults
  BY DEF Init, OutboxAssumption
<1>4. QED
  BY <1>1, <1>2, <1>3 DEF Init, TypeOK

-----------------------------------------------------------------------------
(* One attempt moves: what every action of an attempt has in common.       *)

Live(f) == row[f].state \notin {"absent", "pending_authority"}

\* At most the row of f changes, from pending, keeps its evidence, gives its lease back,
\* and is marked delivered only if the intake recorded it.
RowMoves(f) ==
  /\ \A x \in Facts : x # f => row'[x] = row[x]
  /\ \/ row'[f] = row[f]
     \/ /\ row[f].state = "pending"
        /\ row'[f].state \in {"pending", "delivered", "quarantined"}
        /\ row'[f].state = "delivered" => f \in accepted
        /\ row'[f].issue = row[f].issue /\ row'[f].kind = row[f].kind
        /\ row'[f].pin = row[f].pin /\ row'[f].lease = "none"

\* The record an attempt may become.
Sound(f, r) ==
  /\ r.out \in Receipts => f \in accepted'
  /\ r.pc = "acking" => r.out \in Receipts
  /\ r.pc \in PastRecheck \cup {"admitted"} =>
       /\ r.obs = row[f].pin /\ row[f].kind \in Declares[r.obs] /\ row[f].issue \notin Malformed

LEMMA AttemptEffect ==
  ASSUME IInv, NEW f \in Facts, NEW g \in Gens, Live(f), RowMoves(f),
         Others(f, g), Sound(f, att'[f][g]),
         accepted \subseteq accepted', accepted' \subseteq accepted \cup {f},
         wire' \subseteq wire \cup {<<f, g>>}
  PROVE  RowsNamed' /\ HeldNeverLeaves' /\ ReceiptsAreReal' /\ DeliveredWasAccepted'
         /\ SentUnderObservedPin'
<1> USE DEF IInv
<1>1. RowsNamed'
  BY DEF RowsNamed, RowMoves
<1>2. HeldNeverLeaves'
  <2> SUFFICES ASSUME NEW x \in Facts, row'[x].state \in {"absent", "pending_authority"}
               PROVE  /\ x \notin accepted'
                      /\ \A y \in Gens : att'[x][y].pc = "idle" /\ <<x, y>> \notin wire'
    BY DEF HeldNeverLeaves
  <2>1. x # f /\ row'[x] = row[x]
    BY DEF RowMoves, Live
  <2>2. QED
    BY <2>1 DEF HeldNeverLeaves, Others
<1>3. ReceiptsAreReal'
  <2> SUFFICES ASSUME NEW x \in Facts, NEW y \in Gens
               PROVE  /\ att'[x][y].out \in Receipts => x \in accepted'
                      /\ att'[x][y].pc = "acking" => att'[x][y].out \in Receipts
    BY DEF ReceiptsAreReal
  <2>1. CASE x = f /\ y = g
    BY <2>1 DEF Sound
  <2>2. CASE x # f \/ y # g
    BY <2>2 DEF Others, ReceiptsAreReal
  <2>3. QED
    BY <2>1, <2>2
<1>4. DeliveredWasAccepted'
  BY DEF DeliveredWasAccepted, RowMoves
<1>5. SentUnderObservedPin'
  <2> SUFFICES ASSUME NEW x \in Facts, NEW y \in Gens,
                      att'[x][y].pc \in PastRecheck \cup {"admitted"}
               PROVE  /\ att'[x][y].obs = row'[x].pin
                      /\ row'[x].kind \in Declares[att'[x][y].obs]
                      /\ row'[x].issue \notin Malformed
    BY DEF SentUnderObservedPin
  <2>1. /\ row'[x].pin = row[x].pin /\ row'[x].kind = row[x].kind
        /\ row'[x].issue = row[x].issue
    BY DEF RowMoves
  <2>2. CASE x = f /\ y = g
    BY <2>1, <2>2 DEF Sound
  <2>3. CASE x # f \/ y # g
    BY <2>1, <2>3 DEF Others, SentUnderObservedPin
  <2>4. QED
    BY <2>2, <2>3
<1>6. QED
  BY <1>1, <1>2, <1>3, <1>4, <1>5

\* An attempt or a request exists only for a captured fact that is not held, and then
\* the owner of the fact is one of the owners.
LEMMA BusyIsLive ==
  ASSUME CaptureAssumption, IInv, NEW f \in Facts, NEW g \in Gens,
         att[f][g].pc # "idle" \/ <<f, g>> \in wire
  PROVE  Live(f) /\ Owner(f) \in Accounts /\ registry[Owner(f)] \in Pins \cup {NoPin}
<1>1. Live(f)
  BY DEF IInv, HeldNeverLeaves, Live
<1>2. Owner(f) \in Accounts
  BY <1>1 DEF Live, IInv, RowsNamed, Owner, CaptureAssumption
<1>3. QED
  BY <1>1, <1>2 DEF IInv, TypeOK, CaptureTypeOK

-----------------------------------------------------------------------------
(* Each step of an attempt keeps the invariant.                            *)

\* Steps that touch nothing but their attempt: the authority checks and the retry ways.
LEMMA QuietStep ==
  ASSUME CaptureAssumption, IInv, NEW f \in Facts, NEW g \in Gens, Live(f),
         att' \in [Facts -> [Gens -> Attempt]], Others(f, g), Sound(f, att'[f][g]),
         UNCHANGED <<captureVars, accepted>>, faults' \in 0 .. MaxFaults,
         wire' \subseteq wire \cup {<<f, g>>}
  PROVE  IInv'
<1>1. TypeOK'
  <2>1. <<f, g>> \in Facts \X Gens
    OBVIOUS
  <2>2. wire' \subseteq Facts \X Gens
    BY <2>1 DEF IInv, TypeOK
  <2>3. QED
    BY <2>2 DEF IInv, TypeOK, CaptureTypeOK, captureVars
<1>2. RowMoves(f)
  BY DEF RowMoves, captureVars
<1>3. QED
  BY <1>1, <1>2, AttemptEffect DEF IInv

\* Steps that complete a row.
LEMMA SettlingStep ==
  ASSUME CaptureAssumption, IInv, NEW f \in Facts, NEW g \in Gens, Live(f),
         NEW state \in {"pending", "delivered", "quarantined"}, NEW due \in BOOLEAN,
         Settle(f, state, due), row[f].state = "pending",
         state = "delivered" => f \in accepted,
         att' \in [Facts -> [Gens -> Attempt]], Others(f, g), Sound(f, att'[f][g]),
         UNCHANGED <<issue, source, registry, seen, qual, moves, wire, accepted>>,
         faults' \in 0 .. MaxFaults
  PROVE  IInv'
<1>1. row \in [Facts -> Row]
  BY DEF IInv, TypeOK, CaptureTypeOK
<1>2. /\ row' \in [Facts -> Row]
      /\ row'[f].state = state /\ row'[f].lease = "none"
      /\ row'[f].pin = row[f].pin /\ row'[f].kind = row[f].kind
      /\ row'[f].issue = row[f].issue
      /\ \A x \in Facts : x # f => row'[x] = row[x]
  BY <1>1, SettleStep
<1>a. \A x \in Facts : RowCheck(row'[x])
  BY <1>2 DEF IInv, TypeOK, CaptureTypeOK, RowCheck
<1>3. TypeOK'
  BY <1>2, <1>a DEF IInv, TypeOK, CaptureTypeOK, RowCheck
<1>4. RowMoves(f)
  BY <1>2 DEF RowMoves
<1>5. QED
  BY <1>3, <1>4, AttemptEffect DEF IInv

\* A failed or stopped attempt holds no receipt.
LEMMA FailedIsSound ==
  ASSUME NEW f \in Facts, NEW r, r.pc \in {"failing", "done"},
         r.out \in {"retry", "quarantine", "none"}
  PROVE  Sound(f, r)
BY DEF Sound, Receipts, PastRecheck

LEMMA AttemptStepInvariant ==
  ASSUME CaptureAssumption, OutboxAssumption, IInv,
         NEW f \in Facts, NEW g \in Gens, AttemptStep(f, g)
  PROVE  IInv'
<1>1. att[f][g].pc # "idle"
  BY DEF AttemptStep, Observe, ObserveAgain, Admit, Recheck, Post, Receive, FinishDelivered,
         FinishFailed
<1>2. Live(f) /\ Owner(f) \in Accounts /\ registry[Owner(f)] \in Pins \cup {NoPin}
  BY <1>1, BusyIsLive
<1>3. /\ att \in [Facts -> [Gens -> Attempt]]
      /\ faults \in 0 .. MaxFaults
      /\ att[f][g].out \in Receipts => f \in accepted
      /\ att[f][g].pc = "acking" => att[f][g].out \in Receipts
  BY DEF IInv, TypeOK, ReceiptsAreReal
<1>4. att[f][g].pc \in PastRecheck \cup {"admitted"} =>
        /\ att[f][g].obs = row[f].pin /\ row[f].kind \in Declares[att[f][g].obs]
        /\ row[f].issue \notin Malformed
  BY DEF IInv, SentUnderObservedPin
<1>5. ASSUME NEW code \in {"retry", "quarantine"}, Fail(f, g, code),
             UNCHANGED <<captureVars, wire, accepted, faults>>
      PROVE  IInv'
  BY <1>2, <1>3, <1>5, FailStep, FailedIsSound, QuietStep
<1>6. CASE Observe(f, g)
  <2>1. CASE Fail(f, g, "retry")
    BY <1>5, <1>6, <2>1 DEF Observe
  <2>2. CASE Become(f, g, "observed", registry[Owner(f)], "none")
    <3>a. "observed" \in Phases
      BY DEF Phases
    <3>b. /\ att' \in [Facts -> [Gens -> Attempt]] /\ Others(f, g)
          /\ att'[f][g] = [pc |-> "observed", obs |-> registry[Owner(f)], out |-> "none"]
      BY <1>2, <1>3, <2>2, <3>a, BecomeStep
    <3>1. /\ att' \in [Facts -> [Gens -> Attempt]] /\ Others(f, g)
          /\ att'[f][g].pc = "observed" /\ att'[f][g].out = "none"
      BY <3>b
    <3>2. Sound(f, att'[f][g])
      BY <3>1 DEF Sound, Receipts, PastRecheck
    <3>3. QED
      BY <1>2, <1>3, <1>6, <3>1, <3>2, QuietStep DEF Observe
  <2>3. QED
    BY <1>6, <2>1, <2>2 DEF Observe
<1>7. ASSUME NEW pc \in Phases \ {"acking"}, Goto(f, g, pc),
             pc \in PastRecheck \cup {"admitted"} =>
               /\ att[f][g].obs = row[f].pin /\ row[f].kind \in Declares[att[f][g].obs]
               /\ row[f].issue \notin Malformed,
             UNCHANGED <<captureVars, accepted, faults>>, wire' \subseteq wire \cup {<<f, g>>}
      PROVE  IInv'
  <2>a. pc \in Phases
    OBVIOUS
  <2>b. /\ att' \in [Facts -> [Gens -> Attempt]] /\ Others(f, g)
        /\ att'[f][g] = [pc |-> pc, obs |-> att[f][g].obs, out |-> att[f][g].out]
    BY <1>3, <1>7, <2>a, GotoStep
  <2>1. /\ att' \in [Facts -> [Gens -> Attempt]] /\ Others(f, g)
        /\ att'[f][g].pc = pc /\ att'[f][g].obs = att[f][g].obs
        /\ att'[f][g].out = att[f][g].out
    BY <2>b
  <2>2. Sound(f, att'[f][g])
    BY <1>3, <1>7, <2>1 DEF Sound
  <2>3. QED
    BY <1>2, <1>3, <1>7, <2>1, <2>2, QuietStep
<1>8. CASE ObserveAgain(f, g)
  <2>1. CASE Goto(f, g, "confirmed")
    BY <1>7, <1>8, <2>1 DEF ObserveAgain, Phases, PastRecheck
  <2>2. CASE \E code \in {"retry", "quarantine"} : Fail(f, g, code)
    BY <1>5, <1>8, <2>2 DEF ObserveAgain
  <2>3. QED
    BY <1>8, <2>1, <2>2 DEF ObserveAgain
<1>9. CASE Admit(f, g)
  <2>1. CASE \E code \in {"retry", "quarantine"} : Fail(f, g, code)
    BY <1>5, <1>9, <2>1 DEF Admit
  <2>2. CASE /\ Goto(f, g, "admitted") /\ att[f][g].obs = row[f].pin
             /\ row[f].kind \in Declares[att[f][g].obs] /\ row[f].issue \notin Malformed
    BY <1>7, <1>9, <2>2 DEF Admit, Phases
  <2>3. QED
    BY <1>9, <2>1, <2>2 DEF Admit
<1>10. CASE Recheck(f, g)
  <2>1. CASE Goto(f, g, "cleared")
    BY <1>4, <1>7, <1>10, <2>1 DEF Recheck, Phases
  <2>2. CASE Fail(f, g, "retry")
    BY <1>5, <1>10, <2>2 DEF Recheck
  <2>3. QED
    BY <1>10, <2>1, <2>2 DEF Recheck
<1>11. CASE Post(f, g)
  <2>1. att[f][g].pc \in PastRecheck
    BY <1>11 DEF Post, PastRecheck
  <2>2. QED
    BY <1>4, <1>7, <1>11, <2>1 DEF Post, Phases
<1>12. CASE Receive(f, g)
  <2>1. CASE \E code \in {"retry", "quarantine"} : Fail(f, g, code)
    BY <1>5, <1>12, <2>1 DEF Receive
  <2>2. CASE Goto(f, g, "acking") /\ att[f][g].out \in Receipts
    <3>a. "acking" \in Phases
      BY DEF Phases
    <3>b. /\ att' \in [Facts -> [Gens -> Attempt]] /\ Others(f, g)
          /\ att'[f][g] = [pc |-> "acking", obs |-> att[f][g].obs, out |-> att[f][g].out]
      BY <1>3, <2>2, <3>a, GotoStep
    <3>1. /\ att' \in [Facts -> [Gens -> Attempt]] /\ Others(f, g)
          /\ att'[f][g].obs = att[f][g].obs /\ att'[f][g].out = att[f][g].out
      BY <3>b
    <3>2. att[f][g].pc \in PastRecheck
      BY <1>12 DEF Receive, PastRecheck
    <3>3. Sound(f, att'[f][g])
      BY <1>3, <1>4, <1>12, <2>2, <3>1, <3>2 DEF Sound, Receive
    <3>4. QED
      BY <1>2, <1>3, <1>12, <3>1, <3>3, QuietStep DEF Receive
  <2>3. QED
    BY <1>12, <2>1, <2>2 DEF Receive, ReceiptValid
<1>13. CASE FinishDelivered(f, g)
  <2>1. CASE Fenced(f, g)
    <3>1. Settle(f, "delivered", FALSE) /\ Stop(f, g)
      BY <1>13, <2>1 DEF FinishDelivered
    <3>2. f \in accepted
      BY <1>3, <1>13 DEF FinishDelivered
    <3>3. att' \in [Facts -> [Gens -> Attempt]] /\ Others(f, g) /\ Sound(f, att'[f][g])
      BY <1>3, <3>1, StopStep, FailedIsSound
    <3>4. row[f].state = "pending"
      BY <2>1 DEF Fenced
    <3>5. QED
      BY <1>2, <1>3, <1>13, <3>1, <3>2, <3>3, <3>4, SettlingStep DEF FinishDelivered
  <2>2. CASE ~Fenced(f, g)
    BY <1>5, <1>13, <2>2 DEF FinishDelivered, captureVars
  <2>3. QED
    BY <2>1, <2>2
<1>14. CASE FinishFailed(f, g)
  <2>1. att' \in [Facts -> [Gens -> Attempt]] /\ Others(f, g) /\ Sound(f, att'[f][g])
    BY <1>3, <1>14, StopStep, FailedIsSound DEF FinishFailed
  <2>2. CASE Fenced(f, g)
    <3>1. \/ Settle(f, "quarantined", FALSE)
          \/ Settle(f, "pending", FALSE)
      BY <1>14, <2>2 DEF FinishFailed
    <3>2. row[f].state = "pending"
      BY <2>2 DEF Fenced
    <3>3. QED
      BY <1>2, <1>3, <1>14, <2>1, <3>1, <3>2, SettlingStep DEF FinishFailed
  <2>3. CASE ~Fenced(f, g)
    BY <1>2, <1>3, <1>14, <2>1, <2>3, QuietStep DEF FinishFailed, captureVars
  <2>4. QED
    BY <2>2, <2>3
<1>15. QED
  BY <1>6, <1>8, <1>9, <1>10, <1>11, <1>12, <1>13, <1>14 DEF AttemptStep

\* The fault budget stays in its range.
LEMMA FaultStep ==
  ASSUME OutboxAssumption, faults \in 0 .. MaxFaults, Fault
  PROVE  faults' \in 0 .. MaxFaults
BY DEF OutboxAssumption, Fault

\* What Runtime answers: only an accepted fact gets a receipt.
LEMMA AnswerInvariant ==
  ASSUME CaptureAssumption, IInv, NEW f \in Facts, NEW g \in Gens,
         NEW out \in Receipts \cup Refusals, Answer(f, g, out), <<f, g>> \in wire,
         UNCHANGED captureVars, accepted' \in {accepted, accepted \cup {f}},
         out \in Receipts => f \in accepted', faults' \in 0 .. MaxFaults
  PROVE  IInv'
<1>1. Live(f)
  BY BusyIsLive
<1>2. /\ att \in [Facts -> [Gens -> Attempt]] /\ wire \subseteq Facts \X Gens
      /\ accepted \subseteq Facts
  BY DEF IInv, TypeOK
<1>3. /\ att' \in [Facts -> [Gens -> Attempt]]
      /\ wire' = wire \ {<<f, g>>}
      /\ \/ att' = att
         \/ /\ att[f][g].pc = "posted"
            /\ att'[f][g] = [pc |-> "replied", obs |-> att[f][g].obs, out |-> out]
      /\ Others(f, g)
  BY <1>2, AnswerStep
<1>4. Sound(f, att'[f][g])
  <2>1. CASE att' = att
    <3>1. att[f][g].out \in Receipts => f \in accepted
      BY DEF IInv, ReceiptsAreReal
    <3>2. att[f][g].pc = "acking" => att[f][g].out \in Receipts
      BY DEF IInv, ReceiptsAreReal
    <3>3. QED
      BY <2>1, <3>1, <3>2 DEF IInv, SentUnderObservedPin, Sound
  <2>2. CASE /\ att[f][g].pc = "posted"
             /\ att'[f][g] = [pc |-> "replied", obs |-> att[f][g].obs, out |-> out]
    <3>1. att[f][g].pc \in PastRecheck
      BY <2>2 DEF PastRecheck
    <3>2. /\ att[f][g].obs = row[f].pin /\ row[f].kind \in Declares[att[f][g].obs]
          /\ row[f].issue \notin Malformed
      BY <3>1 DEF IInv, SentUnderObservedPin
    <3>3. QED
      BY <2>2, <3>2 DEF Sound
  <2>3. QED
    BY <1>3, <2>1, <2>2
<1>5. TypeOK'
  BY <1>2, <1>3 DEF IInv, TypeOK, CaptureTypeOK, captureVars
<1>6. RowMoves(f)
  BY DEF RowMoves, captureVars
<1>7. QED
  BY <1>1, <1>3, <1>4, <1>5, <1>6, AttemptEffect DEF IInv

LEMMA RuntimeAcceptInvariant ==
  ASSUME CaptureAssumption, IInv, NEW f \in Facts, NEW g \in Gens, RuntimeAccept(f, g)
  PROVE  IInv'
<1>1. PICK out \in Receipts : Answer(f, g, out)
  BY DEF RuntimeAccept, Receipts
<1>2. f \in accepted' /\ accepted' = accepted \cup {f} /\ <<f, g>> \in wire /\ faults' = faults
      /\ UNCHANGED captureVars
  BY DEF RuntimeAccept
<1>3. faults' \in 0 .. MaxFaults
  BY <1>2 DEF IInv, TypeOK
<1>4. QED
  BY <1>1, <1>2, <1>3, AnswerInvariant

LEMMA AttemptFaultInvariant ==
  ASSUME CaptureAssumption, OutboxAssumption, IInv,
         NEW f \in Facts, NEW g \in Gens, AttemptFault(f, g)
  PROVE  IInv'
<1>1. faults' \in 0 .. MaxFaults
  BY FaultStep DEF AttemptFault, RuntimeRefuse, FinishUnknown, Abort, Crash, IInv, TypeOK
<1>2. att \in [Facts -> [Gens -> Attempt]]
  BY DEF IInv, TypeOK
<1>3. ASSUME Fail(f, g, "retry") \/ Stop(f, g)
      PROVE  att' \in [Facts -> [Gens -> Attempt]] /\ Others(f, g) /\ Sound(f, att'[f][g])
  BY <1>2, <1>3, FailStep, StopStep, FailedIsSound
<1>4. CASE RuntimeRefuse(f, g)
  <2>1. PICK out \in Refusals : Answer(f, g, out)
    BY <1>4 DEF RuntimeRefuse
  <2>2. out \notin Receipts
    BY DEF Receipts, Refusals
  <2>3. QED
    BY <1>1, <1>4, <2>1, <2>2, AnswerInvariant DEF RuntimeRefuse
<1>5. CASE FinishUnknown(f, g)
  <2>1. att[f][g].pc = "acking" /\ Fail(f, g, "retry")
    BY <1>5 DEF FinishUnknown
  <2>2. Live(f) /\ f \in accepted
    BY <2>1, BusyIsLive DEF IInv, ReceiptsAreReal
  <2>3. CASE Fenced(f, g) /\ Settle(f, "delivered", FALSE)
    <3>1. row[f].state = "pending"
      BY <2>3 DEF Fenced
    <3>2. QED
      BY <1>1, <1>3, <1>5, <2>1, <2>2, <2>3, <3>1, SettlingStep DEF FinishUnknown
  <2>4. CASE UNCHANGED row
    BY <1>1, <1>3, <1>5, <2>1, <2>2, <2>4, QuietStep DEF FinishUnknown, captureVars
  <2>5. QED
    BY <1>5, <2>3, <2>4 DEF FinishUnknown
<1>6. CASE Abort(f, g)
  <2>1. att[f][g].pc # "idle"
    BY <1>6 DEF Abort, Waiting
  <2>2. QED
    BY <1>1, <1>3, <1>6, <2>1, BusyIsLive, QuietStep DEF Abort
<1>7. CASE Crash(f, g)
  <2>1. att[f][g].pc # "idle"
    BY <1>7 DEF Crash, Waiting
  <2>2. QED
    BY <1>1, <1>3, <1>7, <2>1, BusyIsLive, QuietStep DEF Crash
<1>8. QED
  BY <1>4, <1>5, <1>6, <1>7 DEF AttemptFault

-----------------------------------------------------------------------------
(* The steps of no single attempt.                                         *)

LEMMA ClaimInvariant ==
  ASSUME CaptureAssumption, OutboxAssumption, IInv, NEW batch \in SUBSET Facts, Claim(batch)
  PROVE  IInv'
<1>1. /\ row' \in [Facts -> Row]
      /\ att' \in [Facts -> [Gens -> Attempt]]
      /\ \A f \in batch : /\ row[f].state = "pending" /\ row'[f].state = "pending"
                          /\ row'[f].issue = row[f].issue /\ row'[f].kind = row[f].kind
                          /\ row'[f].pin = row[f].pin
      /\ \A f \in Facts \ batch : row'[f] = row[f] /\ att'[f] = att[f]
      /\ \A f \in Facts, g \in Gens :
           att'[f][g] = att[f][g] \/
           (f \in batch /\ att'[f][g] = [att[f][g] EXCEPT !.pc = "claimed"])
  BY ClaimStep DEF IInv
<1>2. \A f \in Facts : /\ row'[f].state = row[f].state /\ row'[f].issue = row[f].issue
                       /\ row'[f].kind = row[f].kind /\ row'[f].pin = row[f].pin
  BY <1>1
<1>3. UNCHANGED <<issue, source, registry, seen, qual, moves, wire, accepted, faults>>
  BY DEF Claim
<1>4. TypeOK'
  <2>1. \A f \in Facts : RowCheck(row'[f])
    BY <1>2 DEF IInv, TypeOK, CaptureTypeOK, RowCheck
  <2>2. QED
    BY <1>1, <1>3, <2>1 DEF IInv, TypeOK, CaptureTypeOK, RowCheck
<1>5. RowsNamed' /\ DeliveredWasAccepted'
  BY <1>2, <1>3 DEF IInv, RowsNamed, DeliveredWasAccepted
<1>6. HeldNeverLeaves'
  <2> SUFFICES ASSUME NEW f \in Facts, row'[f].state \in {"absent", "pending_authority"}
               PROVE  /\ f \notin accepted'
                      /\ \A g \in Gens : att'[f][g].pc = "idle" /\ <<f, g>> \notin wire'
    BY DEF HeldNeverLeaves
  <2>1. f \notin batch
    BY <1>1
  <2>2. row'[f] = row[f] /\ att'[f] = att[f]
    BY <1>1, <2>1
  <2>3. QED
    BY <1>3, <2>2 DEF IInv, HeldNeverLeaves
<1>7. \A f \in Facts, g \in Gens :
        \/ att'[f][g] = att[f][g]
        \/ att'[f][g].pc = "claimed" /\ att'[f][g].out = att[f][g].out
  <2> TAKE f \in Facts, g \in Gens
  <2>1. att[f][g] \in Attempt
    BY DEF IInv, TypeOK
  <2>2. att'[f][g] = att[f][g] \/ att'[f][g] = [att[f][g] EXCEPT !.pc = "claimed"]
    BY <1>1
  <2>3. QED
    BY <2>1, <2>2 DEF Attempt
<1>8. ReceiptsAreReal'
  BY <1>3, <1>7 DEF IInv, ReceiptsAreReal
<1>9. SentUnderObservedPin'
  BY <1>2, <1>7 DEF IInv, SentUnderObservedPin, PastRecheck
<1>10. QED
  BY <1>4, <1>5, <1>6, <1>8, <1>9 DEF IInv

LEMMA CaptureInvariant ==
  ASSUME CaptureAssumption, IInv, CaptureNext, UNCHANGED deliveryOnly
  PROVE  IInv'
<1>1. /\ CaptureTypeOK'
      /\ \A f \in Facts : \/ row'[f] = row[f]
                          \/ /\ row[f].state = "absent"
                             /\ row'[f].state \in {"pending", "pending_authority"}
                             /\ row'[f].issue \in Issues
  BY CaptureStep DEF IInv, TypeOK
<1>2. att' = att /\ wire' = wire /\ accepted' = accepted /\ faults' = faults
  BY DEF deliveryOnly
<1>3. TypeOK'
  BY <1>1, <1>2 DEF IInv, TypeOK
<1>4. RowsNamed' /\ DeliveredWasAccepted' /\ ReceiptsAreReal'
  BY <1>1, <1>2 DEF IInv, RowsNamed, DeliveredWasAccepted, ReceiptsAreReal
<1>5. HeldNeverLeaves'
  BY <1>1, <1>2 DEF IInv, HeldNeverLeaves
<1>6. SentUnderObservedPin'
  <2> SUFFICES ASSUME NEW f \in Facts, NEW g \in Gens,
                      att'[f][g].pc \in PastRecheck \cup {"admitted"}
               PROVE  /\ att'[f][g].obs = row'[f].pin
                      /\ row'[f].kind \in Declares[att'[f][g].obs]
                      /\ row'[f].issue \notin Malformed
    BY DEF SentUnderObservedPin
  <2>1. att[f][g].pc # "idle"
    BY <1>2 DEF PastRecheck
  <2>2. row'[f] = row[f]
    BY <1>1, <2>1 DEF IInv, HeldNeverLeaves
  <2>3. QED
    BY <1>2, <2>2 DEF IInv, SentUnderObservedPin
<1>7. QED
  BY <1>3, <1>4, <1>5, <1>6 DEF IInv

\* Time passing over a lease or a backoff changes no field the invariant reads.
LEMMA TimeInvariant ==
  ASSUME CaptureAssumption, OutboxAssumption, IInv, NEW f \in Facts,
         LeaseExpires(f) \/ BackoffEnds(f)
  PROVE  IInv'
<1>1. row[f] \in Row /\ row \in [Facts -> Row] /\ faults \in 0 .. MaxFaults
  BY DEF IInv, TypeOK, CaptureTypeOK
<1>2. \E r \in Row : /\ row' = [row EXCEPT ![f] = r]
                     /\ r.state = row[f].state /\ r.issue = row[f].issue
                     /\ r.kind = row[f].kind /\ r.pin = row[f].pin
  <2>1. CASE LeaseExpires(f)
    <3> DEFINE r == [row[f] EXCEPT !.lease = "expired"]
    <3>1. /\ r \in Row
          /\ r.state = row[f].state /\ r.issue = row[f].issue
          /\ r.kind = row[f].kind /\ r.pin = row[f].pin
      BY <1>1 DEF Row, Leases
    <3>2. row' = [row EXCEPT ![f] = r]
      BY <2>1 DEF LeaseExpires
    <3> HIDE DEF r
    <3>3. QED
      BY <3>1, <3>2
  <2>2. CASE BackoffEnds(f)
    <3> DEFINE r == [row[f] EXCEPT !.due = TRUE]
    <3>1. /\ r \in Row
          /\ r.state = row[f].state /\ r.issue = row[f].issue
          /\ r.kind = row[f].kind /\ r.pin = row[f].pin
      BY <1>1 DEF Row
    <3>2. row' = [row EXCEPT ![f] = r]
      BY <2>2 DEF BackoffEnds
    <3> HIDE DEF r
    <3>3. QED
      BY <3>1, <3>2
  <2>3. QED
    BY <2>1, <2>2
<1>3. faults' \in 0 .. MaxFaults
  BY <1>1, FaultStep DEF LeaseExpires, BackoffEnds, deliveryOnly
<1>4. UNCHANGED <<issue, source, registry, seen, qual, moves, att, wire, accepted>>
  BY DEF LeaseExpires, BackoffEnds, deliveryOnly
<1>5. \A x \in Facts : /\ row'[x].state = row[x].state /\ row'[x].issue = row[x].issue
                       /\ row'[x].kind = row[x].kind /\ row'[x].pin = row[x].pin
  BY <1>1, <1>2
<1>6. TypeOK'
  <2>1. \A x \in Facts : RowCheck(row'[x])
    BY <1>5 DEF IInv, TypeOK, CaptureTypeOK, RowCheck
  <2>2. row' \in [Facts -> Row]
    BY <1>1, <1>2
  <2>3. QED
    BY <1>3, <1>4, <2>1, <2>2 DEF IInv, TypeOK, CaptureTypeOK, RowCheck
<1>7. RowsNamed' /\ HeldNeverLeaves' /\ ReceiptsAreReal' /\ DeliveredWasAccepted'
  BY <1>4, <1>5 DEF IInv, RowsNamed, HeldNeverLeaves, ReceiptsAreReal, DeliveredWasAccepted
<1>8. SentUnderObservedPin'
  BY <1>4, <1>5 DEF IInv, SentUnderObservedPin
<1>9. QED
  BY <1>6, <1>7, <1>8 DEF IInv

-----------------------------------------------------------------------------
(* The theorems.                                                           *)

LEMMA InitIInv == ASSUME CaptureAssumption, OutboxAssumption, Init PROVE IInv
<1>1. /\ row = [f \in Facts |-> NoRow] /\ att = [f \in Facts |-> [g \in Gens |-> NoAttempt]]
      /\ wire = {} /\ accepted = {}
  BY DEF Init, CaptureInit
<1>2. RowsNamed /\ DeliveredWasAccepted /\ HeldNeverLeaves
  BY <1>1 DEF RowsNamed, DeliveredWasAccepted, HeldNeverLeaves, NoRow, NoAttempt
<1>3. ReceiptsAreReal /\ SentUnderObservedPin
  BY <1>1 DEF ReceiptsAreReal, SentUnderObservedPin, NoAttempt, Receipts, PastRecheck
<1>4. QED
  BY <1>2, <1>3, InitTypeOK DEF IInv

LEMMA NextIInv ==
  ASSUME CaptureAssumption, OutboxAssumption, IInv, [Next]_vars PROVE IInv'
<1>1. CASE UNCHANGED vars
  BY <1>1 DEF vars, captureVars, deliveryOnly, IInv, TypeOK, CaptureTypeOK, RowsNamed,
             HeldNeverLeaves, ReceiptsAreReal, DeliveredWasAccepted, SentUnderObservedPin
<1>2. CASE CaptureNext /\ UNCHANGED deliveryOnly
  BY <1>2, CaptureInvariant
<1>3. ASSUME NEW batch \in SUBSET Facts, Claim(batch) PROVE IInv'
  BY <1>3, ClaimInvariant
<1>4. ASSUME NEW f \in Facts, NEW g \in Gens,
             AttemptStep(f, g) \/ RuntimeAccept(f, g) \/ AttemptFault(f, g)
      PROVE  IInv'
  BY <1>4, AttemptStepInvariant, RuntimeAcceptInvariant, AttemptFaultInvariant
<1>5. ASSUME NEW f \in Facts, LeaseExpires(f) \/ BackoffEnds(f) PROVE IInv'
  BY <1>5, TimeInvariant
<1>6. QED
  BY <1>1, <1>2, <1>3, <1>4, <1>5 DEF Next

\* The inductive invariant holds in every reachable state.
THEOREM InductiveInvariant == Spec => []IInv
<1>1. Init => IInv
  BY InitIInv, CaptureAssumption, OutboxAssumption
<1>2. IInv /\ [Next]_vars => IInv'
  BY NextIInv, CaptureAssumption, OutboxAssumption
<1>3. QED
  BY <1>1, <1>2, PTL DEF Spec

\* Every variable of the outbox keeps its shape.
THEOREM TypeCorrect == Spec => []TypeOK
<1>1. IInv => TypeOK
  BY DEF IInv
<1>2. QED
  BY <1>1, InductiveInvariant, PTL

\* A row the database shows as delivered was recorded by Runtime.
THEOREM DeliveryIsTrue == Spec => []DeliveredWasAccepted
<1>1. IInv => DeliveredWasAccepted
  BY DEF IInv
<1>2. QED
  BY <1>1, InductiveInvariant, PTL

\* A fact captured without authority is never claimed, sent or recorded by Runtime.
THEOREM HeldForever == Spec => []HeldNeverLeaves
<1>1. IInv => HeldNeverLeaves
  BY DEF IInv
<1>2. QED
  BY <1>1, InductiveInvariant, PTL

\* A fact is sent only under the pin it was captured with, observed again in the attempt.
THEOREM SentUnderItsPin == Spec => []SentUnderObservedPin
<1>1. IInv => SentUnderObservedPin
  BY DEF IInv
<1>2. QED
  BY <1>1, InductiveInvariant, PTL

-----------------------------------------------------------------------------
(* The outbox implements the abstract promise of module FactDelivery.      *)

\* Every action of an attempt moves at most its own row, and records nothing at Runtime.
LEMMA AttemptMoves ==
  ASSUME IInv, NEW f \in Facts, NEW g \in Gens, AttemptStep(f, g) \/ AttemptFault(f, g)
  PROVE  RowMoves(f) /\ accepted' = accepted
<1>1. row \in [Facts -> Row]
  BY DEF IInv, TypeOK, CaptureTypeOK
<1>2. accepted' = accepted
  BY DEF AttemptStep, Observe, ObserveAgain, Admit, Recheck, Post, Receive, FinishDelivered,
         FinishFailed, AttemptFault, RuntimeRefuse, FinishUnknown, Abort, Crash
<1>3. ASSUME NEW state \in {"pending", "delivered", "quarantined"}, Settle(f, state, FALSE),
             Fenced(f, g), state = "delivered" => f \in accepted
      PROVE  RowMoves(f)
  BY <1>1, <1>3, SettleStep DEF RowMoves, Fenced
<1>4. CASE UNCHANGED row
  BY <1>2, <1>4 DEF RowMoves
<1>5. att[f][g].pc = "acking" => f \in accepted
  BY DEF IInv, ReceiptsAreReal
<1>6. CASE FinishDelivered(f, g)
  BY <1>2, <1>3, <1>4, <1>5, <1>6 DEF FinishDelivered
<1>7. CASE FinishFailed(f, g)
  BY <1>2, <1>3, <1>4, <1>7 DEF FinishFailed
<1>8. CASE FinishUnknown(f, g)
  BY <1>2, <1>3, <1>4, <1>5, <1>8 DEF FinishUnknown
<1>9. QED
  BY <1>4, <1>6, <1>7, <1>8
  DEF AttemptStep, Observe, ObserveAgain, Admit, Recheck, Post, Receive, AttemptFault,
      RuntimeRefuse, Abort, Crash, captureVars

\* What the mapping makes of each row state.
LEMMA OutcomeValues ==
  ASSUME NEW f \in Facts
  PROVE  /\ row[f].state = "absent" => Outcome(f) = "absent"
         /\ row[f].state = "pending" => Outcome(f) = "owed"
         /\ row[f].state = "pending_authority" => Outcome(f) = "held"
         /\ row[f].state = "delivered" => Outcome(f) = "acknowledged"
         /\ row[f].state = "quarantined" => Outcome(f) = "quarantined"
BY DEF Outcome

LEMMA OutcomeValuesNext ==
  ASSUME NEW f \in Facts
  PROVE  /\ row'[f].state = "absent" => Outcome(f)' = "absent"
         /\ row'[f].state = "pending" => Outcome(f)' = "owed"
         /\ row'[f].state = "pending_authority" => Outcome(f)' = "held"
         /\ row'[f].state = "delivered" => Outcome(f)' = "acknowledged"
         /\ row'[f].state = "quarantined" => Outcome(f)' = "quarantined"
BY DEF Outcome

OutcomeOf == [f \in Facts |-> Outcome(f)]

\* A step that leaves every state alone leaves every outcome alone.
LEMMA SameOutcome ==
  ASSUME \A f \in Facts : row'[f].state = row[f].state PROVE OutcomeOf' = OutcomeOf
<1>1. \A f \in Facts : Outcome(f)' = Outcome(f)
  BY DEF Outcome
<1>2. QED
  BY <1>1 DEF OutcomeOf

LEMMA RowMoveImplements ==
  ASSUME IInv, NEW f \in Facts, RowMoves(f), accepted' = accepted
  PROVE  [Promise!DeliveryNext]_(Promise!deliveryVars)
<1>1. CASE \A x \in Facts : row'[x].state = row[x].state
  BY <1>1, SameOutcome DEF Promise!deliveryVars, OutcomeOf
<1>2. CASE ~ \A x \in Facts : row'[x].state = row[x].state
  <2>1. /\ row[f].state = "pending" /\ row'[f].state \in {"delivered", "quarantined"}
        /\ row'[f].state = "delivered" => f \in accepted
    BY <1>2 DEF RowMoves
  <2>2. Outcome(f) = "owed"
    BY <2>1, OutcomeValues
  <2>3. ASSUME NEW x \in Facts, x # f PROVE Outcome(x)' = Outcome(x)
    BY <2>3 DEF RowMoves, Outcome
  <2>4. OutcomeOf' = [OutcomeOf EXCEPT ![f] = Outcome(f)']
    BY <2>3 DEF OutcomeOf
  <2>5. CASE row'[f].state = "delivered"
    <3>1. Outcome(f)' = "acknowledged"
      BY <2>5, OutcomeValuesNext
    <3>2. Promise!Acknowledge(f)
      BY <2>1, <2>2, <2>4, <2>5, <3>1 DEF Promise!Acknowledge, OutcomeOf
    <3>3. QED
      BY <3>2 DEF Promise!DeliveryNext
  <2>6. CASE row'[f].state = "quarantined"
    <3>1. Outcome(f)' = "quarantined"
      BY <2>6, OutcomeValuesNext
    <3>2. Promise!GiveUp(f)
      BY <2>1, <2>2, <2>4, <3>1 DEF Promise!GiveUp, OutcomeOf
    <3>3. QED
      BY <3>2 DEF Promise!DeliveryNext
  <2>7. QED
    BY <2>1, <2>5, <2>6
<1>3. QED
  BY <1>1, <1>2

LEMMA CaptureImplements ==
  ASSUME CaptureAssumption, IInv, CaptureNext, UNCHANGED deliveryOnly
  PROVE  [Promise!DeliveryNext]_(Promise!deliveryVars)
<1>1. \A f \in Facts : \/ row'[f] = row[f]
                       \/ /\ row[f].state = "absent"
                          /\ row'[f].state \in {"pending", "pending_authority"}
  BY CaptureStep DEF IInv, TypeOK
<1>2. accepted' = accepted
  BY DEF deliveryOnly
<1> DEFINE new == {f \in Facts : row'[f] # row[f]}
           held == {f \in new : row'[f].state = "pending_authority"}
<1>3. \A f \in new : OutcomeOf[f] = "absent"
  BY <1>1, OutcomeValues DEF OutcomeOf
<1>4. ASSUME NEW f \in Facts
      PROVE  Outcome(f)' = IF f \in held THEN "held"
                           ELSE IF f \in new THEN "owed" ELSE OutcomeOf[f]
  <2>1. CASE f \in new
    BY <1>1, <2>1, OutcomeValuesNext
  <2>2. CASE f \notin new
    <3>1. Outcome(f)' = Outcome(f)
      BY <2>2 DEF Outcome
    <3>2. QED
      BY <2>2, <3>1 DEF OutcomeOf
  <2>3. QED
    BY <2>1, <2>2
<1>5. OutcomeOf' = [f \in Facts |-> IF f \in held THEN "held"
                                    ELSE IF f \in new THEN "owed" ELSE OutcomeOf[f]]
  BY <1>4 DEF OutcomeOf
<1>6. held \in SUBSET new /\ new \in SUBSET Facts
  OBVIOUS
<1> HIDE DEF new, held
<1>7. Promise!Record(new)
  BY <1>2, <1>3, <1>5, <1>6 DEF Promise!Record, OutcomeOf
<1>8. QED
  BY <1>6, <1>7 DEF Promise!DeliveryNext

LEMMA ReachImplements ==
  ASSUME CaptureAssumption, IInv, NEW f \in Facts, NEW g \in Gens, RuntimeAccept(f, g)
  PROVE  [Promise!DeliveryNext]_(Promise!deliveryVars)
<1>1. row' = row /\ accepted' = accepted \cup {f}
  BY DEF RuntimeAccept, captureVars
<1>2. OutcomeOf' = OutcomeOf
  BY <1>1, SameOutcome
<1>3. row[f].state \in {"pending", "delivered", "quarantined"}
  <2>1. Live(f)
    BY BusyIsLive DEF RuntimeAccept
  <2>2. row[f] \in Row
    BY DEF IInv, TypeOK, CaptureTypeOK
  <2>3. QED
    BY <2>1, <2>2 DEF Live, Row, States
<1>4. OutcomeOf[f] \in {"owed", "acknowledged", "quarantined"}
  BY <1>3, OutcomeValues DEF OutcomeOf
<1>5. Promise!Reach(f)
  BY <1>1, <1>2, <1>4 DEF Promise!Reach, OutcomeOf
<1>6. QED
  BY <1>5 DEF Promise!DeliveryNext

LEMMA NextImplements ==
  ASSUME CaptureAssumption, OutboxAssumption, IInv, [Next]_vars
  PROVE  [Promise!DeliveryNext]_(Promise!deliveryVars)
<1>1. ASSUME \A f \in Facts : row'[f].state = row[f].state, accepted' = accepted
      PROVE  [Promise!DeliveryNext]_(Promise!deliveryVars)
  BY <1>1, SameOutcome DEF Promise!deliveryVars, OutcomeOf
<1>2. CASE UNCHANGED vars
  BY <1>1, <1>2 DEF vars, captureVars, deliveryOnly
<1>3. CASE CaptureNext /\ UNCHANGED deliveryOnly
  BY <1>3, CaptureImplements
<1>4. ASSUME NEW batch \in SUBSET Facts, Claim(batch)
      PROVE  [Promise!DeliveryNext]_(Promise!deliveryVars)
  <2>1. \A f \in Facts : row'[f].state = row[f].state
    BY <1>4, ClaimStep DEF IInv
  <2>2. QED
    BY <1>1, <1>4, <2>1 DEF Claim
<1>5. ASSUME NEW f \in Facts, NEW g \in Gens, AttemptStep(f, g) \/ AttemptFault(f, g)
      PROVE  [Promise!DeliveryNext]_(Promise!deliveryVars)
  BY <1>5, AttemptMoves, RowMoveImplements
<1>6. ASSUME NEW f \in Facts, NEW g \in Gens, RuntimeAccept(f, g)
      PROVE  [Promise!DeliveryNext]_(Promise!deliveryVars)
  BY <1>6, ReachImplements
<1>7. ASSUME NEW f \in Facts, LeaseExpires(f) \/ BackoffEnds(f)
      PROVE  [Promise!DeliveryNext]_(Promise!deliveryVars)
  <2>1. row \in [Facts -> Row] /\ row[f] \in Row
    BY DEF IInv, TypeOK, CaptureTypeOK
  <2>2. \A x \in Facts : row'[x].state = row[x].state
    BY <1>7, <2>1 DEF LeaseExpires, BackoffEnds, Row
  <2>3. accepted' = accepted
    BY <1>7 DEF LeaseExpires, BackoffEnds, deliveryOnly
  <2>4. QED
    BY <1>1, <2>2, <2>3
<1>8. QED
  BY <1>2, <1>3, <1>4, <1>5, <1>6, <1>7 DEF Next

\* The outbox implements FactDelivery: whatever crashes, takeovers, repeated or foreign
\* answers happen, a fact is recorded once, only an owed fact reaches Runtime, and it is
\* acknowledged only after it has.
THEOREM OutboxKeepsPromise == Spec => ImplementsFactDelivery
<1>1. Init => Promise!DeliveryInit
  BY DEF Init, CaptureInit, NoRow, Promise!DeliveryInit, Outcome
<1>2. IInv /\ [Next]_vars => [Promise!DeliveryNext]_(Promise!deliveryVars)
  BY NextImplements, CaptureAssumption, OutboxAssumption
<1>3. QED
  BY <1>1, <1>2, InductiveInvariant, PTL
  DEF Spec, ImplementsFactDelivery, Promise!DeliverySpec

-----------------------------------------------------------------------------
(* Evidence is immutable, in every step of the composed system.            *)

\* How a step changes a row: by capturing it, or from pending, without touching what the
\* fact says, and then either it stays pending or its lease is given back.
LEMMA RowSteps ==
  ASSUME CaptureAssumption, OutboxAssumption, IInv, LeasedIsPending, Next, NEW f \in Facts
  PROVE  \/ row'[f] = row[f]
         \/ row[f].state = "absent" /\ row'[f].lease = "none"
         \/ /\ row[f].state = "pending"
            /\ row'[f].state = "pending" \/ row'[f].lease = "none"
            /\ row'[f].state # "absent"
            /\ row'[f].issue = row[f].issue /\ row'[f].kind = row[f].kind
            /\ row'[f].pin = row[f].pin
<1>1. row \in [Facts -> Row] /\ row[f] \in Row
  BY DEF IInv, TypeOK, CaptureTypeOK
<1>2. CASE CaptureNext
  BY <1>2, CaptureStep DEF IInv, TypeOK
<1>3. ASSUME NEW batch \in SUBSET Facts, Claim(batch)
      PROVE  \/ row'[f] = row[f]
             \/ /\ row[f].state = "pending" /\ row'[f].state = "pending"
                /\ row'[f].issue = row[f].issue /\ row'[f].kind = row[f].kind
                /\ row'[f].pin = row[f].pin
  BY <1>3, ClaimStep DEF IInv
<1>4. ASSUME NEW x \in Facts, NEW g \in Gens, AttemptStep(x, g) \/ AttemptFault(x, g)
      PROVE  \/ row'[f] = row[f]
             \/ /\ row[f].state = "pending" /\ row'[f].lease = "none"
                /\ row'[f].state # "absent"
                /\ row'[f].issue = row[f].issue /\ row'[f].kind = row[f].kind
                /\ row'[f].pin = row[f].pin
  BY <1>4, AttemptMoves DEF RowMoves
<1>5. ASSUME NEW x \in Facts, NEW g \in Gens, RuntimeAccept(x, g) PROVE row'[f] = row[f]
  BY <1>5 DEF RuntimeAccept, captureVars
<1>6. ASSUME NEW x \in Facts, LeaseExpires(x)
      PROVE  \/ row'[f] = row[f]
             \/ /\ row[f].state = "pending" /\ row'[f].state = "pending"
                /\ row'[f].issue = row[f].issue /\ row'[f].kind = row[f].kind
                /\ row'[f].pin = row[f].pin
  <2>1. row[x].state = "pending"
    BY <1>6 DEF LeasedIsPending, LeaseExpires
  <2>2. row' = [row EXCEPT ![x].lease = "expired"]
    BY <1>6 DEF LeaseExpires
  <2>3. QED
    BY <1>1, <2>1, <2>2 DEF Row
<1>7. ASSUME NEW x \in Facts, BackoffEnds(x)
      PROVE  \/ row'[f] = row[f]
             \/ /\ row[f].state = "pending" /\ row'[f].state = "pending"
                /\ row'[f].issue = row[f].issue /\ row'[f].kind = row[f].kind
                /\ row'[f].pin = row[f].pin
  BY <1>1, <1>7 DEF BackoffEnds, Row
<1>8. CASE \E batch \in SUBSET Facts : Claim(batch)
  BY <1>3, <1>8
<1>9. CASE \E x \in Facts, g \in Gens : AttemptStep(x, g) \/ AttemptFault(x, g)
  BY <1>4, <1>9
<1>10. CASE \E x \in Facts, g \in Gens : RuntimeAccept(x, g)
  BY <1>5, <1>10
<1>11. CASE \E x \in Facts : LeaseExpires(x)
  BY <1>6, <1>11
<1>12. CASE \E x \in Facts : BackoffEnds(x)
  BY <1>7, <1>12
<1>13. QED
  BY <1>2, <1>8, <1>9, <1>10, <1>11, <1>12 DEF Next

\* A step that captures nothing leaves an absent row absent.
LEMMA RowStaysAbsent ==
  ASSUME CaptureAssumption, OutboxAssumption, IInv, LeasedIsPending, Next, ~CaptureNext,
         NEW f \in Facts, row[f].state = "absent"
  PROVE  row'[f] = row[f]
<1>1. row \in [Facts -> Row] /\ row[f] \in Row
  BY DEF IInv, TypeOK, CaptureTypeOK
<1>2. ASSUME NEW batch \in SUBSET Facts, Claim(batch) PROVE row'[f] = row[f]
  BY <1>2, ClaimStep DEF IInv
<1>3. ASSUME NEW x \in Facts, NEW g \in Gens, AttemptStep(x, g) \/ AttemptFault(x, g)
      PROVE  row'[f] = row[f]
  BY <1>3, AttemptMoves DEF RowMoves
<1>4. ASSUME NEW x \in Facts, NEW g \in Gens, RuntimeAccept(x, g) PROVE row'[f] = row[f]
  BY <1>4 DEF RuntimeAccept, captureVars
<1>5. ASSUME NEW x \in Facts, LeaseExpires(x) \/ BackoffEnds(x) PROVE row'[f] = row[f]
  <2>1. row[x].state = "pending"
    BY <1>5 DEF LeasedIsPending, LeaseExpires, BackoffEnds
  <2>2. \A y \in Facts : y # x => row'[y] = row[y]
    BY <1>1, <1>5 DEF LeaseExpires, BackoffEnds
  <2>3. QED
    BY <2>1, <2>2
<1>6. QED
  BY <1>2, <1>3, <1>4, <1>5 DEF Next

\* Only a pending row is leased: a settled row is never claimed back.
THEOREM OnlyPendingLeased == Spec => []LeasedIsPending
<1>1. Init => LeasedIsPending
  BY DEF Init, CaptureInit, NoRow, LeasedIsPending
<1>2. IInv /\ LeasedIsPending /\ [Next]_vars => LeasedIsPending'
  <2>1. ASSUME IInv, LeasedIsPending, Next PROVE LeasedIsPending'
    BY <2>1, RowSteps, CaptureAssumption, OutboxAssumption DEF LeasedIsPending
  <2>2. ASSUME LeasedIsPending, UNCHANGED vars PROVE LeasedIsPending'
    BY <2>2 DEF vars, captureVars, LeasedIsPending
  <2>3. QED
    BY <2>1, <2>2
<1>3. QED
  BY <1>1, <1>2, InductiveInvariant, PTL DEF Spec

\* A qualification once stored stays: the steps of delivery do not write it.
LEMMA QualificationStays ==
  ASSUME IInv, Next, NEW a \in Accounts, qual[a] # NoPin PROVE qual'[a] = qual[a]
<1>1. CASE CaptureNext
  <2>1. ASSUME NEW x \in Accounts, PersistQualification(x) PROVE qual'[a] = qual[a]
    BY <2>1 DEF PersistQualification, IInv, TypeOK, CaptureTypeOK
  <2>2. CASE qual' = qual
    BY <2>2
  <2>3. QED
    BY <1>1, <2>1, <2>2
    DEF CaptureNext, OwnerChange, CertificateChange, ObserveQualification, DropQualification,
        InsertIssue, UpdateIssue, WriteIssue
<1>2. CASE \E f \in Facts, g \in Gens : AttemptStep(f, g)
  BY <1>2 DEF AttemptStep, Observe, ObserveAgain, Admit, Recheck, Post, Receive,
              FinishDelivered, FinishFailed, captureVars
<1>3. CASE \E f \in Facts, g \in Gens : RuntimeAccept(f, g) \/ AttemptFault(f, g)
  BY <1>3 DEF RuntimeAccept, AttemptFault, RuntimeRefuse, FinishUnknown, Abort, Crash, captureVars
<1>4. CASE (\E batch \in SUBSET Facts : Claim(batch)) \/ \E f \in Facts : LeaseExpires(f) \/ BackoffEnds(f)
  BY <1>4 DEF Claim, LeaseExpires, BackoffEnds
<1>5. QED
  BY <1>1, <1>2, <1>3, <1>4 DEF Next

\* A captured fact keeps what it says, a held or settled fact keeps everything, and a
\* stored qualification stays, in every step of capture, delivery and faults.
THEOREM EvidenceStays == Spec => EvidenceImmutable
<1>1. IInv /\ LeasedIsPending /\ [Next]_vars => [KeepsEvidence]_<<row, qual>>
  <2>1. ASSUME IInv, LeasedIsPending, Next PROVE KeepsEvidence
    <3>1. ASSUME NEW f \in Facts
          PROVE  /\ row[f].state # "absent" =>
                      /\ row'[f].issue = row[f].issue
                      /\ row'[f].kind = row[f].kind
                      /\ row'[f].pin = row[f].pin
                 /\ row[f].state \in Final => row'[f] = row[f]
      BY <2>1, RowSteps, CaptureAssumption, OutboxAssumption DEF Final
    <3>2. QED
      BY <2>1, <3>1, QualificationStays DEF KeepsEvidence
  <2>2. ASSUME UNCHANGED vars PROVE UNCHANGED <<row, qual>>
    BY <2>2 DEF vars, captureVars
  <2>3. QED
    BY <2>1, <2>2
<1>2. QED
  BY <1>1, InductiveInvariant, OnlyPendingLeased, PTL DEF Spec, EvidenceImmutable

-----------------------------------------------------------------------------
(* The facts follow the issues in the composed system too.                 *)

\* Delivery leaves what the capture's invariant speaks about alone.
LEMMA DeliveryKeepsCapture ==
  ASSUME CaptureAssumption, OutboxAssumption, IInv, LeasedIsPending, CaptureInv, Next, ~CaptureNext
  PROVE  CaptureInv'
<1>1. CaptureTypeOK' /\ RowsNamed'
  BY NextIInv DEF IInv, TypeOK
<1>2. issue' = issue /\ qual' = qual
  <2>1. CASE \E f \in Facts, g \in Gens : AttemptStep(f, g)
    BY <2>1 DEF AttemptStep, Observe, ObserveAgain, Admit, Recheck, Post, Receive,
                FinishDelivered, FinishFailed, captureVars
  <2>2. CASE \E f \in Facts, g \in Gens : RuntimeAccept(f, g) \/ AttemptFault(f, g)
    BY <2>2 DEF RuntimeAccept, AttemptFault, RuntimeRefuse, FinishUnknown, Abort, Crash, captureVars
  <2>3. CASE (\E batch \in SUBSET Facts : Claim(batch)) \/ \E f \in Facts : LeaseExpires(f) \/ BackoffEnds(f)
    BY <2>3 DEF Claim, LeaseExpires, BackoffEnds
  <2>4. QED
    BY <2>1, <2>2, <2>3 DEF Next
<1>3. ASSUME NEW f \in Facts
      PROVE  /\ row'[f].issue = row[f].issue /\ row'[f].kind = row[f].kind
             /\ row'[f].pin = row[f].pin
  <2>1. row[f].state = "absent" => row'[f] = row[f]
    BY RowStaysAbsent
  <2>2. QED
    BY <2>1, RowSteps
<1>4. ASSUME NEW i \in Issues, NEW k PROVE FactsOf(i, k)' = FactsOf(i, k)
  BY <1>3 DEF FactsOf
<1>5. FactsKeepUp'
  BY <1>2, <1>4 DEF CaptureInv, FactsKeepUp
<1>6. PinIsTheQualification'
  BY <1>2, <1>3 DEF CaptureInv, PinIsTheQualification
<1>7. QED
  BY <1>1, <1>5, <1>6 DEF CaptureInv

\* While the facts are delivered the log still follows every issue, and no takeover, retry
\* or late completion relabels a fact.
THEOREM CaptureHoldsInDelivery == Spec => [](FactsMatchIssue /\ PinIsTheQualification)
<1>1. Init => CaptureInv
  BY CaptureInvInit, CaptureAssumption DEF Init
<1>2. IInv /\ LeasedIsPending /\ CaptureInv /\ [Next]_vars => CaptureInv'
  <2>1. ASSUME CaptureInv, UNCHANGED vars PROVE CaptureInv'
    BY <2>1 DEF vars, captureVars, CaptureInv, CaptureTypeOK, RowsNamed, FactsKeepUp, FactsOf,
                PinIsTheQualification
  <2>2. QED
    BY <2>1, CaptureInvStep, DeliveryKeepsCapture, CaptureAssumption, OutboxAssumption
<1>3. CaptureInv => FactsMatchIssue /\ PinIsTheQualification
  BY KeepingUpIsMatching DEF CaptureInv
<1>4. QED
  BY <1>1, <1>2, <1>3, InductiveInvariant, OnlyPendingLeased, PTL DEF Spec

-----------------------------------------------------------------------------
(* A revocation closes the window.                                         *)

\* Without a current owner an attempt does not pass its last local check, and an attempt
\* that has not passed it sends nothing.
LEMMA AttemptGoes ==
  ASSUME IInv, NEW f \in Facts, NEW g \in Gens,
         AttemptStep(f, g) \/ RuntimeAccept(f, g) \/ AttemptFault(f, g),
         ~LocalCurrent(f), att[f][g].pc \notin PastRecheck
  PROVE  Others(f, g) /\ att'[f][g].pc \notin PastRecheck /\ wire' \subseteq wire
<1>1. att \in [Facts -> [Gens -> Attempt]] /\ wire \subseteq Facts \X Gens
  BY DEF IInv, TypeOK
<1>2. ASSUME NEW code \in {"retry", "quarantine"}, Fail(f, g, code)
      PROVE  Others(f, g) /\ att'[f][g].pc \notin PastRecheck
  BY <1>1, <1>2, FailStep DEF PastRecheck
<1>3. ASSUME Stop(f, g) PROVE Others(f, g) /\ att'[f][g].pc \notin PastRecheck
  BY <1>1, <1>3, StopStep DEF PastRecheck
<1>4. ASSUME NEW out, Answer(f, g, out)
      PROVE  Others(f, g) /\ att'[f][g].pc \notin PastRecheck /\ wire' \subseteq wire
  BY <1>4 DEF Answer, Others, PastRecheck
<1>5. CASE Observe(f, g)
  <2>1. wire' = wire /\ Fail(f, g, "retry")
    BY <1>5 DEF Observe
  <2>2. QED
    BY <1>2, <2>1
<1>6. CASE ObserveAgain(f, g)
  BY <1>2, <1>6 DEF ObserveAgain
<1>7. CASE Admit(f, g)
  BY <1>2, <1>7 DEF Admit
<1>8. CASE Recheck(f, g)
  BY <1>2, <1>8 DEF Recheck
<1>9. CASE FinishFailed(f, g) \/ Crash(f, g)
  BY <1>3, <1>9 DEF FinishFailed, Crash
<1>10. CASE Abort(f, g)
  BY <1>2, <1>10 DEF Abort
<1>11. CASE RuntimeAccept(f, g) \/ RuntimeRefuse(f, g)
  BY <1>4, <1>11 DEF RuntimeAccept, RuntimeRefuse
<1>12. ~(Post(f, g) \/ Receive(f, g) \/ FinishDelivered(f, g) \/ FinishUnknown(f, g))
  BY DEF Post, Receive, FinishDelivered, FinishUnknown, PastRecheck
<1>13. QED
  BY <1>5, <1>6, <1>7, <1>8, <1>9, <1>10, <1>11, <1>12 DEF AttemptStep, AttemptFault

\* What an attempt does to the request of another.
LEMMA OtherRequests ==
  ASSUME IInv, NEW f \in Facts, NEW g \in Gens,
         AttemptStep(f, g) \/ RuntimeAccept(f, g) \/ AttemptFault(f, g)
  PROVE  Others(f, g) /\ wire' \subseteq wire \cup {<<f, g>>}
<1>1. att \in [Facts -> [Gens -> Attempt]] /\ wire \subseteq Facts \X Gens
  BY DEF IInv, TypeOK
<1>2. ASSUME NEW r, att' = [att EXCEPT ![f][g] = r] PROVE Others(f, g)
  BY <1>1, <1>2 DEF Others
<1>3. (\E r : att' = [att EXCEPT ![f][g] = r]) \/ att' = att
  BY DEF AttemptStep, Observe, ObserveAgain, Admit, Recheck, Post, Receive, FinishDelivered,
         FinishFailed, RuntimeAccept, AttemptFault, RuntimeRefuse, FinishUnknown, Abort, Crash,
         Answer, Goto, Fail, Stop, Become
<1>4. wire' \subseteq wire \cup {<<f, g>>}
  BY DEF AttemptStep, Observe, ObserveAgain, Admit, Recheck, Post, Receive, FinishDelivered,
         FinishFailed, RuntimeAccept, AttemptFault, RuntimeRefuse, FinishUnknown, Abort, Crash,
         Answer
<1>5. Others(f, g)
  BY <1>2, <1>3 DEF Others
<1>6. QED
  BY <1>4, <1>5

\* After a revocation no attempt passes its last local check, and none that has not
\* passed it sends: the window of late requests only shrinks.
THEOREM RevocationHolds == Spec => RevocationClosesWindow
<1>1. IInv /\ [Next]_vars => [WindowCloses]_vars
  <2> SUFFICES ASSUME IInv, Next, NEW f \in Facts, NEW g \in Gens,
                      row[f].state # "absent", source[Owner(f)] = "revoked",
                      att[f][g].pc \notin PastRecheck
               PROVE  att'[f][g].pc \notin PastRecheck /\ (<<f, g>> \in wire' => <<f, g>> \in wire)
    BY DEF WindowCloses
  <2>1. ASSUME att' = att, wire' = wire
        PROVE  att'[f][g].pc \notin PastRecheck /\ (<<f, g>> \in wire' => <<f, g>> \in wire)
    BY <2>1
  <2>2. ASSUME NEW x \in Facts, NEW y \in Gens,
               AttemptStep(x, y) \/ RuntimeAccept(x, y) \/ AttemptFault(x, y)
        PROVE  att'[f][g].pc \notin PastRecheck /\ (<<f, g>> \in wire' => <<f, g>> \in wire)
    <3>1. CASE x = f /\ y = g
      <4>1. ~LocalCurrent(f)
        BY DEF LocalCurrent
      <4>2. QED
        BY <2>2, <3>1, <4>1, AttemptGoes
    <3>2. CASE x # f \/ y # g
      <4>1. Others(x, y) /\ wire' \subseteq wire \cup {<<x, y>>}
        BY <2>2, OtherRequests
      <4>2. QED
        BY <3>2, <4>1 DEF Others
    <3>3. QED
      BY <3>1, <3>2
  <2>3. ASSUME NEW batch \in SUBSET Facts, Claim(batch)
        PROVE  att'[f][g].pc \notin PastRecheck /\ (<<f, g>> \in wire' => <<f, g>> \in wire)
    <3>1. \/ att'[f][g] = att[f][g]
          \/ att'[f][g] = [att[f][g] EXCEPT !.pc = "claimed"]
      BY <2>3, ClaimStep, OutboxAssumption DEF IInv
    <3>2. att[f][g] \in Attempt
      BY DEF IInv, TypeOK
    <3>3. wire' = wire
      BY <2>3 DEF Claim
    <3>4. QED
      BY <3>1, <3>2, <3>3 DEF Attempt, PastRecheck
  <2>4. ASSUME NEW x \in Facts, LeaseExpires(x) \/ BackoffEnds(x)
        PROVE  att' = att /\ wire' = wire
    BY <2>4 DEF LeaseExpires, BackoffEnds, deliveryOnly
  <2>5. CASE CaptureNext /\ UNCHANGED deliveryOnly
    BY <2>1, <2>5 DEF deliveryOnly
  <2>6. QED
    BY <2>1, <2>2, <2>3, <2>4, <2>5 DEF Next
<1>2. QED
  BY <1>1, InductiveInvariant, PTL DEF Spec, RevocationClosesWindow

-----------------------------------------------------------------------------
(* A stalled attempt does not complete the row of the one after it.        *)

Working == Waiting \cup {"acking"}

\* An attempt changes a row only under the fence, and then it works no more.
LEMMA AttemptUnderFence ==
  ASSUME IInv, NEW x \in Facts, NEW y \in Gens,
         AttemptStep(x, y) \/ RuntimeAccept(x, y) \/ AttemptFault(x, y)
  PROVE  /\ \A f \in Facts : row'[f].gen = row[f].gen
         /\ \A f \in Facts : f # x \/ row[f].gen # y => row'[f] = row[f]
         /\ att'[x][y].pc \in Working => row' = row /\ att[x][y].pc \in Working
<1>1. row \in [Facts -> Row] /\ att \in [Facts -> [Gens -> Attempt]]
  BY DEF IInv, TypeOK, CaptureTypeOK
<1>2. ASSUME NEW state \in {"pending", "delivered", "quarantined"}, Settle(x, state, FALSE),
             Fenced(x, y)
      PROVE  /\ \A f \in Facts : row'[f].gen = row[f].gen
             /\ \A f \in Facts : f # x \/ row[f].gen # y => row'[f] = row[f]
  BY <1>1, <1>2, SettleStep DEF Fenced
<1>3. ASSUME NEW code \in {"retry", "quarantine"}, Fail(x, y, code)
      PROVE  att'[x][y].pc \notin Working
  BY <1>1, <1>3, FailStep DEF Working, Waiting
<1>4. ASSUME Stop(x, y) PROVE att'[x][y].pc \notin Working
  BY <1>1, <1>4, StopStep DEF Working, Waiting
<1>5. CASE FinishDelivered(x, y)
  BY <1>2, <1>3, <1>4, <1>5 DEF FinishDelivered
<1>6. CASE FinishFailed(x, y)
  BY <1>2, <1>4, <1>6 DEF FinishFailed
<1>7. CASE FinishUnknown(x, y)
  BY <1>2, <1>3, <1>7 DEF FinishUnknown
<1>8. CASE RuntimeAccept(x, y) \/ RuntimeRefuse(x, y)
  <2>1. row' = row /\ \E out : Answer(x, y, out)
    BY <1>8 DEF RuntimeAccept, RuntimeRefuse, captureVars
  <2>2. att'[x][y].pc = att[x][y].pc \/ att[x][y].pc = "posted"
    BY <2>1 DEF Answer
  <2>3. QED
    BY <2>1, <2>2 DEF Working, Waiting
<1>9. CASE Crash(x, y) \/ Abort(x, y)
  BY <1>3, <1>4, <1>9 DEF Crash, Abort, captureVars
<1>10. CASE \/ Observe(x, y) \/ ObserveAgain(x, y) \/ Admit(x, y)
            \/ Recheck(x, y) \/ Post(x, y) \/ Receive(x, y)
  <2>1. row' = row
    BY <1>10 DEF Observe, ObserveAgain, Admit, Recheck, Post, Receive, captureVars
  <2>2. att[x][y].pc \in Working
    BY <1>10 DEF Observe, ObserveAgain, Admit, Recheck, Post, Receive, Working, Waiting
  <2>3. QED
    BY <2>1, <2>2
<1>11. QED
  BY <1>5, <1>6, <1>7, <1>8, <1>9, <1>10 DEF AttemptStep, AttemptFault

\* A claim makes a new attempt the newest and leases its row.
LEMMA ClaimLeases ==
  ASSUME OutboxAssumption, IInv, NEW batch \in SUBSET Facts, Claim(batch), NEW f \in Facts
  PROVE  \/ f \in batch /\ row'[f].state = "pending" /\ row'[f].lease = "live"
         \/ row'[f] = row[f] /\ att'[f] = att[f]
BY ClaimStep DEF IInv

\* However long an attempt stalls and whenever its answers come: as long as the newest
\* attempt at a fact works, the row is pending and its lease is of that attempt.
THEOREM NewestKeepsItsRow == Spec => []NewestAttemptHoldsRow
<1>1. CaptureAssumption /\ OutboxAssumption /\ Init => NewestAttemptHoldsRow
  BY DEF Init, NoAttempt, NewestAttemptHoldsRow, Waiting
<1>2. IInv /\ LeasedIsPending /\ NewestAttemptHoldsRow /\ [Next]_vars => NewestAttemptHoldsRow'
  <2> SUFFICES ASSUME IInv, LeasedIsPending, NewestAttemptHoldsRow, [Next]_vars,
                      NEW f \in Facts, NEW g \in Gens,
                      g = row'[f].gen, att'[f][g].pc \in Working
               PROVE  row'[f].state = "pending" /\ row'[f].lease # "none"
    BY DEF NewestAttemptHoldsRow, Working
  <2>1. row \in [Facts -> Row] /\ row[f] \in Row /\ "idle" \notin Working
    BY DEF IInv, TypeOK, CaptureTypeOK, Working, Waiting
  <2>2. row'[f] = row[f] /\ att[f][g].pc \in Working
        => row'[f].state = "pending" /\ row'[f].lease # "none"
    BY DEF NewestAttemptHoldsRow, Working
  <2>3. CASE CaptureNext /\ UNCHANGED deliveryOnly
    <3>1. att'[f][g].pc = att[f][g].pc
      BY <2>3 DEF deliveryOnly
    <3>2. row[f].state # "absent"
      BY <2>1, <3>1 DEF IInv, HeldNeverLeaves
    <3>3. row'[f] = row[f]
      BY <2>3, <3>2, CaptureStep, CaptureAssumption DEF IInv, TypeOK
    <3>4. QED
      BY <2>2, <3>1, <3>3
  <2>4. ASSUME NEW batch \in SUBSET Facts, Claim(batch)
        PROVE  row'[f].state = "pending" /\ row'[f].lease # "none"
    BY <2>2, <2>4, ClaimLeases, OutboxAssumption
  <2>5. ASSUME NEW x \in Facts, NEW y \in Gens,
               AttemptStep(x, y) \/ RuntimeAccept(x, y) \/ AttemptFault(x, y)
        PROVE  row'[f].state = "pending" /\ row'[f].lease # "none"
    <3>1. /\ row'[f].gen = row[f].gen
          /\ f # x \/ row[f].gen # y => row'[f] = row[f]
          /\ att'[x][y].pc \in Working => row' = row /\ att[x][y].pc \in Working
      BY <2>5, AttemptUnderFence
    <3>2. CASE f = x /\ g = y
      BY <2>2, <3>1, <3>2
    <3>3. CASE f # x \/ g # y
      <4>1. att'[f][g] = att[f][g]
        BY <2>5, <3>3, OtherRequests DEF Others
      <4>2. QED
        BY <2>2, <3>1, <3>3, <4>1
    <3>4. QED
      BY <3>2, <3>3
  <2>6. ASSUME NEW x \in Facts, LeaseExpires(x) \/ BackoffEnds(x)
        PROVE  row'[f].state = "pending" /\ row'[f].lease # "none"
    <3>1. att' = att
      BY <2>6 DEF LeaseExpires, BackoffEnds, deliveryOnly
    <3>2. /\ row'[f].gen = row[f].gen /\ row'[f].state = row[f].state
          /\ row[f].lease # "none" => row'[f].lease # "none"
      BY <2>1, <2>6 DEF LeaseExpires, BackoffEnds, Row
    <3>3. QED
      BY <3>1, <3>2 DEF NewestAttemptHoldsRow, Working
  <2>7. CASE UNCHANGED vars
    BY <2>2, <2>7 DEF vars, captureVars, deliveryOnly
  <2>8. QED
    BY <2>3, <2>4, <2>5, <2>6, <2>7 DEF Next
<1>3. QED
  BY <1>1, <1>2, InductiveInvariant, OnlyPendingLeased, CaptureAssumption, OutboxAssumption, PTL DEF Spec
=============================================================================
