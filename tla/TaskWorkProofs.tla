---------------------------- MODULE TaskWorkProofs ----------------------------
(***************************************************************************)
(* Proofs about TaskWork for every set of tickets and every bound.         *)
(*                                                                         *)
(* The argument: apart from a new request, every step leaves a row its     *)
(* ticket, version, revision and source, and leaves a delivered row        *)
(* delivered under its work (RowsKept).  A request is admitted only when   *)
(* all earlier revisions of its ticket are delivered, so its source is     *)
(* their common work (SourceIsLink), and a receipt is accepted only under  *)
(* the source.  A row becomes delivered only by an attempt that holds a    *)
(* work, and such a work is the one Tasks recorded (AttemptsAreReal).      *)
(***************************************************************************)
EXTENDS TaskWork, FiniteSetTheorems, TLAPS

-----------------------------------------------------------------------------
(* What steps do to attempts.                                              *)

Others(f, g) ==
  \A x \in Refs, y \in Gens : x # f \/ y # g => att'[x][y] = att[x][y]

LEMMA AttemptUpdate ==
  ASSUME NEW f \in Refs, NEW g \in Gens, NEW a \in Attempt, att \in [Refs -> [Gens -> Attempt]],
         att' = [att EXCEPT ![f][g] = a]
  PROVE  att' \in [Refs -> [Gens -> Attempt]] /\ att'[f][g] = a /\ Others(f, g)
BY DEF Others

LEMMA BecomeStep ==
  ASSUME NEW f \in Refs, NEW g \in Gens, NEW pc \in Phases, NEW token \in BOOLEAN,
         NEW work \in Works \cup {NoWork}, att \in [Refs -> [Gens -> Attempt]],
         Become(f, g, pc, token, work)
  PROVE  /\ att' \in [Refs -> [Gens -> Attempt]] /\ Others(f, g)
         /\ att'[f][g].pc = pc /\ att'[f][g].work = work
<1> DEFINE a == [pc |-> pc, token |-> token, work |-> work]
<1>1. a \in Attempt /\ a.pc = pc /\ a.work = work
  BY DEF Attempt
<1>2. att' = [att EXCEPT ![f][g] = a]
  BY DEF Become
<1> HIDE DEF a
<1>3. QED
  BY <1>1, <1>2, AttemptUpdate

LEMMA GotoStep ==
  ASSUME NEW f \in Refs, NEW g \in Gens, NEW pc \in Phases,
         att \in [Refs -> [Gens -> Attempt]], Goto(f, g, pc)
  PROVE  /\ att' \in [Refs -> [Gens -> Attempt]] /\ Others(f, g)
         /\ att'[f][g].pc = pc /\ att'[f][g].work = att[f][g].work
<1> DEFINE a == [att[f][g] EXCEPT !.pc = pc]
<1>1. att[f][g] \in Attempt
  OBVIOUS
<1>2. a \in Attempt /\ a.pc = pc /\ a.work = att[f][g].work
  BY <1>1 DEF Attempt
<1>3. att' = [att EXCEPT ![f][g] = a]
  BY DEF Goto
<1> HIDE DEF a
<1>4. QED
  BY <1>2, <1>3, AttemptUpdate

LEMMA FailStep ==
  ASSUME NEW f \in Refs, NEW g \in Gens, att \in [Refs -> [Gens -> Attempt]],
         Fail(f, g) \/ Stop(f, g)
  PROVE  /\ att' \in [Refs -> [Gens -> Attempt]] /\ Others(f, g)
         /\ att'[f][g].pc \in {"failing", "done"} /\ att'[f][g].work = NoWork
BY BecomeStep DEF Fail, Stop, Phases

\* The effect of a step of the attempt (f, g): the others stay, it holds no work but the one
\* it held or the one Tasks recorded, and it is the attempt of a captured row.
AttemptMoved(f, g) ==
  /\ att' \in [Refs -> [Gens -> Attempt]] /\ Others(f, g)
  /\ att'[f][g].work \in {NoWork, att[f][g].work, tasks'[f]}
  /\ wire' \subseteq wire \cup {<<f, g>>}
  /\ row[f].state = "absent" => att'[f][g].pc = "idle" /\ wire' \subseteq wire

LEMMA CheckMoves ==
  ASSUME NEW f \in Refs, NEW g \in Gens, att \in [Refs -> [Gens -> Attempt]], AttemptsAreReal,
         NEW from \in Phases \ {"idle"}, NEW to \in Phases, NEW ok, Check(f, g, from, to, ok)
  PROVE  AttemptMoved(f, g) /\ UNCHANGED <<ticketVars, row, outcomes, linked, wire, tasks, faults>>
<1>1. Goto(f, g, to) \/ Fail(f, g)
  BY DEF Check
<1>2. row[f].state # "absent"
  BY DEF Check, AttemptsAreReal
<1>3. QED
  BY <1>1, <1>2, GotoStep, FailStep DEF Check, AttemptMoved

-----------------------------------------------------------------------------
(* What steps do to rows.                                                  *)

\* What no step but a request changes in a row, and what a delivered row keeps.
RowKept(f) ==
  /\ row'[f].issue = row[f].issue /\ row'[f].ver = row[f].ver
  /\ row'[f].rev = row[f].rev /\ row'[f].source = row[f].source
  /\ row'[f].state = "absent" <=> row[f].state = "absent"
  /\ row[f].state = "delivered" => row'[f].state = "delivered" /\ row'[f].work = row[f].work

RowsTyped ==
  /\ row \in [Refs -> Row]
  /\ \A f \in Refs : row[f].work # NoWork <=> row[f].state = "delivered"

\* A row becomes delivered only under a work that Tasks recorded for it, and its source.
DeliveredAsRecorded(f) ==
  row[f].state # "delivered" /\ row'[f].state = "delivered" =>
    /\ row'[f].work = tasks[f] /\ tasks[f] # NoWork
    /\ row[f].source \in {NoWork, tasks[f]}

\* The completion's update of a pending row.
LEMMA SettleStep ==
  ASSUME RowsTyped, NEW f \in Refs, row[f].state = "pending",
         NEW state \in {"pending", "delivered"}, NEW work \in Works \cup {NoWork},
         work # NoWork <=> state = "delivered", Settle(f, state, work)
  PROVE  /\ RowsTyped' /\ \A h \in Refs : RowKept(h)
         /\ row'[f].state = state /\ row'[f].work = work
         /\ \A h \in Refs : h # f => row'[h] = row[h]
<1> DEFINE r == [row[f] EXCEPT !.state = state, !.work = work, !.lease = "none", !.due = FALSE]
<1>1. row[f] \in Row
  BY DEF RowsTyped
<1>2. /\ r \in Row /\ r.state = state /\ r.work = work
      /\ r.issue = row[f].issue /\ r.ver = row[f].ver /\ r.rev = row[f].rev
      /\ r.source = row[f].source
  BY <1>1 DEF Row
<1>3. row' = [row EXCEPT ![f] = r]
  BY DEF Settle, RowsTyped
<1> HIDE DEF r
<1>4. QED
  BY <1>2, <1>3 DEF RowsTyped, RowKept

\* Claims and time touch the lease of a row only.
LEMMA LeaseStep ==
  ASSUME RowsTyped, NEW f \in Refs, NEW r \in Row, row' = [row EXCEPT ![f] = r],
         r.issue = row[f].issue, r.ver = row[f].ver, r.rev = row[f].rev,
         r.source = row[f].source, r.state = row[f].state, r.work = row[f].work
  PROVE  RowsTyped' /\ \A h \in Refs : RowKept(h) /\ row'[h].state = row[h].state
BY DEF RowsTyped, RowKept

LEMMA RowsStay ==
  ASSUME RowsTyped, UNCHANGED row
  PROVE  RowsTyped' /\ \A h \in Refs : RowKept(h) /\ row'[h].state = row[h].state
BY DEF RowsTyped, RowKept

-----------------------------------------------------------------------------
(* The frame of every step but a request.                                  *)

LEMMA RevisionsStay ==
  ASSUME IInv, \A f \in Refs : RowKept(f)
  PROVE  RevisionsAreSettled'
<1>1. \A f \in Refs : row'[f].issue = row[f].issue /\ row'[f].rev = row[f].rev
  BY DEF RowKept
<1> SUFFICES ASSUME NEW i \in Issues
             PROVE  /\ {row'[f].rev : f \in RowsOf(i)'} = 0 .. Cardinality(RowsOf(i)') - 1
                    /\ \A f \in RowsOf(i)' : row'[f].state = "delivered" \/ Latest(f)'
  BY DEF RevisionsAreSettled
<1>2. RowsOf(i)' = RowsOf(i) /\ RowsOf(i) \subseteq Refs
  BY <1>1 DEF RowsOf
<1>3. {row'[f].rev : f \in RowsOf(i)} = {row[f].rev : f \in RowsOf(i)}
  BY <1>1, <1>2
<1>4. {row[f].rev : f \in RowsOf(i)} = 0 .. Cardinality(RowsOf(i)) - 1
  BY DEF IInv, RevisionsAreSettled
<1>5. ASSUME NEW f \in RowsOf(i) PROVE row'[f].state = "delivered" \/ Latest(f)'
  <2>1. f \in Refs /\ (row[f].state = "delivered" \/ Latest(f))
    BY <1>2 DEF IInv, RevisionsAreSettled
  <2>2. CASE row[f].state = "delivered"
    BY <2>1, <2>2 DEF RowKept
  <2>3. CASE Latest(f)
    BY <1>1, <2>1, <2>3 DEF Latest, RowsOf
  <2>4. QED
    BY <2>1, <2>2, <2>3
<1>6. QED
  BY <1>2, <1>3, <1>4, <1>5

LEMMA LinkStays ==
  ASSUME IInv, TypeOK', \A f \in Refs : RowKept(f) /\ DeliveredAsRecorded(f),
         \A f \in Refs : tasks[f] # NoWork => tasks'[f] = tasks[f]
  PROVE  SourceIsLink' /\ WorkLinkIsStable'
<1>1. SourceIsLink'
  BY DEF IInv, SourceIsLink, RowKept, DeliveredAsRecorded
<1>2. \A f \in Refs : row'[f].state = "delivered" => row'[f].work = tasks'[f]
  BY DEF IInv, TypeOK, WorkLinkIsStable, RowKept, DeliveredAsRecorded
<1>3. ASSUME NEW f \in Refs, NEW h \in Refs, row'[f].state = "delivered",
             row'[h].state = "delivered", row'[f].issue = row'[h].issue
      PROVE  row'[f].work = row'[h].work
  <2>1. /\ row'[f].rev \in Nat /\ row'[h].rev \in Nat
        /\ row'[f].work # NoWork /\ row'[h].work # NoWork
    BY <1>3 DEF TypeOK, Row
  <2>2. row'[f].issue # NoIssue
    BY <1>3 DEF IInv, AttemptsAreReal, RowKept
  <2>3. CASE row'[f].rev = row'[h].rev
    BY <1>1, <1>3, <2>2, <2>3 DEF SourceIsLink
  <2>4. CASE row'[f].rev < row'[h].rev
    BY <1>1, <1>3, <2>1, <2>2, <2>4 DEF SourceIsLink
  <2>5. CASE row'[h].rev < row'[f].rev
    BY <1>1, <1>3, <2>1, <2>2, <2>5 DEF SourceIsLink
  <2>6. QED
    BY <2>1, <2>3, <2>4, <2>5
<1>4. QED
  BY <1>1, <1>2, <1>3 DEF WorkLinkIsStable

LEMMA OutcomesStay ==
  ASSUME IInv, \A f \in Refs : RowKept(f), UNCHANGED outcomes
  PROVE  OneOutcomePerIntake'
BY DEF IInv, TypeOK, OneOutcomePerIntake, RowKept

LEMMA Frame ==
  ASSUME IInv, TypeOK', \A f \in Refs : RowKept(f) /\ DeliveredAsRecorded(f),
         \A f \in Refs : tasks[f] # NoWork => tasks'[f] = tasks[f],
         AttemptsAreReal', OneOutcomePerIntake'
  PROVE  IInv'
BY RevisionsStay, LinkStays DEF IInv
LEMMA FaultCounts ==
  ASSUME IInv, Fault \/ UNCHANGED faults
  PROVE  faults' \in 0 .. MaxFaults
BY TaskWorkAssumption DEF Fault, IInv, TypeOK

\* Tasks forgets no work, and records one for a captured row only.
TasksGrow ==
  /\ tasks' \in [Refs -> Works \cup {NoWork}]
  /\ \A f \in Refs : tasks'[f] = tasks[f] \/ (tasks[f] = NoWork /\ row[f].state # "absent")

\* Attempts stay real when one attempt moves.
LEMMA RealAfterMove ==
  ASSUME IInv, \A x \in Refs : RowKept(x), TasksGrow, NEW f \in Refs, NEW g \in Gens,
         AttemptMoved(f, g)
  PROVE  AttemptsAreReal'
<1>1. \A x \in Refs : row'[x].issue = row[x].issue
                      /\ (row'[x].state = "absent" <=> row[x].state = "absent")
  BY DEF RowKept
<1>2. \A x \in Refs : tasks'[x] # NoWork => row[x].state # "absent"
  BY DEF IInv, AttemptsAreReal, TasksGrow
<1>3. ASSUME NEW x \in Refs, NEW y \in Gens
      PROVE  /\ att'[x][y].pc # "idle" \/ <<x, y>> \in wire' => row[x].state # "absent"
             /\ att'[x][y].work \in {NoWork, tasks'[x]}
  <2>1. att[x][y].work \in {NoWork, tasks'[x]}
    BY DEF IInv, AttemptsAreReal, TasksGrow
  <2>2. CASE x = f /\ y = g
    BY <2>1, <2>2 DEF IInv, AttemptsAreReal, AttemptMoved
  <2>3. CASE x # f \/ y # g
    <3>1. att'[x][y] = att[x][y] /\ (<<x, y>> \in wire' => <<x, y>> \in wire)
      BY <2>3 DEF AttemptMoved, Others
    <3>2. QED
      BY <2>1, <3>1 DEF IInv, AttemptsAreReal
  <2>4. QED
    BY <2>2, <2>3
<1>4. QED
  BY <1>1, <1>2, <1>3 DEF IInv, AttemptsAreReal

\* A step of the attempt (f, g) that leaves the rows alone.
LEMMA AttemptFrame ==
  ASSUME IInv, NEW f \in Refs, NEW g \in Gens, AttemptMoved(f, g), TasksGrow,
         UNCHANGED <<ticketVars, row, outcomes, linked>>, Fault \/ UNCHANGED faults
  PROVE  IInv'
<1>1. RowsTyped
  BY DEF IInv, TypeOK, RowsTyped
<1>2. \A x \in Refs : RowKept(x) /\ DeliveredAsRecorded(x)
  BY <1>1, RowsStay DEF DeliveredAsRecorded
<1>3. faults' \in 0 .. MaxFaults
  BY FaultCounts
<1>4. TypeOK'
  BY <1>3 DEF IInv, TypeOK, ticketVars, AttemptMoved, TasksGrow
<1>5. QED
  BY <1>2, <1>4, RealAfterMove, OutcomesStay, Frame DEF TasksGrow

\* A step of the attempt (f, g) that settles the row f.
LEMMA SettleFrame ==
  ASSUME IInv, NEW f \in Refs, NEW g \in Gens, AttemptMoved(f, g), row[f].state = "pending",
         NEW state \in {"pending", "delivered"}, NEW work \in Works \cup {NoWork},
         Settle(f, state, work), work # NoWork <=> state = "delivered",
         state = "delivered" => work = tasks[f] /\ row[f].source \in {NoWork, work},
         UNCHANGED <<ticketVars, outcomes, linked, tasks>>, Fault \/ UNCHANGED faults
  PROVE  IInv'
<1>1. RowsTyped /\ TasksGrow
  BY DEF IInv, TypeOK, RowsTyped, TasksGrow
<1>2. /\ RowsTyped' /\ \A x \in Refs : RowKept(x)
      /\ row'[f].state = state /\ row'[f].work = work
      /\ \A x \in Refs : x # f => row'[x] = row[x]
  BY <1>1, SettleStep
<1>3. \A x \in Refs : DeliveredAsRecorded(x)
  BY <1>2 DEF DeliveredAsRecorded
<1>4. faults' \in 0 .. MaxFaults
  BY FaultCounts
<1>5. TypeOK'
  BY <1>2, <1>4 DEF IInv, TypeOK, ticketVars, AttemptMoved, RowsTyped
<1>6. QED
  BY <1>1, <1>2, <1>3, <1>5, RealAfterMove, OutcomesStay, Frame

\* A step that changes the lease of a row.
LEMMA LeaseFrame ==
  ASSUME IInv, NEW f \in Refs, NEW r \in Row, row' = [row EXCEPT ![f] = r],
         r.issue = row[f].issue, r.ver = row[f].ver, r.rev = row[f].rev,
         r.source = row[f].source, r.state = row[f].state, r.work = row[f].work,
         UNCHANGED <<ticketVars, outcomes, linked, wire, tasks>>, Fault \/ UNCHANGED faults,
         UNCHANGED att \/ \E g \in Gens : AttemptMoved(f, g)
  PROVE  IInv'
<1>1. RowsTyped /\ TasksGrow
  BY DEF IInv, TypeOK, RowsTyped, TasksGrow
<1>2. RowsTyped' /\ \A x \in Refs : RowKept(x) /\ row'[x].state = row[x].state
  BY <1>1, LeaseStep
<1>3. \A x \in Refs : DeliveredAsRecorded(x)
  BY <1>2 DEF DeliveredAsRecorded
<1>4. faults' \in 0 .. MaxFaults
  BY FaultCounts
<1>5. AttemptsAreReal' /\ att' \in [Refs -> [Gens -> Attempt]]
  <2>1. CASE UNCHANGED att
    BY <1>2, <2>1 DEF IInv, TypeOK, AttemptsAreReal, RowKept
  <2>2. CASE \E g \in Gens : AttemptMoved(f, g)
    BY <1>1, <1>2, <2>2, RealAfterMove DEF AttemptMoved
  <2>3. QED
    BY <2>1, <2>2
<1>6. TypeOK'
  BY <1>2, <1>4, <1>5 DEF IInv, TypeOK, ticketVars, RowsTyped
<1>7. QED
  BY <1>2, <1>3, <1>5, <1>6, OutcomesStay, Frame

\* A step that leaves the rows, the attempts and Tasks alone.
LEMMA StillFrame ==
  ASSUME IInv, TypeOK', UNCHANGED <<row, att, wire, tasks>>, OneOutcomePerIntake'
  PROVE  IInv'
<1>1. RowsTyped
  BY DEF IInv, TypeOK, RowsTyped
<1>2. \A x \in Refs : RowKept(x) /\ DeliveredAsRecorded(x)
  BY <1>1, RowsStay DEF DeliveredAsRecorded
<1>3. AttemptsAreReal'
  BY DEF IInv, AttemptsAreReal
<1>4. QED
  BY <1>2, <1>3, Frame

-----------------------------------------------------------------------------
(* The steps of the ticket, the owner and the manager.                     *)

LEMMA ChangeTicketKeeps ==
  ASSUME IInv, NEW i \in Issues, ChangeTicket(i)
  PROVE  IInv'
<1>1. PICK closed \in BOOLEAN :
        ticket' = [ticket EXCEPT ![i] = [ver |-> @.ver + 1, closed |-> closed]]
  BY DEF ChangeTicket
<1>2. ticket[i].ver + 1 \in 0 .. MaxVer
  BY TaskWorkAssumption DEF ChangeTicket, IInv, TypeOK
<1> DEFINE t == [ver |-> ticket[i].ver + 1, closed |-> closed]
<1>3. t \in [ver : 0 .. MaxVer, closed : BOOLEAN] /\ ticket' = [ticket EXCEPT ![i] = t]
  BY <1>1, <1>2
<1> HIDE DEF t
<1>4. TypeOK'
  BY <1>3 DEF ChangeTicket, IInv, TypeOK
<1>5. QED
  BY <1>4, StillFrame DEF ChangeTicket, IInv, OneOutcomePerIntake

LEMMA OwnerChangeKeeps ==
  ASSUME IInv, NEW s \in {"ready", "unready", "revoked"}, OwnerChange(s)
  PROVE  IInv'
<1>1. TypeOK'
  BY TaskWorkAssumption DEF OwnerChange, Move, IInv, TypeOK
<1>2. QED
  BY <1>1, StillFrame DEF OwnerChange, IInv, OneOutcomePerIntake

LEMMA ManagerChangeKeeps ==
  ASSUME IInv, ManagerChange
  PROVE  IInv'
<1>1. moves' \in 0 .. MaxMoves
  BY TaskWorkAssumption DEF ManagerChange, Move, IInv, TypeOK
<1>2. manager' \in BOOLEAN
  BY DEF ManagerChange, IInv, TypeOK
<1>3. TypeOK'
  BY <1>1, <1>2 DEF ManagerChange, IInv, TypeOK
<1>4. QED
  BY <1>3, StillFrame DEF ManagerChange, IInv, OneOutcomePerIntake

-----------------------------------------------------------------------------
(* The steps of an attempt that leave the row alone.                       *)

LEMMA Unmoved ==
  ASSUME IInv, UNCHANGED tasks
  PROVE  TasksGrow
BY DEF IInv, TypeOK, TasksGrow

LEMMA CheckKeeps ==
  ASSUME IInv, NEW f \in Refs, NEW g \in Gens,
         NEW from \in Phases \ {"idle"}, NEW to \in Phases, NEW ok, Check(f, g, from, to, ok)
  PROVE  IInv'
<1>1. AttemptMoved(f, g) /\ UNCHANGED <<ticketVars, row, outcomes, linked, wire, tasks, faults>>
  BY CheckMoves DEF IInv, TypeOK
<1>2. QED
  BY <1>1, AttemptFrame, Unmoved

LEMMA CheckStepsKeep ==
  ASSUME IInv, NEW f \in Refs, NEW g \in Gens,
         CheckSource(f, g) \/ CheckBeforePost(f, g) \/ CheckReceipt(f, g)
  PROVE  IInv'
<1>1. CASE CheckSource(f, g)
  BY <1>1, CheckKeeps DEF CheckSource, Phases
<1>2. CASE CheckBeforePost(f, g)
  BY <1>2, CheckKeeps DEF CheckBeforePost, Phases
<1>3. CASE CheckReceipt(f, g)
  BY <1>3, CheckKeeps DEF CheckReceipt, Phases
<1>4. QED
  BY <1>1, <1>2, <1>3

\* An attempt that is not idle is one of a captured row.
LEMMA Captured ==
  ASSUME IInv, NEW f \in Refs, NEW g \in Gens, att[f][g].pc # "idle" \/ <<f, g>> \in wire
  PROVE  att \in [Refs -> [Gens -> Attempt]] /\ row[f].state # "absent"
BY DEF IInv, TypeOK, AttemptsAreReal

LEMMA IssueTokenKeeps ==
  ASSUME IInv, NEW f \in Refs, NEW g \in Gens, IssueToken(f, g)
  PROVE  IInv'
<1>1. att \in [Refs -> [Gens -> Attempt]] /\ row[f].state # "absent"
  BY Captured DEF IssueToken
<1>2. AttemptMoved(f, g)
  <2>1. CASE Become(f, g, "issued", TRUE, NoWork)
    <3>1. "issued" \in Phases /\ NoWork \in Works \cup {NoWork}
      BY DEF Phases
    <3>2. att' \in [Refs -> [Gens -> Attempt]] /\ Others(f, g) /\ att'[f][g].work = NoWork
      BY <1>1, <2>1, <3>1, BecomeStep
    <3>3. QED
      BY <1>1, <3>2 DEF IssueToken, AttemptMoved
  <2>2. CASE Fail(f, g)
    BY <1>1, <2>2, FailStep DEF IssueToken, AttemptMoved
  <2>3. QED
    BY <2>1, <2>2 DEF IssueToken
<1>3. QED
  BY <1>2, AttemptFrame, Unmoved DEF IssueToken

LEMMA PostKeeps ==
  ASSUME IInv, NEW f \in Refs, NEW g \in Gens, Post(f, g)
  PROVE  IInv'
<1>1. att \in [Refs -> [Gens -> Attempt]] /\ row[f].state # "absent"
  BY Captured DEF Post
<1>2. AttemptMoved(f, g)
  BY <1>1, GotoStep DEF Post, AttemptMoved, Phases
<1>3. QED
  BY <1>2, AttemptFrame, Unmoved DEF Post

LEMMA StopKeeps ==
  ASSUME IInv, NEW f \in Refs, NEW g \in Gens, Abort(f, g) \/ Crash(f, g)
  PROVE  IInv'
<1>1. att \in [Refs -> [Gens -> Attempt]] /\ row[f].state # "absent"
  BY Captured DEF Abort, Crash, Waiting
<1>2. AttemptMoved(f, g)
  BY <1>1, FailStep DEF Abort, Crash, AttemptMoved
<1>3. QED
  BY <1>2, AttemptFrame, Unmoved DEF Abort, Crash

LEMMA TokenExpiresKeeps ==
  ASSUME IInv, NEW f \in Refs, NEW g \in Gens, TokenExpires(f, g)
  PROVE  IInv'
<1> DEFINE a == [att[f][g] EXCEPT !.token = FALSE]
<1>1. att \in [Refs -> [Gens -> Attempt]]
  BY DEF IInv, TypeOK
<1>2. a \in Attempt /\ a.pc = att[f][g].pc /\ a.work = att[f][g].work
  <2>1. att[f][g] \in Attempt
    BY <1>1
  <2>2. QED
    BY <2>1 DEF Attempt
<1>3. att' = [att EXCEPT ![f][g] = a]
  BY DEF TokenExpires
<1> HIDE DEF a
<1>4. att' \in [Refs -> [Gens -> Attempt]] /\ att'[f][g] = a /\ Others(f, g)
  BY <1>1, <1>2, <1>3, AttemptUpdate
<1>5. AttemptMoved(f, g)
  BY <1>2, <1>4 DEF TokenExpires, AttemptMoved, IInv, AttemptsAreReal
<1>6. QED
  BY <1>5, AttemptFrame, Unmoved DEF TokenExpires

\* The answer of Tasks, under the work it recorded or none.
LEMMA AnswerMoves ==
  ASSUME IInv, NEW f \in Refs, NEW g \in Gens, <<f, g>> \in wire,
         NEW work \in Works \cup {NoWork}, work \in {NoWork, tasks'[f]}, Answer(f, g, work)
  PROVE  AttemptMoved(f, g)
<1>1. att \in [Refs -> [Gens -> Attempt]] /\ row[f].state # "absent"
  BY Captured
<1>2. CASE UNCHANGED att
  BY <1>1, <1>2 DEF AttemptMoved, Others, Answer
<1>3. CASE Fail(f, g)
  BY <1>1, <1>3, FailStep DEF AttemptMoved, Answer
<1>4. CASE Become(f, g, "replied", att[f][g].token, work)
  <2>1. "replied" \in Phases /\ att[f][g].token \in BOOLEAN
    BY <1>1 DEF Phases, Attempt
  <2>2. QED
    BY <1>1, <1>4, <2>1, BecomeStep DEF AttemptMoved, Answer
<1>5. QED
  BY <1>2, <1>3, <1>4 DEF Answer

LEMMA TasksRecordKeeps ==
  ASSUME IInv, NEW f \in Refs, NEW g \in Gens, TasksRecord(f, g)
  PROVE  IInv'
<1>1. row[f].state # "absent"
  BY Captured DEF TasksRecord
<1>2. tasks \in [Refs -> Works \cup {NoWork}]
  BY DEF IInv, TypeOK
<1>3. TasksGrow /\ (Fault \/ UNCHANGED faults)
  <2>1. CASE UNCHANGED <<tasks, faults>>
    BY <2>1, Unmoved
  <2>2. CASE tasks[f] = NoWork /\ \E w \in Works : tasks' = [tasks EXCEPT ![f] = w]
    BY <1>1, <1>2, <2>2 DEF TasksGrow, TasksRecord
  <2>3. QED
    BY <2>1, <2>2 DEF TasksRecord
<1>4. AttemptMoved(f, g)
  <2> DEFINE work == tasks'[f]
  <2>1. work \in Works \cup {NoWork} /\ Answer(f, g, work) /\ work \in {NoWork, tasks'[f]}
    BY <1>3 DEF TasksGrow, TasksRecord
  <2> HIDE DEF work
  <2>2. QED
    BY <2>1, AnswerMoves DEF TasksRecord
<1>5. QED
  BY <1>3, <1>4, AttemptFrame DEF TasksRecord

LEMMA TasksRefuseKeeps ==
  ASSUME IInv, NEW f \in Refs, NEW g \in Gens, TasksRefuse(f, g)
  PROVE  IInv'
<1>1. AttemptMoved(f, g)
  BY AnswerMoves DEF TasksRefuse
<1>2. QED
  BY <1>1, AttemptFrame, Unmoved DEF TasksRefuse

-----------------------------------------------------------------------------
(* The completions, the claim and time.                                    *)

\* An admitted completion delivers the row under the work Tasks recorded, and the source.
LEMMA AdmittedWork ==
  ASSUME IInv, NEW f \in Refs, NEW g \in Gens, Admitted(f, g)
  PROVE  /\ att[f][g].work \in Works /\ att[f][g].work = tasks[f] /\ att[f][g].work # NoWork
         /\ row[f].source \in {NoWork, att[f][g].work} /\ row[f].state = "pending"
<1>1. /\ att[f][g].work \in Works /\ row[f].source \in {NoWork, att[f][g].work}
      /\ row[f].state = "pending"
  BY DEF Admitted, ReceiptMatches, Fenced
<1>2. att[f][g].work # NoWork
  BY <1>1 DEF Works, NoWork
<1>3. att[f][g].work \in {NoWork, tasks[f]}
  BY DEF IInv, AttemptsAreReal
<1>4. QED
  BY <1>1, <1>2, <1>3

LEMMA FinishMoves ==
  ASSUME IInv, NEW f \in Refs, NEW g \in Gens, att[f][g].pc # "idle",
         Fail(f, g) \/ Stop(f, g), UNCHANGED wire
  PROVE  AttemptMoved(f, g)
BY Captured, FailStep DEF AttemptMoved

LEMMA FinishDeliveredKeeps ==
  ASSUME IInv, NEW f \in Refs, NEW g \in Gens, FinishDelivered(f, g) \/ FinishUnknown(f, g)
  PROVE  IInv'
<1>1. AttemptMoved(f, g)
  BY FinishMoves DEF FinishDelivered, FinishUnknown
<1>2. UNCHANGED <<ticketVars, outcomes, linked, tasks>> /\ (Fault \/ UNCHANGED faults)
  BY DEF FinishDelivered, FinishUnknown
<1>3. CASE Admitted(f, g) /\ Settle(f, "delivered", att[f][g].work)
  <2> DEFINE work == att[f][g].work
  <2>1. /\ work \in Works /\ work = tasks[f] /\ work # NoWork
        /\ row[f].source \in {NoWork, work} /\ row[f].state = "pending"
        /\ Settle(f, "delivered", work)
    BY <1>3, AdmittedWork
  <2> HIDE DEF work
  <2>2. QED
    BY <1>1, <1>2, <2>1, SettleFrame
<1>4. CASE UNCHANGED row
  BY <1>1, <1>2, <1>4, AttemptFrame, Unmoved
<1>5. QED
  BY <1>3, <1>4 DEF FinishDelivered, FinishUnknown

LEMMA FinishFailedKeeps ==
  ASSUME IInv, NEW f \in Refs, NEW g \in Gens, FinishFailed(f, g)
  PROVE  IInv'
<1>1. AttemptMoved(f, g)
  BY FinishMoves DEF FinishFailed
<1>2. CASE Fenced(f, g) /\ Settle(f, "pending", NoWork)
  BY <1>1, <1>2, SettleFrame DEF FinishFailed, Fenced
<1>3. CASE UNCHANGED row
  BY <1>1, <1>3, AttemptFrame, Unmoved DEF FinishFailed
<1>4. QED
  BY <1>2, <1>3 DEF FinishFailed

LEMMA ClaimKeeps ==
  ASSUME IInv, NEW f \in Refs, Claim(f)
  PROVE  IInv'
<1> DEFINE g == row[f].gen + 1
           r == [row[f] EXCEPT !.gen = g, !.lease = "live"]
           a == [att[f][g] EXCEPT !.pc = "claimed"]
<1>1. row[f] \in Row /\ row \in [Refs -> Row] /\ att \in [Refs -> [Gens -> Attempt]]
  BY DEF IInv, TypeOK
<1>2. row[f].gen \in Nat /\ row[f].gen < MaxGen
  BY <1>1 DEF Claim, Claimable, Row
<1>3. g \in Gens /\ g \in Nat
  BY <1>2, TaskWorkAssumption DEF Gens
<1>4. row' = [row EXCEPT ![f] = r] /\ att' = [att EXCEPT ![f][g] = a]
  BY <1>1 DEF Claim
<1>5. a \in Attempt /\ a.pc = "claimed" /\ a.work = att[f][g].work
  <2>1. att[f][g] \in Attempt
    BY <1>1, <1>3
  <2>2. QED
    BY <2>1 DEF Attempt, Phases
<1> HIDE DEF g
<1>6. /\ r \in Row /\ r.issue = row[f].issue /\ r.ver = row[f].ver /\ r.rev = row[f].rev
      /\ r.source = row[f].source /\ r.state = row[f].state /\ r.work = row[f].work
  BY <1>1, <1>3 DEF Row
<1> HIDE DEF r, a
<1>7. att' \in [Refs -> [Gens -> Attempt]] /\ att'[f][g] = a /\ Others(f, g)
  BY <1>1, <1>3, <1>4, <1>5, AttemptUpdate
<1>8. AttemptMoved(f, g)
  BY <1>5, <1>7 DEF AttemptMoved, Claim, Claimable
<1>9. QED
  BY <1>6, <1>3, <1>4, <1>8, LeaseFrame DEF Claim

LEMMA LeaseExpiresKeeps ==
  ASSUME IInv, NEW f \in Refs, LeaseExpires(f)
  PROVE  IInv'
<1> DEFINE r == [row[f] EXCEPT !.lease = "expired"]
<1>1. row[f] \in Row /\ row \in [Refs -> Row]
  BY DEF IInv, TypeOK
<1>2. /\ r \in Row /\ r.issue = row[f].issue /\ r.ver = row[f].ver /\ r.rev = row[f].rev
      /\ r.source = row[f].source /\ r.state = row[f].state /\ r.work = row[f].work
  BY <1>1 DEF Row
<1>3. row' = [row EXCEPT ![f] = r]
  BY <1>1 DEF LeaseExpires
<1> HIDE DEF r
<1>4. QED
  BY <1>2, <1>3, LeaseFrame DEF LeaseExpires

LEMMA BackoffEndsKeeps ==
  ASSUME IInv, NEW f \in Refs, BackoffEnds(f)
  PROVE  IInv'
<1> DEFINE r == [row[f] EXCEPT !.due = TRUE]
<1>1. row[f] \in Row /\ row \in [Refs -> Row]
  BY DEF IInv, TypeOK
<1>2. /\ r \in Row /\ r.issue = row[f].issue /\ r.ver = row[f].ver /\ r.rev = row[f].rev
      /\ r.source = row[f].source /\ r.state = row[f].state /\ r.work = row[f].work
  BY <1>1 DEF Row
<1>3. row' = [row EXCEPT ![f] = r]
  BY <1>1 DEF BackoffEnds
<1> HIDE DEF r
<1>4. QED
  BY <1>2, <1>3, LeaseFrame DEF BackoffEnds

-----------------------------------------------------------------------------
(* The outcome receiver.                                                   *)

LEMMA ReceiveOutcomeKeeps ==
  ASSUME IInv, NEW e \in Events, NEW f \in Refs, ReceiveOutcome(e, f)
  PROVE  IInv'
<1>1. tasks[f] \in Works
  BY DEF IInv, TypeOK, ReceiveOutcome
<1>2. TypeOK'
  BY <1>1 DEF IInv, TypeOK, ticketVars, ReceiveOutcome
<1>3. QED
  BY <1>2, StillFrame DEF ReceiveOutcome, IInv, OneOutcomePerIntake

LEMMA RecordOutcomeKeeps ==
  ASSUME IInv, NEW e \in Events, NEW f \in Refs, NEW w \in Works, RecordOutcome(e, f, w)
  PROVE  IInv'
<1>1. TypeOK'
  BY DEF IInv, TypeOK, ticketVars, RecordOutcome
<1>2. OneOutcomePerIntake'
  <2>1. OneOutcomePerIntake /\ row' = row
    BY DEF IInv, RecordOutcome
  <2>2. CASE outcomes' = outcomes
    BY <2>1, <2>2 DEF OneOutcomePerIntake
  <2>3. CASE /\ row[f].state = "delivered" /\ row[f].work = w /\ PriorOutcomes(e, f) = {}
             /\ outcomes' = outcomes \cup {<<e, f, w>>}
    BY <2>1, <2>3 DEF OneOutcomePerIntake, PriorOutcomes
  <2>4. QED
    BY <2>2, <2>3 DEF RecordOutcome
<1>3. QED
  BY <1>1, <1>2, StillFrame DEF RecordOutcome

-----------------------------------------------------------------------------
(* The request of a new revision.                                          *)

\* The rows of a ticket carry the revisions from zero on, each below their number.
LEMMA RowsCount ==
  ASSUME IInv, NEW i \in Issues
  PROVE  /\ IsFiniteSet(RowsOf(i)) /\ Cardinality(RowsOf(i)) \in Nat
         /\ \A h \in RowsOf(i) : row[h].rev \in Nat /\ row[h].rev < Cardinality(RowsOf(i))
<1>1. IsFiniteSet(Refs)
  BY TaskWorkAssumption, FS_Interval DEF Refs
<1>2. IsFiniteSet(RowsOf(i))
  BY <1>1, FS_Subset DEF RowsOf
<1>3. Cardinality(RowsOf(i)) \in Nat
  BY <1>2, FS_CardinalityType
<1>4. {row[h].rev : h \in RowsOf(i)} = 0 .. Cardinality(RowsOf(i)) - 1
  BY DEF IInv, RevisionsAreSettled
<1>5. \A h \in RowsOf(i) : row[h].rev \in 0 .. Cardinality(RowsOf(i)) - 1
  BY <1>4
<1>6. QED
  BY <1>2, <1>3, <1>5

\* Where a request is admitted every revision of the ticket is delivered, under the one work
\* that the request takes as its source.
LEMMA AllSettled ==
  ASSUME IInv, NEW i \in Issues, PriorSettled(i)
  PROVE  /\ PriorWork(i) \in Works \cup {NoWork}
         /\ \A h \in RowsOf(i) : row[h].state = "delivered" /\ row[h].work = PriorWork(i)
<1>1. \A h \in RowsOf(i) : h \in Refs /\ row[h].issue = i /\ row[h].state = "delivered"
  BY DEF IInv, RevisionsAreSettled, PriorSettled, RowsOf
<1>2. CASE RowsOf(i) = {}
  BY <1>2 DEF PriorWork
<1>3. CASE RowsOf(i) # {}
  <2> DEFINE n == Cardinality(RowsOf(i))
  <2>1. n \in Nat /\ \A h \in RowsOf(i) : row[h].rev \in Nat /\ row[h].rev < n
    BY RowsCount
  <2>2. {row[h].rev : h \in RowsOf(i)} = 0 .. n - 1
    BY DEF IInv, RevisionsAreSettled
  <2> HIDE DEF n
  <2>3. n - 1 \in 0 .. n - 1
    <3>1. PICK h \in RowsOf(i) : TRUE
      BY <1>3
    <3>2. QED
      BY <2>1, <3>1
  <2>4. PICK l \in RowsOf(i) : row[l].rev = n - 1
    BY <2>2, <2>3
  <2>5. Latest(l)
    BY <1>1, <2>1, <2>4 DEF Latest
  <2> DEFINE c == CHOOSE x \in RowsOf(i) : Latest(x)
  <2>6. c \in RowsOf(i)
    BY <2>4, <2>5
  <2>7. PriorWork(i) = row[c].work
    BY <1>3 DEF PriorWork
  <2> HIDE DEF c
  <2>8. \A h \in RowsOf(i) : row[h].work = row[c].work
    BY <1>1, <2>6 DEF IInv, WorkLinkIsStable
  <2>9. row[c].work \in Works \cup {NoWork}
    BY <1>1, <2>6 DEF IInv, TypeOK, Row
  <2>10. QED
    BY <1>1, <2>7, <2>8, <2>9
<1>4. QED
  BY <1>2, <1>3

LEMMA RequestKeeps ==
  ASSUME IInv, NEW i \in Issues, NEW f \in Refs, Request(i, f)
  PROVE  IInv'
<1> DEFINE n == Cardinality(RowsOf(i))
           s == PriorWork(i)
           v == ticket[i].ver
           r == [NoRow EXCEPT !.state = "pending", !.issue = i, !.ver = v, !.rev = n,
                              !.source = s, !.due = TRUE]
<1>1. n \in Nat /\ \A h \in RowsOf(i) : row[h].rev \in Nat /\ row[h].rev < n
  BY RowsCount
<1>2. s \in Works \cup {NoWork}
      /\ \A h \in RowsOf(i) : row[h].state = "delivered" /\ row[h].work = s
  BY AllSettled DEF Request
<1>3. v \in Nat
  <2>1. ticket[i].ver \in 0 .. MaxVer
    BY DEF IInv, TypeOK
  <2>2. QED
    BY <2>1
<1>4. row' = [row EXCEPT ![f] = r]
      /\ UNCHANGED <<ticketVars, outcomes, att, linked, wire, tasks, faults>>
  BY DEF Request
<1>5. {row[h].rev : h \in RowsOf(i)} = 0 .. n - 1
  BY DEF IInv, RevisionsAreSettled
<1>6. IsFiniteSet(RowsOf(i))
  BY RowsCount
<1>7. f \notin RowsOf(i) => Cardinality(RowsOf(i) \cup {f}) = n + 1
  BY <1>6, FS_AddElement
<1> HIDE DEF n, s, v
<1>8. /\ r \in Row /\ r.state = "pending" /\ r.issue = i /\ r.rev = n /\ r.source = s
      /\ r.work = NoWork
  BY <1>1, <1>2, <1>3 DEF Row, NoRow
<1> HIDE DEF r
<1>9. /\ row \in [Refs -> Row] /\ row[f].state = "absent" /\ row[f].issue = NoIssue
      /\ i # NoIssue
  BY TaskWorkAssumption DEF Request, IInv, TypeOK, AttemptsAreReal
<1>10. /\ row' \in [Refs -> Row] /\ row'[f] = r
       /\ \A x \in Refs : x # f => row'[x] = row[x]
  BY <1>4, <1>8, <1>9
<1>11. TypeOK'
  BY <1>4, <1>8, <1>10 DEF IInv, TypeOK, ticketVars
<1>12. AttemptsAreReal'
  BY <1>4, <1>8, <1>9, <1>10 DEF IInv, AttemptsAreReal
<1>13. \A x \in Refs : x # f /\ row[x].issue = i => x \in RowsOf(i)
  BY DEF RowsOf
<1>14. SourceIsLink'
  <2>1. ASSUME NEW x \in Refs, NEW h \in Refs, row'[x].issue = row'[h].issue,
               row'[x].issue # NoIssue
        PROVE  /\ row'[h].rev = row'[x].rev => h = x
               /\ row'[h].rev < row'[x].rev =>
                    row'[h].state = "delivered" /\ row'[x].source = row'[h].work
    <3>1. CASE x # f /\ h # f
      BY <1>10, <2>1, <3>1 DEF IInv, SourceIsLink
    <3>2. CASE x = f /\ h = f
      BY <1>1, <1>8, <1>10, <3>2
    <3>3. CASE x = f /\ h # f
      <4>1. h \in RowsOf(i) /\ row'[h] = row[h]
        BY <1>8, <1>10, <1>13, <2>1, <3>3
      <4>2. QED
        BY <1>1, <1>2, <1>8, <1>10, <3>3, <4>1
    <3>4. CASE x # f /\ h = f
      <4>1. x \in RowsOf(i) /\ row'[x] = row[x]
        BY <1>8, <1>10, <1>13, <2>1, <3>4
      <4>2. QED
        BY <1>1, <1>8, <1>10, <3>4, <4>1
    <3>5. QED
      BY <3>1, <3>2, <3>3, <3>4
  <2>2. \A x \in Refs : row'[x].state = "delivered" => row'[x].source \in {NoWork, row'[x].work}
    BY <1>8, <1>10 DEF IInv, SourceIsLink
  <2>3. QED
    BY <2>1, <2>2 DEF SourceIsLink
<1>15. RevisionsAreSettled'
  <2> SUFFICES ASSUME NEW j \in Issues
               PROVE  /\ {row'[x].rev : x \in RowsOf(j)'} = 0 .. Cardinality(RowsOf(j)') - 1
                      /\ \A x \in RowsOf(j)' : row'[x].state = "delivered" \/ Latest(x)'
    BY DEF RevisionsAreSettled
  <2>1. CASE j = i
    <3>1. RowsOf(j)' = RowsOf(i) \cup {f} /\ f \notin RowsOf(i) /\ RowsOf(i) \subseteq Refs
      BY <1>8, <1>9, <1>10, <2>1 DEF RowsOf
    <3>2. \A x \in RowsOf(i) : row'[x] = row[x]
      BY <1>10, <3>1
    <3>3. {row'[x].rev : x \in RowsOf(j)'} = {row[x].rev : x \in RowsOf(i)} \cup {n}
      BY <1>8, <1>10, <3>1, <3>2
    <3>4. {row'[x].rev : x \in RowsOf(j)'} = 0 .. n
      BY <1>1, <1>5, <3>3
    <3>5. Cardinality(RowsOf(j)') = n + 1
      BY <1>7, <3>1
    <3>6. Latest(f)'
      <4>1. RowsOf(row[f].issue)' = RowsOf(i) \cup {f}
        BY <1>8, <1>10, <2>1, <3>1 DEF RowsOf
      <4>2. \A h \in RowsOf(i) \cup {f} : row'[h].rev <= row'[f].rev
        BY <1>1, <1>8, <1>10, <3>2
      <4>3. QED
        BY <4>1, <4>2 DEF Latest
    <3>7. \A x \in RowsOf(i) : row'[x].state = "delivered"
      BY <1>2, <3>2
    <3>8. QED
      BY <1>1, <3>1, <3>4, <3>5, <3>6, <3>7
  <2>2. CASE j # i
    <3>1. RowsOf(j)' = RowsOf(j) /\ RowsOf(j) \subseteq Refs \ {f}
      BY <1>8, <1>9, <1>10, <2>2, TaskWorkAssumption DEF RowsOf
    <3>2. \A x \in RowsOf(j) : row'[x] = row[x] /\ row[x].issue = j
      BY <1>10, <3>1 DEF RowsOf
    <3>3. {row'[x].rev : x \in RowsOf(j)} = {row[x].rev : x \in RowsOf(j)}
      BY <3>2
    <3>4. \A x \in RowsOf(j) : Latest(x) => Latest(x)'
      BY <3>1, <3>2 DEF Latest
    <3>5. QED
      BY <3>1, <3>2, <3>3, <3>4 DEF IInv, RevisionsAreSettled
  <2>3. QED
    BY <2>1, <2>2
<1>16. WorkLinkIsStable'
  BY <1>4, <1>8, <1>10 DEF IInv, WorkLinkIsStable
<1>17. OneOutcomePerIntake'
  <2>1. \A o \in outcomes : o[2] \in Refs /\ o[2] # f
    BY <1>9 DEF IInv, TypeOK, OneOutcomePerIntake
  <2>2. QED
    BY <1>4, <1>10, <2>1 DEF IInv, OneOutcomePerIntake
<1>18. QED
  BY <1>11, <1>12, <1>14, <1>15, <1>16, <1>17 DEF IInv

-----------------------------------------------------------------------------
(* The invariant.                                                          *)

LEMMA InitIInv ==
  ASSUME Init
  PROVE  IInv
<1>1. NoRow \in Row /\ NoAttempt \in Attempt
  BY DEF NoRow, Row, NoAttempt, Attempt, Phases
<1>2. \A i \in Issues : ticket[i] \in [ver : 0 .. MaxVer, closed : BOOLEAN]
  BY TaskWorkAssumption DEF Init
<1>3. TypeOK
  <2>1. NoRow.work = NoWork /\ NoRow.state = "absent"
    BY DEF NoRow
  <2>2. \A f \in Refs : row[f].work # NoWork <=> row[f].state = "delivered"
    BY <2>1 DEF Init
  <2>3. moves \in 0 .. MaxMoves /\ faults \in 0 .. MaxFaults
    BY TaskWorkAssumption DEF Init
  <2>4. manager \in BOOLEAN /\ owner \in {"ready", "unready", "revoked"}
    BY DEF Init
  <2>5. ticket \in [Issues -> [ver : 0 .. MaxVer, closed : BOOLEAN]]
    BY <1>2 DEF Init
  <2>6. row \in [Refs -> Row] /\ att \in [Refs -> [Gens -> Attempt]]
        /\ tasks \in [Refs -> Works \cup {NoWork}]
    BY <1>1 DEF Init
  <2>7. QED
    BY <2>2, <2>3, <2>4, <2>5, <2>6 DEF Init, TypeOK
<1>4. \A i \in Issues : RowsOf(i) = {}
  BY TaskWorkAssumption DEF Init, RowsOf, NoRow
<1>5. RevisionsAreSettled
  BY <1>4, FS_EmptySet DEF RevisionsAreSettled
<1>6. AttemptsAreReal /\ SourceIsLink /\ WorkLinkIsStable /\ OneOutcomePerIntake
  BY DEF Init, AttemptsAreReal, SourceIsLink, WorkLinkIsStable, OneOutcomePerIntake, NoRow,
         NoAttempt
<1>7. QED
  BY <1>3, <1>5, <1>6 DEF IInv

LEMMA NextIInv ==
  ASSUME IInv, [Next]_vars
  PROVE  IInv'
<1>1. ASSUME NEW i \in Issues, ChangeTicket(i) PROVE IInv'
  BY <1>1, ChangeTicketKeeps
<1>2. ASSUME NEW s \in {"ready", "unready", "revoked"}, OwnerChange(s) PROVE IInv'
  BY <1>2, OwnerChangeKeeps
<1>3. CASE ManagerChange
  BY <1>3, ManagerChangeKeeps
<1>4. ASSUME NEW i \in Issues, NEW f \in Refs, Request(i, f) PROVE IInv'
  BY <1>4, RequestKeeps
<1>5. ASSUME NEW f \in Refs, Claim(f) \/ LeaseExpires(f) \/ BackoffEnds(f) PROVE IInv'
  BY <1>5, ClaimKeeps, LeaseExpiresKeeps, BackoffEndsKeeps
<1>6. ASSUME NEW f \in Refs, NEW g \in Gens, AttemptStep(f, g) PROVE IInv'
  BY <1>6, CheckStepsKeep, IssueTokenKeeps, PostKeeps, FinishDeliveredKeeps, FinishFailedKeeps
  DEF AttemptStep
<1>7. ASSUME NEW f \in Refs, NEW g \in Gens, TasksRecord(f, g) PROVE IInv'
  BY <1>7, TasksRecordKeeps
<1>8. ASSUME NEW f \in Refs, NEW g \in Gens, AttemptFault(f, g) PROVE IInv'
  BY <1>8, TasksRefuseKeeps, FinishDeliveredKeeps, StopKeeps, TokenExpiresKeeps
  DEF AttemptFault
<1>9. ASSUME NEW e \in Events, NEW f \in Refs, ReceiveOutcome(e, f) PROVE IInv'
  BY <1>9, ReceiveOutcomeKeeps
<1>10. ASSUME NEW e \in Events, NEW f \in Refs, NEW w \in Works, RecordOutcome(e, f, w)
       PROVE  IInv'
  BY <1>10, RecordOutcomeKeeps
<1>11. CASE UNCHANGED vars
  <2>1. TypeOK' /\ OneOutcomePerIntake'
    BY <1>11 DEF IInv, TypeOK, OneOutcomePerIntake, vars, ticketVars
  <2>2. QED
    BY <1>11, <2>1, StillFrame DEF vars
<1>12. QED
  BY <1>1, <1>2, <1>3, <1>4, <1>5, <1>6, <1>7, <1>8, <1>9, <1>10, <1>11 DEF Next

\* The strengthening holds in every reachable state: attempts, requests and works belong to
\* captured rows, and a revision's source is the work of the revisions before it.
THEOREM InductiveInvariant == Spec => []IInv
<1>1. Init => IInv
  BY InitIInv
<1>2. IInv /\ [Next]_vars => IInv'
  BY NextIInv
<1>3. QED
  BY <1>1, <1>2, PTL DEF Spec

\* Every variable keeps its shape, and a row has a work id exactly when it is delivered
\* (the CHECK of supportv8.task_work_outbox).
THEOREM TypeCorrect == Spec => []TypeOK
<1>1. IInv => TypeOK
  BY DEF IInv
<1>2. QED
  BY <1>1, InductiveInvariant, PTL

\* However requests, claims and completions interleave, the revisions of a ticket are gapless
\* and at most the last of them is undelivered.
THEOREM RevisionsSettled == Spec => []RevisionsAreSettled
<1>1. IInv => RevisionsAreSettled
  BY DEF IInv
<1>2. QED
  BY <1>1, InductiveInvariant, PTL

\* A ticket keeps one work link through all its revisions, the one Tasks recorded, whatever
\* other works Tasks answers with.
THEOREM LinkStable == Spec => []WorkLinkIsStable
<1>1. IInv => WorkLinkIsStable
  BY DEF IInv
<1>2. QED
  BY <1>1, InductiveInvariant, PTL

\* Repeated and competing outcome deliveries leave at most one outcome of each intake and of
\* each event, of the work that was delivered.
THEOREM OneOutcome == Spec => []OneOutcomePerIntake
<1>1. IInv => OneOutcomePerIntake
  BY DEF IInv
<1>2. QED
  BY <1>1, InductiveInvariant, PTL

-----------------------------------------------------------------------------
(* What a step does to the states of rows, to Tasks and to outcomes.       *)

StatesStay == \A f \in Refs : row'[f].state = row[f].state

\* A row is delivered: it was pending, its fact held, and Tasks had recorded it.
Delivers(f) ==
  /\ row[f].state = "pending" /\ row'[f].state = "delivered"
  /\ \A h \in Refs : h # f => row'[h].state = row[h].state
  /\ Fact(f) /\ tasks[f] # NoWork

\* A row is requested.
Requested(f) ==
  /\ row[f].state = "absent" /\ row'[f].state = "pending"
  /\ \A h \in Refs : h # f => row'[h].state = row[h].state

\* Tasks records the event of a captured row.
Recorded(f) ==
  /\ row[f].state # "absent" /\ UNCHANGED row
  /\ tasks[f] = NoWork /\ tasks'[f] # NoWork
  /\ \A h \in Refs : h # f => tasks'[h] = tasks[h]

StepKind ==
  \/ UNCHANGED tasks /\ StatesStay
  \/ UNCHANGED tasks /\ \E f \in Refs : Delivers(f) \/ Requested(f)
  \/ \E f \in Refs : Recorded(f)

OutcomeKind ==
  UNCHANGED outcomes \/ \E e \in Events, f \in Refs, w \in Works :
    row[f].state = "delivered" /\ Fact(f) /\ outcomes' = outcomes \cup {<<e, f, w>>}

\* Every step of the receiver that adds an outcome found the fact current.
LEMMA NextOutcomes ==
  ASSUME [Next]_vars PROVE OutcomeKind
<1>1. ASSUME NEW e \in Events, NEW f \in Refs, NEW w \in Works, RecordOutcome(e, f, w)
      PROVE  OutcomeKind
  BY <1>1 DEF RecordOutcome, OutcomeKind
<1>2. CASE UNCHANGED outcomes
  BY <1>2 DEF OutcomeKind
<1>3. ASSUME NEW f \in Refs, NEW g \in Gens,
             AttemptStep(f, g) \/ TasksRecord(f, g) \/ AttemptFault(f, g)
      PROVE  UNCHANGED outcomes
  BY <1>3
  DEF AttemptStep, CheckSource, CheckBeforePost, CheckReceipt, Check, IssueToken, Post,
      FinishDelivered, FinishFailed, TasksRecord, AttemptFault, TasksRefuse, FinishUnknown,
      Abort, Crash, TokenExpires
<1>4. ASSUME NEW f \in Refs, Claim(f) \/ LeaseExpires(f) \/ BackoffEnds(f)
      PROVE  UNCHANGED outcomes
  BY <1>4 DEF Claim, LeaseExpires, BackoffEnds
<1>5. QED
  BY <1>1, <1>2, <1>3, <1>4
  DEF Next, vars, ChangeTicket, OwnerChange, ManagerChange, Request, ReceiveOutcome

LEMMA SettleKind ==
  ASSUME IInv, NEW f \in Refs, NEW g \in Gens,
         FinishDelivered(f, g) \/ FinishUnknown(f, g) \/ FinishFailed(f, g)
  PROVE  StepKind
<1>1. RowsTyped /\ UNCHANGED tasks
  BY DEF IInv, TypeOK, RowsTyped, FinishDelivered, FinishUnknown, FinishFailed
<1>2. CASE Admitted(f, g) /\ Settle(f, "delivered", att[f][g].work)
  <2> DEFINE work == att[f][g].work
  <2>1. /\ work \in Works /\ work = tasks[f] /\ work # NoWork /\ row[f].state = "pending"
        /\ Settle(f, "delivered", work) /\ Fact(f)
    BY <1>2, AdmittedWork DEF Admitted, StillDeliverable
  <2> HIDE DEF work
  <2>2. row'[f].state = "delivered" /\ \A h \in Refs : h # f => row'[h] = row[h]
    BY <1>1, <2>1, SettleStep
  <2>3. Delivers(f)
    BY <2>1, <2>2 DEF Delivers
  <2>4. QED
    BY <1>1, <2>3 DEF StepKind
<1>3. CASE Fenced(f, g) /\ Settle(f, "pending", NoWork)
  <2>1. row'[f].state = "pending" /\ \A h \in Refs : h # f => row'[h] = row[h]
    BY <1>1, <1>3, SettleStep DEF Fenced
  <2>2. QED
    BY <1>1, <1>3, <2>1 DEF StepKind, StatesStay, Fenced
<1>4. CASE UNCHANGED row
  BY <1>1, <1>4 DEF StepKind, StatesStay
<1>5. QED
  BY <1>2, <1>3, <1>4 DEF FinishDelivered, FinishUnknown, FinishFailed

LEMMA NextKind ==
  ASSUME IInv, [Next]_vars PROVE StepKind
<1>1. ASSUME NEW i \in Issues, NEW f \in Refs, Request(i, f) PROVE StepKind
  <2>1. row \in [Refs -> Row]
    BY DEF IInv, TypeOK
  <2>2. Requested(f) /\ UNCHANGED tasks
    BY <1>1, <2>1 DEF Request, Requested, NoRow
  <2>3. QED
    BY <2>2 DEF StepKind
<1>2. ASSUME NEW f \in Refs, Claim(f) \/ LeaseExpires(f) \/ BackoffEnds(f) PROVE StepKind
  <2>1. row \in [Refs -> Row]
    BY DEF IInv, TypeOK
  <2>2. StatesStay /\ UNCHANGED tasks
    BY <1>2, <2>1 DEF Claim, LeaseExpires, BackoffEnds, StatesStay, Row
  <2>3. QED
    BY <2>2 DEF StepKind
<1>3. ASSUME NEW f \in Refs, NEW g \in Gens, TasksRecord(f, g) PROVE StepKind
  <2>1. CASE UNCHANGED tasks
    BY <1>3, <2>1 DEF TasksRecord, StepKind, StatesStay
  <2>2. CASE tasks[f] = NoWork /\ \E w \in Works : tasks' = [tasks EXCEPT ![f] = w]
    <3>1. tasks \in [Refs -> Works \cup {NoWork}] /\ row[f].state # "absent"
      BY <1>3, Captured DEF IInv, TypeOK, TasksRecord
    <3>2. \A w \in Works : w # NoWork
      BY DEF Works, NoWork
    <3>3. Recorded(f)
      BY <1>3, <2>2, <3>1, <3>2 DEF TasksRecord, Recorded
    <3>4. QED
      BY <3>3 DEF StepKind
  <2>3. QED
    BY <1>3, <2>1, <2>2 DEF TasksRecord
<1>4. ASSUME NEW f \in Refs, NEW g \in Gens,
             FinishDelivered(f, g) \/ FinishUnknown(f, g) \/ FinishFailed(f, g)
      PROVE  StepKind
  BY <1>4, SettleKind
<1>5. CASE UNCHANGED <<row, tasks>>
  BY <1>5 DEF StepKind, StatesStay
<1>6. QED
  BY <1>1, <1>2, <1>3, <1>4, <1>5
  DEF Next, vars, ChangeTicket, OwnerChange, ManagerChange, AttemptStep, CheckSource,
      CheckBeforePost, CheckReceipt, Check, IssueToken, Post, AttemptFault, TasksRefuse,
      Abort, Crash, TokenExpires, ReceiveOutcome, RecordOutcome

\* A request whose ticket moved on is never delivered and gets no outcome, at any later time
\* and whatever Tasks recorded of it.
THEOREM StaleStaysDenied == Spec => StaleRequestStaysDenied
<1> DEFINE Denied ==
      \A f \in Refs :
        row[f].state # "absent" /\ ticket[row[f].issue].ver # row[f].ver =>
          /\ row[f].state = "pending" => row'[f].state = "pending"
          /\ \A o \in outcomes' \ outcomes : o[2] # f
<1>1. IInv /\ [Next]_vars => Denied
  <2> SUFFICES ASSUME IInv, [Next]_vars, NEW f \in Refs,
                      row[f].state # "absent", ticket[row[f].issue].ver # row[f].ver
               PROVE  /\ row[f].state = "pending" => row'[f].state = "pending"
                      /\ \A o \in outcomes' \ outcomes : o[2] # f
    OBVIOUS
  <2>1. ~Fact(f)
    BY DEF Fact
  <2>2. row[f].state = "pending" => row'[f].state = "pending"
    BY <2>1, NextKind DEF StepKind, StatesStay, Delivers, Requested, Recorded
  <2>3. \A o \in outcomes' \ outcomes : o[2] # f
    BY <2>1, NextOutcomes DEF OutcomeKind
  <2>4. QED
    BY <2>2, <2>3
<1>2. QED
  BY <1>1, InductiveInvariant, PTL DEF Spec, StaleRequestStaysDenied

\* Nothing takes back a delivery, its work, what Tasks recorded, or an outcome: the receipts
\* of both directions are immutable.
Irrevocable ==
  /\ \A f \in Refs :
       /\ row[f].state = "delivered" => row'[f].state = "delivered" /\ row'[f].work = row[f].work
       /\ tasks[f] # NoWork => tasks'[f] = tasks[f]
  /\ outcomes \subseteq outcomes'

\* Late answers, retries, repeated outcomes and moved tickets leave every receipt as it is.
THEOREM ReceiptsAreImmutable == Spec => [][Irrevocable]_vars
<1>1. IInv /\ IInv' /\ [Next]_vars => Irrevocable
  <2> SUFFICES ASSUME IInv, IInv', [Next]_vars PROVE Irrevocable
    OBVIOUS
  <2>1. StepKind /\ OutcomeKind
    BY NextKind, NextOutcomes
  <2>2. outcomes \subseteq outcomes'
    BY <2>1 DEF OutcomeKind
  <2>3. ASSUME NEW f \in Refs
        PROVE  /\ row[f].state = "delivered" => row'[f].state = "delivered"
               /\ tasks[f] # NoWork => tasks'[f] = tasks[f]
    BY <2>1 DEF StepKind, StatesStay, Delivers, Requested, Recorded
  <2>4. ASSUME NEW f \in Refs, row[f].state = "delivered"
        PROVE  row'[f].work = row[f].work
    <3>1. row[f].work = tasks[f] /\ row[f].work # NoWork
      BY <2>4 DEF IInv, TypeOK, WorkLinkIsStable
    <3>2. row'[f].work = tasks'[f]
      BY <2>3, <2>4 DEF IInv, WorkLinkIsStable
    <3>3. QED
      BY <2>3, <3>1, <3>2
  <2>5. QED
    BY <2>2, <2>3, <2>4 DEF Irrevocable
<1>2. QED
  BY <1>1, InductiveInvariant, PTL DEF Spec

-----------------------------------------------------------------------------
(* Task work implements the abstract promise of module FactDelivery.       *)

LEMMA OutcomeValues ==
  ASSUME NEW f \in Refs
  PROVE  /\ row[f].state = "absent" => Outcome(f) = "absent"
         /\ row[f].state = "pending" => Outcome(f) = "owed"
         /\ row[f].state = "delivered" => Outcome(f) = "acknowledged"
BY DEF Outcome

LEMMA OutcomeValuesNext ==
  ASSUME NEW f \in Refs
  PROVE  /\ row'[f].state = "pending" => Outcome(f)' = "owed"
         /\ row'[f].state = "delivered" => Outcome(f)' = "acknowledged"
BY DEF Outcome

OutcomeOf == [f \in Refs |-> Outcome(f)]
Received == {f \in Refs : tasks[f] # NoWork}

LEMMA NextImplements ==
  ASSUME IInv, [Next]_vars
  PROVE  [Promise!DeliveryNext]_(Promise!deliveryVars)
<1>1. \A h \in Refs : row'[h].state = row[h].state => Outcome(h)' = Outcome(h)
  BY DEF Outcome
<1>2. ASSUME StatesStay PROVE OutcomeOf' = OutcomeOf
  BY <1>1, <1>2 DEF StatesStay, OutcomeOf
<1>3. ASSUME UNCHANGED tasks PROVE Received' = Received
  BY <1>3 DEF Received
<1>4. CASE UNCHANGED tasks /\ StatesStay
  BY <1>2, <1>3, <1>4 DEF Promise!deliveryVars, OutcomeOf, Received
<1>5. ASSUME NEW f \in Refs, Delivers(f), UNCHANGED tasks PROVE Promise!DeliveryNext
  <2>1. OutcomeOf' = [OutcomeOf EXCEPT ![f] = "acknowledged"]
    BY <1>1, <1>5, OutcomeValuesNext DEF Delivers, OutcomeOf
  <2>2. OutcomeOf[f] = "owed" /\ f \in Received
    BY <1>5, OutcomeValues DEF Delivers, OutcomeOf, Received
  <2>3. Promise!Acknowledge(f)
    BY <1>3, <1>5, <2>1, <2>2 DEF Promise!Acknowledge, OutcomeOf, Received
  <2>4. QED
    BY <2>3 DEF Promise!DeliveryNext
<1>6. ASSUME NEW f \in Refs, Requested(f), UNCHANGED tasks PROVE Promise!DeliveryNext
  <2>1. OutcomeOf' = [h \in Refs |-> IF h \in {} THEN "held"
                                     ELSE IF h \in {f} THEN "owed" ELSE OutcomeOf[h]]
    BY <1>1, <1>6, OutcomeValuesNext DEF Requested, OutcomeOf
  <2>2. OutcomeOf[f] = "absent"
    BY <1>6, OutcomeValues DEF Requested, OutcomeOf
  <2>3. {} \in SUBSET {f} /\ {f} \in SUBSET Refs
    OBVIOUS
  <2>4. Promise!Record({f})
    BY <1>3, <1>6, <2>1, <2>2, <2>3 DEF Promise!Record, OutcomeOf, Received
  <2>5. QED
    BY <2>3, <2>4 DEF Promise!DeliveryNext
<1>7. ASSUME NEW f \in Refs, Recorded(f) PROVE Promise!DeliveryNext
  <2>1. Received' = Received \cup {f}
    BY <1>7 DEF Recorded, Received
  <2>2. OutcomeOf' = OutcomeOf
    BY <1>2, <1>7 DEF Recorded, StatesStay
  <2>3. row[f].state \in {"pending", "delivered"}
    BY <1>7 DEF Recorded, IInv, TypeOK, Row
  <2>4. OutcomeOf[f] \in {"owed", "acknowledged", "quarantined"}
    BY <2>3, OutcomeValues DEF OutcomeOf
  <2>5. Promise!Reach(f)
    BY <2>1, <2>2, <2>4 DEF Promise!Reach, OutcomeOf, Received
  <2>6. QED
    BY <2>5 DEF Promise!DeliveryNext
<1>8. QED
  BY <1>4, <1>5, <1>6, <1>7, NextKind DEF StepKind

\* Task work implements FactDelivery: whatever crashes, lost answers, expired leases or
\* credentials, only a requested row reaches Tasks, and it reads delivered only after it did.
THEOREM TaskWorkKeepsPromise == Spec => ImplementsFactDelivery
<1>1. Init => Promise!DeliveryInit
  BY DEF Init, NoRow, Promise!DeliveryInit, Outcome
<1>2. IInv /\ [Next]_vars => [Promise!DeliveryNext]_(Promise!deliveryVars)
  BY NextImplements
<1>3. QED
  BY <1>1, <1>2, InductiveInvariant, PTL DEF Spec, ImplementsFactDelivery, Promise!DeliverySpec
=============================================================================
