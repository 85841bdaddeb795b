----------------------- MODULE InteractionIngressProofs ---------------------
(***************************************************************************)
(* Proofs about InteractionIngress for every set of events and relays and  *)
(* every bound.                                                            *)
(*                                                                         *)
(* The argument: a derivation that has written stays written and one that  *)
(* has completed stays completed, since copies only grow and nothing       *)
(* leaves "completed" (StepsAreKept); a redacted copy can come only from a *)
(* redacted row, and a row is redacted over an issue that holds its own    *)
(* text or is recorded as lost.  So whoever completes an event finds a     *)
(* copy.  Batches are disjoint because a claim takes pending rows and the  *)
(* rows of a batch are never pending again.                                *)
(***************************************************************************)
EXTENDS InteractionIngress, TLAPS

LEMMA Init_IInv == ASSUME IngressAssumption, Init PROVE IInv
<1>1. Procs = Relays \cup (Events \X Tries)
  BY DEF Procs, Attempts
<1>2. Idle \in Run /\ Idle.pc = "idle"
  BY DEF Idle, Run, Texts
<1>3. TypeOK
  BY <1>2, 0 \in 0 .. MaxFaults DEF IngressAssumption, Init, TypeOK, Running, Steps, Texts
<1>4. StepsAreKept
  BY <1>2 DEF Init, StepsAreKept, Texts
<1>5. CompletedIsDerived /\ OneRelayPerEvent
  BY <1>2 DEF Init, CompletedIsDerived, OneRelayPerEvent, Running, Steps, Procs
<1>6. QED
  BY <1>3, <1>4, <1>5 DEF IInv

LEMMA RecordStep ==
  ASSUME IngressAssumption, IInv, NEW e \in Events, Record(e) PROVE IInv'
<1> USE DEF IInv
<1>1. TypeOK'
  BY DEF Record, TypeOK, Running, Run, Steps
<1>2. StepsAreKept'
  BY DEF Record, StepsAreKept, TypeOK
<1>3. CompletedIsDerived' /\ OneRelayPerEvent'
  BY DEF Record, CompletedIsDerived, OneRelayPerEvent, TypeOK, Running
<1>4. QED
  BY <1>1, <1>2, <1>3

LEMMA DispatchStep ==
  ASSUME IngressAssumption, IInv, NEW e \in Events, Dispatch(e) \/ DispatchLost(e) PROVE IInv'
<1> USE DEF IInv
<1>1. CASE DispatchLost(e) \/ (Dispatch(e) /\ wf[e] \in {"open", "completed"})
  BY <1>1 DEF DispatchLost, Dispatch, Fault, rows, TypeOK, StepsAreKept, CompletedIsDerived,
              OneRelayPerEvent, Running
<1>2. CASE Dispatch(e) /\ wf[e] \notin {"open", "completed"}
  <2>1. /\ <<e, 1>> \in Procs /\ <<e, 1>> \notin Relays
        /\ run' = [run EXCEPT ![<<e, 1>>] = Started(e)]
        /\ wf' = [wf EXCEPT ![e] = "open"]
        /\ posts' = posts \ {e}
        /\ UNCHANGED <<state, text, outbox, copies, lost, left, faults>>
    BY <1>2 DEF Dispatch, Procs, Attempts, Tries, IngressAssumption, rows
  <2>2. Started(e) \in Run /\ Started(e).pc = "started" /\ Started(e).event = e
    BY DEF Started, Idle, Run, Texts, Steps
  <2>3. state[e] # "absent"
    BY <1>2 DEF Dispatch, TypeOK
  <2>4. TypeOK'
    BY <2>1, <2>2, <2>3 DEF TypeOK, Running
  <2>5. StepsAreKept'
    BY <2>1, <2>2 DEF StepsAreKept, TypeOK
  <2>6. CompletedIsDerived' /\ OneRelayPerEvent'
    BY <2>1, <2>2 DEF CompletedIsDerived, OneRelayPerEvent, TypeOK, Running, Procs
  <2>7. QED
    BY <2>4, <2>5, <2>6
<1>3. QED
  BY <1>1, <1>2

\* A derivation in progress has a recorded event.
LEMMA RunningRun ==
  ASSUME TypeOK, NEW p \in Procs, Running(p)
  PROVE  run[p] \in Run /\ run[p].event \in Events /\ state[run[p].event] # "absent"
BY DEF TypeOK

LEMMA ReadStep ==
  ASSUME IngressAssumption, IInv, NEW p \in Procs, Read(p) PROVE IInv'
<1> USE DEF IInv
<1>1. run[p].event \in Events /\ state[run[p].event] # "absent" /\ run[p] \in Run
  BY RunningRun DEF Read, Running, Steps
<1>2. DEFINE r == [run[p] EXCEPT !.pc = "read", !.text = text[run[p].event]]
<1>3. /\ run' = [run EXCEPT ![p] = r]
      /\ UNCHANGED <<state, text, outbox, copies, lost, posts, wf, left, faults>>
  BY DEF Read, rows
<1>4. r \in Run /\ r.pc = "read" /\ r.event = run[p].event /\ r.text = text[r.event]
  BY <1>1 DEF Run, Steps, TypeOK
<1>5. Running(p)
  BY DEF Read, Running, Steps
<1> HIDE DEF r
<1>6. TypeOK'
  BY <1>1, <1>3, <1>4 DEF TypeOK, Running
<1>7. StepsAreKept'
  BY <1>1, <1>3, <1>4 DEF StepsAreKept, TypeOK
<1>8. CompletedIsDerived' /\ OneRelayPerEvent'
  BY <1>1, <1>3, <1>4, <1>5 DEF CompletedIsDerived, OneRelayPerEvent, TypeOK, Running, Procs
<1>9. QED
  BY <1>6, <1>7, <1>8

LEMMA UpsertStep ==
  ASSUME IngressAssumption, IInv, NEW p \in Procs, Upsert(p) PROVE IInv'
<1> USE DEF IInv
<1>1. run[p].event \in Events /\ state[run[p].event] # "absent" /\ run[p] \in Run /\ Running(p)
  BY RunningRun DEF Upsert, Running, Steps
<1>2. DEFINE r == [run[p] EXCEPT !.pc = "derived", !.text = "own"]
             d == run[p].event
             c == [copies[d] EXCEPT ![run[p].text] = @ + 1]
<1>3. /\ run' = [run EXCEPT ![p] = r]
      /\ copies' = [copies EXCEPT ![d] = c]
      /\ UNCHANGED <<state, text, outbox, lost, posts, wf, left, faults>>
  BY DEF Upsert, rows, Appended
<1>4. r \in Run /\ r.pc = "derived" /\ r.event = d /\ r.text = "own"
  BY <1>1 DEF Run, Steps, Texts
<1>5. /\ copies[d] \in [Texts -> Nat] /\ c \in [Texts -> Nat] /\ run[p].text \in Texts
      /\ c["own"] >= copies[d]["own"] /\ c["redacted"] >= copies[d]["redacted"]
      /\ c["own"] + c["redacted"] > 0
      /\ c["redacted"] > 0 => copies[d]["redacted"] > 0 \/ run[p].text = "redacted"
  BY <1>1 DEF Texts, TypeOK, Run
<1>6. c["redacted"] > 0 => text[d] = "redacted"
  BY <1>1, <1>5 DEF StepsAreKept, Upsert
<1>7. \A e \in Events : copies'[e] = IF e = d THEN c ELSE copies[e]
  BY <1>1, <1>3 DEF TypeOK
<1>8. \A q \in Procs : run'[q] = IF q = p THEN r ELSE run[q]
  BY <1>3 DEF TypeOK
<1>9. d \in Events /\ state[d] # "absent"
  BY <1>1
<1>a. \A q \in Procs : run[q].event \in Events \/ ~Running(q)
  BY DEF TypeOK
<1> HIDE DEF r, d, c
<1>b. \A e \in Events : /\ copies[e] \in [Texts -> Nat] /\ copies'[e] \in [Texts -> Nat]
                         /\ copies'[e]["own"] >= copies[e]["own"]
                         /\ copies'[e]["redacted"] >= copies[e]["redacted"]
                         /\ copies[e]["own"] \in Nat /\ copies[e]["redacted"] \in Nat
                         /\ copies'[e]["own"] \in Nat /\ copies'[e]["redacted"] \in Nat
  BY <1>5, <1>7 DEF TypeOK, Texts
<1>c. TypeOK'
  BY <1>3, <1>4, <1>5, <1>8, <1>9 DEF TypeOK, Running
<1>d. StepsAreKept'
  <2>1. ASSUME NEW q \in Procs
        PROVE  /\ run'[q].pc = "read" /\ run'[q].text = "redacted" => text'[run'[q].event] = "redacted"
               /\ run'[q].pc \in {"derived", "completed"} =>
                    copies'[run'[q].event]["own"] + copies'[run'[q].event]["redacted"] > 0
               /\ run'[q].pc = "completed" => state'[run'[q].event] = "completed"
    <3>1. CASE q = p
      BY <3>1, <1>3, <1>4, <1>5, <1>7, <1>8, <1>9
    <3>2. CASE q # p
      BY <3>2, <1>3, <1>8, <1>a, <1>b DEF StepsAreKept, Running, Steps
    <3>3. QED
      BY <3>1, <3>2
  <2>2. ASSUME NEW e \in Events
        PROVE  /\ copies'[e]["redacted"] > 0 => text'[e] = "redacted"
               /\ text'[e] = "redacted" => copies'[e]["own"] > 0 \/ e \in lost'
    BY <1>3, <1>6, <1>7, <1>b DEF StepsAreKept
  <2>3. QED
    BY <1>3, <2>1, <2>2 DEF StepsAreKept
<1>e. CompletedIsDerived'
  BY <1>3, <1>b DEF CompletedIsDerived
<1>f. OneRelayPerEvent'
  BY <1>1, <1>3, <1>4, <1>8 DEF OneRelayPerEvent, Running, Procs, d
<1>g. QED
  BY <1>c, <1>d, <1>e, <1>f

LEMMA CompleteStep ==
  ASSUME IngressAssumption, IInv, NEW p \in Procs, Complete(p) PROVE IInv'
<1> USE DEF IInv
<1>1. run[p].event \in Events /\ state[run[p].event] # "absent" /\ run[p] \in Run /\ Running(p)
  BY RunningRun DEF Complete, Completes, Running, Steps
<1>2. DEFINE r == [run[p] EXCEPT !.pc = "completed"]
             d == run[p].event
<1>3. /\ run' = [run EXCEPT ![p] = r]
      /\ state' = [state EXCEPT ![d] = "completed"]
      /\ UNCHANGED <<text, outbox, copies, lost, posts, wf, left, faults>>
  BY DEF Complete, Goto
<1>4. r \in Run /\ r.pc = "completed" /\ r.event = d /\ r.text = run[p].text
  BY <1>1 DEF Run, Steps
<1>5. copies[d]["own"] + copies[d]["redacted"] > 0
  BY DEF StepsAreKept, Complete, Completes
<1>6. d \in Events /\ state[d] # "absent"
  BY <1>1
<1>7. copies[d]["own"] \in Nat /\ copies[d]["redacted"] \in Nat
  BY <1>6 DEF TypeOK, Texts
<1> HIDE DEF r, d
<1>8. TypeOK'
  BY <1>3, <1>4, <1>6 DEF TypeOK, Running
<1>9. StepsAreKept'
  BY <1>3, <1>4, <1>5, <1>6 DEF StepsAreKept, TypeOK, Running, Steps
<1>a. CompletedIsDerived'
  BY <1>3, <1>5, <1>6, <1>7 DEF CompletedIsDerived, StepsAreKept, TypeOK
<1>b. OneRelayPerEvent'
  BY <1>1, <1>3, <1>4 DEF OneRelayPerEvent, TypeOK, Running, Procs, d
<1>c. QED
  BY <1>8, <1>9, <1>a, <1>b

-----------------------------------------------------------------------------
(* The workflow.                                                           *)

LEMMA AttemptIds ==
  ASSUME IngressAssumption, NEW e \in Events, NEW k \in Tries
  PROVE  <<e, k>> \in Procs /\ <<e, k>> \notin Relays
BY DEF IngressAssumption, Procs, Attempts, Tries

LEMMA IdleRuns ==
  ASSUME NEW e \in Events
  PROVE  /\ Idle \in Run /\ Idle.pc = "idle"
         /\ [Idle EXCEPT !.pc = "thrown"] \in Run /\ [Idle EXCEPT !.pc = "thrown"].pc = "thrown"
         /\ Started(e) \in Run /\ Started(e).pc = "started" /\ Started(e).event = e
BY DEF Started, Idle, Run, Texts, Steps

\* A step that leaves rows, copies and batches alone, and puts nothing but idle, thrown or
\* freshly started attempts in the place of what attempts there were, keeps the invariant.
LEMMA AttemptsStep ==
  ASSUME IngressAssumption, IInv,
         UNCHANGED <<state, text, outbox, copies, lost, left, posts>>,
         faults' \in 0 .. MaxFaults,
         wf' \in [Events -> {"none", "open", "completed", "failed"}],
         \A e \in Events : state[e] = "absent" => wf'[e] = "none",
         run' \in [Procs -> Run],
         \A p \in Procs :
           \/ run'[p] = run[p]
           \/ p \notin Relays /\ run'[p].pc \in {"idle", "thrown"}
           \/ /\ p \notin Relays /\ run'[p].pc = "started"
              /\ run'[p].event \in Events /\ state[run'[p].event] # "absent"
  PROVE  IInv'
<1> USE DEF IInv
<1>1. TypeOK'
  BY DEF TypeOK, Running, Steps
<1>2. StepsAreKept'
  BY DEF StepsAreKept
<1>3. CompletedIsDerived' /\ OneRelayPerEvent'
  BY DEF CompletedIsDerived, OneRelayPerEvent, Running, Procs
<1>4. QED
  BY <1>1, <1>2, <1>3

LEMMA ReturnStep ==
  ASSUME IngressAssumption, IInv, NEW e \in Events, NEW k \in Tries,
         Return(e, k) \/ Throw(e, k)
  PROVE  IInv'
<1>1. PICK r \in {Idle, [Idle EXCEPT !.pc = "thrown"]} : run' = [run EXCEPT ![<<e, k>>] = r]
  BY DEF Return, Throw
<1>2. /\ UNCHANGED <<state, text, outbox, copies, lost, left, posts>>
      /\ wf' = [wf EXCEPT ![e] = IF Latest(e, k) /\ Return(e, k) THEN "completed" ELSE @]
      /\ faults' \in 0 .. MaxFaults
  BY DEF Return, Throw, Fault, rows, IInv, TypeOK, IngressAssumption
<1>3. /\ wf' \in [Events -> {"none", "open", "completed", "failed"}]
      /\ \A x \in Events : state[x] = "absent" => wf'[x] = "none"
  BY <1>2 DEF IInv, TypeOK, Latest
<1>4. r \in Run /\ r.pc \in {"idle", "thrown"}
  BY IdleRuns
<1>5. run \in [Procs -> Run] /\ <<e, k>> \in Procs /\ <<e, k>> \notin Relays
  BY AttemptIds DEF IInv, TypeOK
<1>6. run' \in [Procs -> Run]
  BY <1>1, <1>4, <1>5
<1>7. \A p \in Procs : run'[p] = run[p] \/ (p \notin Relays /\ run'[p].pc \in {"idle", "thrown"})
  BY <1>1, <1>4, <1>5
<1>8. QED
  BY <1>2, <1>3, <1>6, <1>7, AttemptsStep

LEMMA GiveUpStep ==
  ASSUME IngressAssumption, IInv, NEW e \in Events, NEW k \in Tries,
         AfterThrow(e, k) \/ AfterTimeout(e, k)
  PROVE  IInv'
<1>1. PICK t \in {Idle, run[<<e, k>>]} : GiveUp(e, k, t)
  BY DEF AfterThrow, AfterTimeout
<1>2. faults' \in 0 .. MaxFaults
  BY DEF AfterThrow, AfterTimeout, Fault, IInv, TypeOK, IngressAssumption
<1>3. UNCHANGED <<state, text, outbox, copies, lost, left, posts>>
  BY <1>1 DEF GiveUp, rows
<1>4. state[e] # "absent"
  BY <1>1 DEF GiveUp, Latest, IInv, TypeOK
<1>5. /\ wf' \in [Events -> {"none", "open", "completed", "failed"}]
      /\ \A x \in Events : state[x] = "absent" => wf'[x] = "none"
  BY <1>1, <1>4 DEF GiveUp, IInv, TypeOK
<1>6. run' = [p \in Procs |-> IF p = <<e, k + 1>> THEN Started(e)
                             ELSE IF p = <<e, k>> THEN t ELSE run[p]]
  BY <1>1 DEF GiveUp
<1>7. t = Idle \/ t = run[<<e, k>>]
  BY <1>1
<1>8. run \in [Procs -> Run] /\ <<e, k>> \in Procs /\ <<e, k>> \notin Relays
  BY AttemptIds DEF IInv, TypeOK
<1>9. <<e, k + 1>> \in Procs => <<e, k + 1>> \notin Relays
  BY DEF Procs, Attempts, Tries, IngressAssumption
<1>a. run' \in [Procs -> Run]
  BY <1>6, <1>7, <1>8, IdleRuns
<1>b. \A p \in Procs :
        \/ run'[p] = run[p]
        \/ p \notin Relays /\ run'[p].pc \in {"idle", "thrown"}
        \/ /\ p \notin Relays /\ run'[p].pc = "started"
           /\ run'[p].event \in Events /\ state[run'[p].event] # "absent"
  BY <1>4, <1>6, <1>7, <1>8, <1>9, IdleRuns
<1>c. QED
  BY <1>2, <1>3, <1>5, <1>a, <1>b, AttemptsStep

-----------------------------------------------------------------------------
(* The relay and the purge.                                                *)

LEMMA RelayIds ==
  ASSUME NEW w \in Relays PROVE w \in Procs
BY DEF Procs

LEMMA ClaimStep ==
  ASSUME IngressAssumption, IInv, NEW w \in Relays, Claim(w) PROVE IInv'
<1> USE DEF IInv
<1>1. PICK S \in SUBSET {e \in Events : Due(e)} :
        /\ left' = [left EXCEPT ![w] = S]
        /\ state' = [e \in Events |-> IF e \in S THEN "processing" ELSE state[e]]
  BY DEF Claim
<1>2. /\ UNCHANGED <<text, outbox, copies, lost, posts, wf, run, faults>>
      /\ left[w] = {}
  BY DEF Claim
<1>3. \A e \in S : e \in Events /\ state[e] = "pending" /\ state'[e] = "processing"
  BY <1>1 DEF Due
<1>4. \A e \in Events \ S : state'[e] = state[e]
  BY <1>1
<1>5. TypeOK'
  BY <1>1, <1>2, <1>3, <1>4 DEF TypeOK, Running
<1>a. \A e \in Events : state[e] = "completed" => state'[e] = "completed"
  BY <1>3, <1>4
<1>b. \A p \in Procs : run[p].pc = "completed" => run[p].event \in Events
  BY DEF TypeOK, Running, Steps
<1>c. \A v \in Relays : \A e \in left'[v] : state'[e] \in {"processing", "completed"}
  <2>1. ASSUME NEW v \in Relays, NEW e \in left'[v]
        PROVE  state'[e] \in {"processing", "completed"}
    <3>1. CASE e \in S
      BY <1>3, <3>1
    <3>2. CASE e \notin S
      BY <1>1, <1>4, <2>1, <3>2 DEF StepsAreKept, TypeOK
    <3>3. QED
      BY <3>1, <3>2
  <2>2. QED
    BY <2>1
<1>6. StepsAreKept'
  BY <1>2, <1>a, <1>b, <1>c DEF StepsAreKept
<1>7. CompletedIsDerived'
  BY <1>2, <1>3, <1>4 DEF CompletedIsDerived
<1>8. OneRelayPerEvent'
  <2>1. \A v \in Relays : left[v] \cap S = {}
    BY <1>3 DEF StepsAreKept
  <2>2. ASSUME NEW u \in Relays, NEW v \in Relays, u # v PROVE left'[u] \cap left'[v] = {}
    BY <1>1, <2>1, <2>2 DEF OneRelayPerEvent, TypeOK
  <2>3. ASSUME NEW v \in Relays, Running(v)' PROVE run'[v].event \in left'[v]
    BY <1>1, <1>2, <2>3 DEF OneRelayPerEvent, Running, TypeOK
  <2>4. QED
    BY <2>2, <2>3 DEF OneRelayPerEvent
<1>9. QED
  BY <1>5, <1>6, <1>7, <1>8

LEMMA TakeStep ==
  ASSUME IngressAssumption, IInv, NEW w \in Relays, NEW e \in Events, Take(w, e) PROVE IInv'
<1> USE DEF IInv
<1>1. DEFINE r == [pc |-> "read", event |-> e, text |-> text[e]]
<1>2. /\ run' = [run EXCEPT ![w] = r]
      /\ UNCHANGED <<state, text, outbox, copies, lost, posts, wf, left, faults>>
      /\ e \in left[w]
  BY DEF Take, rows
<1>3. r \in Run /\ r.pc = "read" /\ r.event = e /\ r.text = text[e]
  BY DEF Run, Steps, TypeOK
<1>4. state[e] # "absent"
  BY <1>2 DEF StepsAreKept
<1> HIDE DEF r
<1>5. TypeOK'
  BY <1>2, <1>3, <1>4, RelayIds DEF TypeOK, Running
<1>6. StepsAreKept'
  BY <1>2, <1>3, RelayIds DEF StepsAreKept, TypeOK
<1>7. CompletedIsDerived' /\ OneRelayPerEvent'
  BY <1>2, <1>3, RelayIds DEF CompletedIsDerived, OneRelayPerEvent, TypeOK, Running
<1>8. QED
  BY <1>5, <1>6, <1>7

LEMMA BatchStep ==
  ASSUME IngressAssumption, IInv, NEW w \in Relays,
         Deliver(w) \/ RelayThrow(w) \/ RelayCrash(w)
  PROVE  IInv'
<1> USE DEF IInv
<1>1. PICK S \in SUBSET left[w] : left' = [left EXCEPT ![w] = S]
  BY DEF Deliver, RelayThrow, RelayCrash, Drop, TypeOK
<1>2. /\ run' = [run EXCEPT ![w] = Idle]
      /\ UNCHANGED <<state, text, copies, lost, posts, wf>>
      /\ faults' \in 0 .. MaxFaults
  BY DEF Deliver, RelayThrow, RelayCrash, Drop, Fault, rows, TypeOK, IngressAssumption
<1>3. \/ outbox' = outbox
      \/ /\ Deliver(w)
         /\ outbox' = [outbox EXCEPT ![run[w].event] = "delivered"]
         /\ run[w].event \in Events /\ state[run[w].event] = "completed"
  BY RelayIds, RunningRun DEF Deliver, RelayThrow, RelayCrash, rows, StepsAreKept, Running, Steps
<1>4. Idle \in Run /\ Idle.pc = "idle"
  BY DEF Idle, Run, Texts
<1>5. w \in Procs
  BY RelayIds
<1>b. left' \in [Relays -> SUBSET Events]
  BY <1>1 DEF TypeOK
<1>c. /\ outbox' \in [Events -> {"absent", "pending", "delivered"}]
      /\ \A e \in Events : state[e] = "absent" <=> outbox'[e] = "absent"
  BY <1>3 DEF TypeOK
<1>d. /\ run' \in [Procs -> Run]
      /\ \A p \in Procs : run'[p].pc \in Steps => run'[p] = run[p]
  BY <1>2, <1>4, <1>5 DEF TypeOK, Steps
<1>6. TypeOK'
  BY <1>2, <1>b, <1>c, <1>d DEF TypeOK, Running
<1>7. StepsAreKept'
  BY <1>1, <1>2, <1>4, <1>5 DEF StepsAreKept, TypeOK
<1>8. CompletedIsDerived'
  BY <1>2, <1>3 DEF CompletedIsDerived, TypeOK
<1>9. OneRelayPerEvent'
  BY <1>1, <1>2, <1>4, <1>5 DEF OneRelayPerEvent, TypeOK, Running, Steps, Procs
<1>a. QED
  BY <1>6, <1>7, <1>8, <1>9

LEMMA PurgeStep ==
  ASSUME IngressAssumption, IInv, Purge PROVE IInv'
<1> USE DEF IInv
<1>1. PICK S \in SUBSET {e \in Expiring : state[e] # "absent" /\ text[e] = "own"} :
        /\ text' = [e \in Events |-> IF e \in S THEN "redacted" ELSE text[e]]
        /\ lost' = lost \cup {e \in S : copies[e]["own"] = 0}
  BY DEF Purge
<1>2. UNCHANGED <<state, outbox, copies, posts, wf, run, left, faults>>
  BY DEF Purge
<1>3. S \subseteq Events
  BY DEF IngressAssumption
<1>4. \A e \in Events : copies[e]["own"] \in Nat
  BY DEF TypeOK, Texts
<1>5. TypeOK'
  BY <1>1, <1>2, <1>3 DEF TypeOK, Running, Texts
<1>6. StepsAreKept'
  BY <1>1, <1>2, <1>3, <1>4 DEF StepsAreKept, TypeOK, Running, Steps
<1>7. CompletedIsDerived' /\ OneRelayPerEvent'
  BY <1>1, <1>2 DEF CompletedIsDerived, OneRelayPerEvent, Running
<1>8. QED
  BY <1>5, <1>6, <1>7

-----------------------------------------------------------------------------
(* Theorems.                                                               *)

LEMMA NextKeeps == ASSUME IngressAssumption, IInv, [Next]_vars PROVE IInv'
<1>1. CASE \E e \in Events : Record(e) \/ Dispatch(e) \/ DispatchLost(e)
  BY <1>1, RecordStep, DispatchStep
<1>2. CASE \E p \in Procs : Read(p) \/ Upsert(p) \/ Complete(p)
  BY <1>2, ReadStep, UpsertStep, CompleteStep
<1>3. CASE \E e \in Events, k \in Tries :
             Return(e, k) \/ Throw(e, k) \/ AfterThrow(e, k) \/ AfterTimeout(e, k)
  BY <1>3, ReturnStep, GiveUpStep
<1>4. CASE \E w \in Relays :
             Claim(w) \/ (\E e \in Events : Take(w, e)) \/ Deliver(w) \/ RelayThrow(w) \/ RelayCrash(w)
  BY <1>4, ClaimStep, TakeStep, BatchStep
<1>5. CASE Purge
  BY <1>5, PurgeStep
<1>6. CASE UNCHANGED vars
  BY <1>6 DEF vars, IInv, TypeOK, StepsAreKept, CompletedIsDerived, OneRelayPerEvent, Running
<1>7. QED
  BY <1>1, <1>2, <1>3, <1>4, <1>5, <1>6 DEF Next

\* The strengthened invariant holds in every reachable state.
THEOREM InductiveInvariant == Spec => []IInv
<1>1. Init => IInv
  BY IngressAssumption, Init_IInv
<1>2. IInv /\ [Next]_vars => IInv'
  BY IngressAssumption, NextKeeps
<1>3. QED
  BY <1>1, <1>2, PTL DEF Spec

\* Rows, workflows and derivations keep their shapes.
THEOREM TypeCorrect == Spec => []TypeOK
<1>1. IInv => TypeOK
  BY DEF IInv
<1>2. QED
  BY <1>1, InductiveInvariant, PTL

\* However the workflow, its retries, the relays and the purge interleave, a completed event
\* is in its issue, with its own text unless it expired before it was derived.
THEOREM CompletionIsTrue == Spec => []CompletedIsDerived
<1>1. IInv => CompletedIsDerived
  BY DEF IInv
<1>2. QED
  BY <1>1, InductiveInvariant, PTL

\* Any number of relays, timed-out ones included, work on disjoint batches.
THEOREM BatchesAreDisjoint == Spec => []OneRelayPerEvent
<1>1. IInv => OneRelayPerEvent
  BY DEF IInv
<1>2. QED
  BY <1>1, InductiveInvariant, PTL

\* A completed event stays completed, a delivered outbox row delivered.
Kept ==
  \A e \in Events :
    /\ state[e] = "completed" => state'[e] = "completed"
    /\ outbox[e] = "delivered" => outbox'[e] = "delivered"

\* Nothing reopens a completed event: no claim, retry or redelivery takes it back.
THEOREM CompletedForever == Spec => [][Kept]_vars
<1>1. ASSUME IInv, [Next]_vars PROVE Kept
  <2>1. CASE \E d \in Events : Record(d) \/ Dispatch(d) \/ DispatchLost(d)
    BY <1>1, <2>1 DEF Record, Dispatch, DispatchLost, rows, IInv, TypeOK, Kept
  <2>2. CASE \E p \in Procs : Read(p) \/ Upsert(p) \/ Complete(p)
    BY <1>1, <2>2 DEF Read, Upsert, Complete, rows, IInv, TypeOK, Kept
  <2>3. CASE \E d \in Events, k \in Tries :
               Return(d, k) \/ Throw(d, k) \/ AfterThrow(d, k) \/ AfterTimeout(d, k)
    BY <1>1, <2>3 DEF Return, Throw, AfterThrow, AfterTimeout, GiveUp, rows, Kept
  <2>4. CASE \E w \in Relays : Claim(w)
    BY <1>1, <2>4 DEF Claim, Due, Kept
  <2>5. CASE \E w \in Relays : (\E d \in Events : Take(w, d)) \/ Deliver(w)
                                 \/ RelayThrow(w) \/ RelayCrash(w)
    BY <1>1, <2>5 DEF Take, Deliver, RelayThrow, RelayCrash, rows, IInv, TypeOK, Kept
  <2>6. CASE Purge \/ UNCHANGED vars
    BY <1>1, <2>6 DEF Purge, vars, Kept
  <2>7. QED
    BY <1>1, <2>1, <2>2, <2>3, <2>4, <2>5, <2>6 DEF Next
<1>2. IInv /\ [Next]_vars => [Kept]_vars
  BY <1>1
<1>3. QED
  BY <1>2, InductiveInvariant, PTL DEF Spec
=============================================================================
