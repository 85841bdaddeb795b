---------------------- MODULE SupportRegistrationProofs ----------------------
(***************************************************************************)
(* Proofs about SupportRegistration for any installations and any numbers  *)
(* of lease owners and tries.                                              *)
(*                                                                         *)
(* The argument: a permanently revoked lifecycle, an existing connection   *)
(* and a disabled one are never undone (Advance).  So what a claim stored, *)
(* what a try computed from an answer and what a call asks for stay        *)
(* grounded however late they come (the grounded predicates), and the      *)
(* completion turns only grounded values into a state of the job.          *)
(***************************************************************************)
EXTENDS SupportRegistration, TLAPS

-----------------------------------------------------------------------------
(* What is never undone, and the frame of every step.                      *)

Advance ==
  \A j \in Installs :
    /\ gateway[j] # "none" => gateway'[j] # "none"
    /\ gateway[j] = "disabled" => gateway'[j] = "disabled"
    /\ job[j].desired = "permanently_revoked" => job'[j].desired = "permanently_revoked"

\* The promises of the job j.
JobSafe(j) ==
  /\ JobGrounded(j)
  /\ job[j].state = "revoked" => gateway[j] = "disabled"
  /\ gateway[j] = "disabled" => ws[j] = "tombstoned" /\ job[j].desired = "permanently_revoked"
  /\ job[j].state = "ready" => gateway[j] = "enabled"
  /\ job[j].conn => gateway[j] # "none"

LEMMA AllSafe == IInv => \A j \in Installs : JobSafe(j)
BY DEF IInv, JobSafe, RevokedIsDisabled, ReadyIsConnected

LEMMA Frame ==
  ASSUME IInv, TypeOK', Advance, \A j \in Installs : JobSafe(j)',
         \A j \in Installs, o \in Claimers : claimed'[j][o] = claimed[j][o] \/ ClaimGrounded(j, o)',
         \A j \in Installs, o \in Claimers, k \in Tries :
           \/ try'[j][o][k] = try[j][o][k] /\ (claimed'[j][o] = "absent" => claimed[j][o] = "absent")
           \/ TryGrounded(j, o, k)',
         \A c \in calls' : c \in calls \/ CallGrounded(c)'
  PROVE  IInv'
<1>1. \A j \in Installs : JobGrounded(j)'
  BY DEF JobSafe
<1>2. RevokedIsDisabled' /\ ReadyIsConnected'
  BY DEF JobSafe, RevokedIsDisabled, ReadyIsConnected
<1>3. \A j \in Installs, o \in Claimers : ClaimGrounded(j, o)'
  BY DEF IInv, ClaimGrounded, Advance
<1>4. \A j \in Installs, o \in Claimers, k \in Tries : TryGrounded(j, o, k)'
  <2> SUFFICES ASSUME NEW j \in Installs, NEW o \in Claimers, NEW k \in Tries,
                      try'[j][o][k] = try[j][o][k],
                      claimed'[j][o] = "absent" => claimed[j][o] = "absent"
               PROVE  TryGrounded(j, o, k)'
    OBVIOUS
  <2>1. TryGrounded(j, o, k)
    BY DEF IInv
  <2>2. QED
    BY <2>1 DEF TryGrounded, Advance
<1>5. \A c \in calls' : CallGrounded(c)'
  <2> SUFFICES ASSUME NEW c \in calls PROVE CallGrounded(c)'
    OBVIOUS
  <2>1. CallGrounded(c) /\ c[1] \in Installs
    BY DEF IInv, TypeOK
  <2>2. QED
    BY <2>1 DEF CallGrounded, Advance
<1>6. QED
  BY <1>1, <1>2, <1>3, <1>4, <1>5 DEF IInv

-----------------------------------------------------------------------------
(* Updates of one try, and of one job.                                     *)

Triers == [Installs -> [Claimers -> [Tries -> Try]]]

\* The effect of a step of the try (j, o, k): the others stay, and it stays grounded.
TryMoved(j, o, k) ==
  /\ try' \in Triers
  /\ \A x \in Installs, y \in Claimers, z \in Tries :
       x # j \/ y # o \/ z # k => try'[x][y][z] = try[x][y][z]
  /\ TryGrounded(j, o, k)'

\* A try that goes on from a stage that is not idle holds nothing yet.
LEMMA GotoMoves ==
  ASSUME IInv, NEW j \in Installs, NEW o \in Claimers, NEW k \in Tries,
         NEW pc \in {"started", "failed", "over", "thrown"} \cup Calls,
         try[j][o][k].pc # "idle", Goto(j, o, k, pc), UNCHANGED claimed
  PROVE  TryMoved(j, o, k)
<1> DEFINE t == [NoTry EXCEPT !.pc = pc]
<1>1. t \in Try /\ t.next = "pending" /\ t.conn = FALSE
  BY DEF NoTry, Try, Serving
<1>2. try \in Triers /\ try' = [try EXCEPT ![j][o][k] = t]
  BY DEF IInv, TypeOK, Triers, Goto
<1> HIDE DEF t
<1>3. /\ try' \in Triers /\ try'[j][o][k] = t
      /\ \A x \in Installs, y \in Claimers, z \in Tries :
           x # j \/ y # o \/ z # k => try'[x][y][z] = try[x][y][z]
  <2>1. t \in Try
    BY <1>1
  <2>2. QED
    BY <1>2, <2>1 DEF Triers
<1>4. claimed'[j][o] # "absent"
  BY DEF IInv, TryGrounded
<1>5. TryGrounded(j, o, k)'
  <2>1. try'[j][o][k].next = "pending" /\ ~try'[j][o][k].conn
    BY <1>1, <1>3
  <2>2. QED
    BY <1>4, <2>1 DEF TryGrounded, Closing
<1>6. QED
  BY <1>3, <1>5 DEF TryMoved

\* An answer is taken over by the try that waits for it.
LEMMA ResumeMoves ==
  ASSUME IInv, NEW j \in Installs, NEW o \in Claimers, NEW k \in Tries, NEW kind \in Calls,
         NEW next \in Serving \cup Closing, NEW conn \in BOOLEAN,
         Resume(j, o, k, kind, next, conn), UNCHANGED claimed, Advance,
         next \in Closing => job'[j].desired = "permanently_revoked",
         next = "revoked" => gateway'[j] = "disabled",
         next = "ready" \/ conn => gateway'[j] # "none"
  PROVE  TryMoved(j, o, k)
<1> DEFINE t == [pc |-> "finishing", next |-> next, conn |-> conn]
<1>1. t \in Try /\ t.next = next /\ t.conn = conn
  BY DEF Try
<1>2. try \in Triers /\ TryGrounded(j, o, k)
  BY DEF IInv, TypeOK, Triers
<1>3. CASE try[j][o][k].pc = kind
  <2>1. try' = [try EXCEPT ![j][o][k] = t]
    BY <1>3 DEF Resume
  <2> HIDE DEF t
  <2>2. /\ try' \in Triers /\ try'[j][o][k] = t
        /\ \A x \in Installs, y \in Claimers, z \in Tries :
             x # j \/ y # o \/ z # k => try'[x][y][z] = try[x][y][z]
    <3>1. t \in Try
      BY <1>1
    <3>2. QED
      BY <1>2, <2>1, <3>1 DEF Triers
  <2>3. claimed'[j][o] # "absent"
    BY <1>2, <1>3 DEF TryGrounded, Calls
  <2>4. TryGrounded(j, o, k)'
    <3>1. try'[j][o][k].next = next /\ (try'[j][o][k].conn => conn)
      BY <1>1, <2>2
    <3>2. QED
      BY <2>3, <3>1 DEF TryGrounded
  <2>5. QED
    BY <2>2, <2>4 DEF TryMoved
<1>4. CASE try' = try
  <2>1. TryGrounded(j, o, k)'
    BY <1>2, <1>4 DEF TryGrounded, Advance
  <2>2. QED
    BY <1>2, <1>4, <2>1 DEF TryMoved
<1>5. QED
  BY <1>3, <1>4 DEF Resume

LEMMA JobUpdate ==
  ASSUME IInv, NEW j \in Installs, NEW r \in Job, job' = [job EXCEPT ![j] = r], JobCheck(r)
  PROVE  /\ job' \in [Installs -> Job] /\ job'[j] = r
         /\ \A x \in Installs : JobCheck(job'[x])
         /\ \A x \in Installs : x # j => job'[x] = job[x]
BY DEF IInv, TypeOK

\* A job that a step leaves alone stays safe, unless its connection is disabled.
LEMMA SafeStays ==
  ASSUME IInv, NEW j \in Installs, job'[j] = job[j], gateway'[j] = gateway[j],
         ws'[j] = ws[j] \/ ws'[j] = "tombstoned"
  PROVE  JobSafe(j)'
<1>1. JobSafe(j)
  BY AllSafe
<1>2. QED
  BY <1>1 DEF JobSafe, JobGrounded

\* A step of one try that leaves the job, the workspace and the gateway alone.
LEMMA TryFrame ==
  ASSUME IInv, NEW j \in Installs, NEW o \in Claimers, NEW k \in Tries, TryMoved(j, o, k),
         UNCHANGED <<ws, job, claimed, gateway>>, calls' \subseteq calls,
         Fault \/ UNCHANGED faults
  PROVE  IInv'
<1>1. TypeOK'
  <2>1. faults' \in 0 .. MaxFaults
    BY RegistrationAssumption DEF Fault, IInv, TypeOK
  <2>2. QED
    BY <2>1 DEF IInv, TypeOK, TryMoved, Triers
<1>2. Advance
  BY DEF Advance
<1>3. \A x \in Installs : JobSafe(x)'
  BY SafeStays
<1>4. QED
  BY <1>1, <1>2, <1>3, Frame DEF TryMoved

\* A step that changes at most the job j and the try (j, o, k).
LEMMA JobFrame ==
  ASSUME IInv, NEW j \in Installs, NEW o \in Claimers, NEW k \in Tries, NEW r \in Job,
         job' = [job EXCEPT ![j] = r], JobCheck(r), TryMoved(j, o, k),
         job[j].desired = "permanently_revoked" => r.desired = "permanently_revoked",
         UNCHANGED <<ws, claimed, gateway>>, Fault \/ UNCHANGED faults,
         calls' \subseteq Installs \X Claimers \X Tries \X Calls,
         \A c \in calls' : c \in calls \/ CallGrounded(c)',
         JobSafe(j)'
  PROVE  IInv'
<1>1. /\ job' \in [Installs -> Job] /\ job'[j] = r
      /\ \A x \in Installs : JobCheck(job'[x])
      /\ \A x \in Installs : x # j => job'[x] = job[x]
  BY JobUpdate
<1>2. TypeOK'
  <2>1. faults' \in 0 .. MaxFaults
    BY RegistrationAssumption DEF Fault, IInv, TypeOK
  <2>2. QED
    BY <1>1, <2>1 DEF IInv, TypeOK, TryMoved, Triers
<1>3. Advance
  BY <1>1 DEF Advance
<1>4. \A x \in Installs : JobSafe(x)'
  BY <1>1, SafeStays
<1>5. QED
  BY <1>2, <1>3, <1>4, Frame DEF TryMoved

-----------------------------------------------------------------------------
(* The workspace, time and claims.                                         *)

\* The lease, the owner and the due time of a job say nothing of its connection.
LEMMA LeaseSafe ==
  ASSUME IInv, NEW j \in Installs, UNCHANGED <<ws, gateway>>,
         job'[j].state = job[j].state, job'[j].desired = job[j].desired,
         job'[j].conn = job[j].conn, job[j].state = "absent" => job'[j].owner = job[j].owner
  PROVE  JobSafe(j)'
<1>1. JobSafe(j)
  BY AllSafe
<1>2. QED
  BY <1>1 DEF JobSafe, JobGrounded

\* A step that leaves the tries, the claims, the calls and the gateway alone.
LEMMA StillFrame ==
  ASSUME IInv, TypeOK', UNCHANGED <<claimed, try, calls, gateway>>,
         \A x \in Installs : JobSafe(x)',
         \A x \in Installs : job[x].desired = "permanently_revoked"
                             => job'[x].desired = "permanently_revoked"
  PROVE  IInv'
<1>1. Advance
  BY DEF Advance
<1>2. QED
  BY <1>1, Frame

LEMMA AcquireKeeps ==
  ASSUME IInv, NEW j \in Installs, Acquire(j)
  PROVE  IInv'
<1> DEFINE r == [job[j] EXCEPT !.state = "pending", !.due = TRUE]
<1>1. job[j] \in Job /\ JobCheck(job[j]) /\ JobSafe(j) /\ job[j].state = "absent"
  BY AllSafe DEF IInv, TypeOK, JobGrounded, JobSafe, Acquire
<1>2. /\ r \in Job /\ r.state = "pending" /\ r.desired = job[j].desired /\ r.conn = job[j].conn
      /\ r.applied = job[j].applied /\ r.lease = job[j].lease /\ r.owner = job[j].owner
  BY <1>1 DEF Job, Serving
<1>3. job' = [job EXCEPT ![j] = r]
  BY DEF Acquire, IInv, TypeOK
<1> HIDE DEF r
<1>4. JobCheck(r) /\ r.desired # "permanently_revoked"
  BY <1>1, <1>2 DEF JobCheck, Closing
<1>5. /\ job' \in [Installs -> Job] /\ job'[j] = r
      /\ \A x \in Installs : JobCheck(job'[x])
      /\ \A x \in Installs : x # j => job'[x] = job[x]
  BY <1>2, <1>3, <1>4, JobUpdate
<1>6. ws' \in [Installs -> {"absent", "workspace_created", "tombstoned"}]
      /\ ws'[j] = "workspace_created" /\ \A x \in Installs : x # j => ws'[x] = ws[x]
  BY DEF Acquire, IInv, TypeOK
<1>7. TypeOK'
  BY <1>5, <1>6 DEF IInv, TypeOK, Acquire
<1>8. JobSafe(j)'
  <2>1. gateway'[j] = gateway[j] /\ gateway[j] # "disabled"
    BY <1>1, <1>2, <1>4 DEF Acquire, JobSafe
  <2>2. (JobGrounded(j))'
    BY <1>2, <1>5, <1>6 DEF JobGrounded
  <2>3. job'[j].conn => gateway'[j] # "none"
    BY <1>1, <1>2, <1>5, <2>1 DEF JobSafe
  <2>4. QED
    BY <1>2, <1>5, <2>1, <2>2, <2>3 DEF JobSafe
<1>9. \A x \in Installs : JobSafe(x)'
  BY <1>5, <1>6, <1>8, SafeStays DEF Acquire
<1>10. QED
  BY <1>2, <1>5, <1>7, <1>9, StillFrame DEF Acquire

LEMMA TombstoneKeeps ==
  ASSUME IInv, NEW j \in Installs, Tombstone(j)
  PROVE  IInv'
<1>1. ws' \in [Installs -> {"absent", "workspace_created", "tombstoned"}]
      /\ \A x \in Installs : ws'[x] = ws[x] \/ ws'[x] = "tombstoned"
  BY DEF Tombstone, IInv, TypeOK
<1>2. TypeOK'
  BY <1>1 DEF IInv, TypeOK, Tombstone
<1>3. \A x \in Installs : JobSafe(x)'
  BY <1>1, SafeStays DEF Tombstone
<1>4. QED
  BY <1>2, <1>3, StillFrame DEF Tombstone

LEMMA LeaseExpiresKeeps ==
  ASSUME IInv, NEW j \in Installs, LeaseExpires(j) \/ BackoffEnds(j)
  PROVE  IInv'
<1>1. job[j] \in Job /\ JobCheck(job[j])
  BY DEF IInv, TypeOK
<1>2. PICK r : /\ \/ r = [job[j] EXCEPT !.lease = "expired"] /\ job[j].lease = "live"
                  \/ r = [job[j] EXCEPT !.due = TRUE]
               /\ job' = [job EXCEPT ![j] = r]
  BY DEF LeaseExpires, BackoffEnds
<1>3. /\ r \in Job /\ r.state = job[j].state /\ r.desired = job[j].desired
      /\ r.conn = job[j].conn /\ r.owner = job[j].owner /\ r.applied = job[j].applied
      /\ r.lease = "none" <=> job[j].lease = "none"
  BY <1>1, <1>2 DEF Job
<1>4. JobCheck(r)
  BY <1>1, <1>3 DEF JobCheck
<1>5. /\ job' \in [Installs -> Job] /\ job'[j] = r
      /\ \A x \in Installs : JobCheck(job'[x])
      /\ \A x \in Installs : x # j => job'[x] = job[x]
  BY <1>2, <1>3, <1>4, JobUpdate
<1>6. TypeOK'
  <2>1. faults' \in 0 .. MaxFaults
    BY RegistrationAssumption DEF Fault, IInv, TypeOK, LeaseExpires, BackoffEnds
  <2>2. QED
    BY <1>5, <2>1 DEF IInv, TypeOK, LeaseExpires, BackoffEnds
<1>7. JobSafe(j)'
  BY <1>3, <1>5, LeaseSafe DEF LeaseExpires, BackoffEnds
<1>8. \A x \in Installs : JobSafe(x)'
  BY <1>5, <1>7, SafeStays DEF LeaseExpires, BackoffEnds
<1>9. QED
  BY <1>3, <1>5, <1>6, <1>8, StillFrame DEF LeaseExpires, BackoffEnds

LEMMA ClaimKeeps ==
  ASSUME IInv, NEW j \in Installs, NEW o \in Claimers, Claim(j, o)
  PROVE  IInv'
<1> DEFINE r == [job[j] EXCEPT !.owner = o, !.lease = "live"]
           t1 == [NoTry EXCEPT !.pc = "started"]
           ts == [k \in Tries |-> IF k = 1 THEN t1 ELSE NoTry]
           s == job[j].state
<1>1. job[j] \in Job /\ JobCheck(job[j]) /\ JobSafe(j)
  BY AllSafe DEF IInv, TypeOK
<1>2. /\ r \in Job /\ r.state = job[j].state /\ r.desired = job[j].desired
      /\ r.conn = job[j].conn /\ r.owner = o /\ r.applied = job[j].applied /\ r.lease = "live"
  BY <1>1 DEF Job
<1>3. /\ NoTry \in Try /\ t1 \in Try /\ t1.next = "pending" /\ NoTry.next = "pending"
      /\ NoTry.pc = "idle" /\ ~t1.conn /\ ~NoTry.conn
  BY DEF NoTry, Try, Serving
<1>4. job' = [job EXCEPT ![j] = r] /\ try' = [try EXCEPT ![j][o] = ts]
      /\ claimed' = [claimed EXCEPT ![j][o] = s]
  BY DEF Claim
<1>5. o # NoClaimer /\ s # "absent" /\ s \in Claimables
  BY DEF Claim, Claimable, Claimers, NoClaimer, Claimables
<1>6. s = "ready" => gateway[j] # "none"
  BY <1>1 DEF JobSafe
<1>7. s \in Closing => job[j].desired = "permanently_revoked"
  BY <1>1 DEF JobCheck
<1> HIDE DEF r, t1, s
<1>8. /\ ts \in [Tries -> Try]
      /\ \A k \in Tries : ts[k].next = "pending" /\ ~ts[k].conn
  BY <1>3
<1> HIDE DEF ts
<1>9. JobCheck(r)
  BY <1>1, <1>2, <1>5 DEF JobCheck
<1>10. /\ job' \in [Installs -> Job] /\ job'[j] = r
       /\ \A x \in Installs : JobCheck(job'[x])
       /\ \A x \in Installs : x # j => job'[x] = job[x]
  BY <1>2, <1>4, <1>9, JobUpdate
<1>11. /\ claimed' \in [Installs -> [Claimers -> {"absent"} \cup Claimables]]
       /\ claimed'[j][o] = s
       /\ \A x \in Installs, y \in Claimers : x # j \/ y # o => claimed'[x][y] = claimed[x][y]
  BY <1>4, <1>5 DEF IInv, TypeOK
<1>12. /\ try' \in Triers /\ try'[j][o] = ts
       /\ \A x \in Installs, y \in Claimers : x # j \/ y # o => try'[x][y] = try[x][y]
  BY <1>4, <1>8 DEF IInv, TypeOK, Triers
<1>13. TypeOK'
  BY <1>10, <1>11, <1>12 DEF IInv, TypeOK, Claim, Triers
<1>14. Advance
  BY <1>2, <1>10 DEF Claim, Advance
<1>15. JobSafe(j)'
  <2>1. UNCHANGED <<ws, gateway>> /\ job[j].state # "absent"
    BY <1>5 DEF Claim, s
  <2>2. QED
    BY <1>2, <1>10, <2>1, LeaseSafe
<1>16. \A x \in Installs : JobSafe(x)'
  BY <1>10, <1>15, SafeStays DEF Claim
<1>17. ClaimGrounded(j, o)'
  BY <1>2, <1>6, <1>7, <1>10, <1>11 DEF Claim, ClaimGrounded
<1>18. \A k \in Tries : TryGrounded(j, o, k)'
  <2>1. \A k \in Tries : try'[j][o][k].next = "pending" /\ ~try'[j][o][k].conn
    BY <1>8, <1>12
  <2>2. claimed'[j][o] # "absent"
    BY <1>5, <1>11
  <2>3. QED
    BY <2>1, <2>2 DEF TryGrounded, Closing
<1>19. QED
  BY <1>11, <1>12, <1>13, <1>14, <1>16, <1>17, <1>18, Frame DEF Claim

-----------------------------------------------------------------------------
(* The tries that start, get lost or crash.                                *)

LEMMA RetryKeeps ==
  ASSUME IInv, NEW j \in Installs, NEW o \in Claimers, NEW k \in Tries, Retry(j, o, k)
  PROVE  IInv'
<1> DEFINE n == k + 1
           t == [try[j][o][n] EXCEPT !.pc = "started"]
<1>1. n \in Tries /\ try \in Triers /\ try[j][o][k].pc # "idle"
  BY DEF Retry, IInv, TypeOK, Triers, Running, Calls
<1>2. try' = [try EXCEPT ![j][o][n] = t]
  BY DEF Retry
<1> HIDE DEF n
<1>3. t \in Try /\ t.next = try[j][o][n].next /\ t.conn = try[j][o][n].conn
  <2>1. try[j][o][n] \in Try
    BY <1>1 DEF Triers
  <2>2. QED
    BY <2>1 DEF Try
<1> HIDE DEF t
<1>4. t \in Try
  BY <1>3
<1>5. /\ try' \in Triers /\ try'[j][o][n] = t
      /\ \A x \in Installs, y \in Claimers, z \in Tries :
           x # j \/ y # o \/ z # n => try'[x][y][z] = try[x][y][z]
  BY <1>1, <1>2, <1>4 DEF Triers
<1>6. claimed[j][o] # "absent" /\ TryGrounded(j, o, n)
  BY <1>1 DEF IInv, TryGrounded
<1>7. TryGrounded(j, o, n)'
  <2>1. try'[j][o][n].next = try[j][o][n].next /\ try'[j][o][n].conn = try[j][o][n].conn
    BY <1>3, <1>5
  <2>2. QED
    BY <1>6, <2>1 DEF TryGrounded, Retry
<1>8. TryMoved(j, o, n)
  BY <1>5, <1>7 DEF TryMoved
<1>9. QED
  BY <1>1, <1>8, TryFrame DEF Retry

LEMMA LostKeeps ==
  ASSUME IInv, NEW j \in Installs, NEW o \in Claimers, NEW k \in Tries,
         Crash(j, o, k) \/ ObserveLost(j, o, k) \/ \E kind \in Calls : CallThrows(j, o, k, kind)
  PROVE  IInv'
<1>1. /\ try[j][o][k].pc # "idle"
      /\ (Goto(j, o, k, "thrown") \/ Goto(j, o, k, "failed"))
      /\ UNCHANGED <<ws, job, claimed, gateway>> /\ calls' \subseteq calls
      /\ (Fault \/ UNCHANGED faults)
  BY DEF Crash, ObserveLost, CallThrows, Goto, Running, Calls
<1>2. TryMoved(j, o, k)
  BY <1>1, GotoMoves
<1>3. QED
  BY <1>1, <1>2, TryFrame

-----------------------------------------------------------------------------
(* The observation of the lifecycle.                                       *)

LEMMA ObserveKeeps ==
  ASSUME IInv, NEW j \in Installs, NEW o \in Claimers, NEW k \in Tries, Observe(j, o, k)
  PROVE  IInv'
<1> DEFINE dead == [job[j] EXCEPT !.desired = "permanently_revoked",
                                  !.state = "revocation_pending"]
           r == IF ws[j] = "tombstoned" /\ job[j].desired = "active" THEN dead ELSE job[j]
<1>1. job \in [Installs -> Job] /\ job[j] \in Job /\ JobCheck(job[j]) /\ JobSafe(j)
  BY AllSafe DEF IInv, TypeOK
<1>2. /\ dead \in Job /\ dead.desired = "permanently_revoked" /\ dead.state = "revocation_pending"
      /\ dead.conn = job[j].conn /\ dead.applied = job[j].applied
      /\ dead.owner = job[j].owner /\ dead.lease = job[j].lease
  BY <1>1 DEF Job, Closing
<1>3. job' = [job EXCEPT ![j] = r]
  BY <1>1 DEF Observe
<1>4. job[j].owner # NoClaimer
  BY DEF Observe, MayFind, Holds, Claimers, NoClaimer
<1> HIDE DEF dead
<1>5. JobCheck(dead) /\ (job[j].desired = "active" => job[j].state # "revoked")
  BY <1>1, <1>2 DEF JobCheck, Closing
<1>6. /\ r \in Job /\ JobCheck(r)
      /\ job[j].desired = "permanently_revoked" => r.desired = "permanently_revoked"
  BY <1>1, <1>2, <1>5
<1>7. /\ r.desired # job[j].desired =>
           r.desired = "permanently_revoked" /\ ws[j] = "tombstoned"
      /\ r.state \in {job[j].state, "revocation_pending"}
      /\ r.conn = job[j].conn /\ r.owner = job[j].owner
  BY <1>2
<1> HIDE DEF r
<1>8. job'[j] = r
  BY <1>1, <1>3
<1>9. PICK kind \in Calls :
        /\ Goto(j, o, k, kind) /\ Send(j, o, k, kind) /\ kind # "readiness"
        /\ kind = "disable" => r.desired = "permanently_revoked"
  BY <1>8 DEF Observe, Calls
<1>10. UNCHANGED <<ws, claimed, gateway, faults>> /\ try[j][o][k].pc # "idle"
  BY DEF Observe
<1>11. TryMoved(j, o, k)
  BY <1>9, <1>10, GotoMoves
<1>12. JobSafe(j)'
  <2>1. job[j].state # "absent" /\ ws[j] # "absent"
    BY <1>1, <1>4 DEF JobSafe, JobGrounded
  <2>2. JobGrounded(j)'
    BY <1>7, <1>8, <1>10, <2>1 DEF JobGrounded
  <2>3. gateway[j] = "disabled" => ws[j] = "tombstoned" /\ r.desired = "permanently_revoked"
    BY <1>1, <1>6 DEF JobSafe
  <2>4. /\ r.state = "revoked" => gateway[j] = "disabled"
        /\ r.state = "ready" => gateway[j] = "enabled"
        /\ r.conn => gateway[j] # "none"
    BY <1>1, <1>7 DEF JobSafe
  <2>5. QED
    BY <1>8, <1>10, <2>2, <2>3, <2>4 DEF JobSafe
<1>13. /\ calls' \subseteq Installs \X Claimers \X Tries \X Calls
       /\ \A c \in calls' : c \in calls \/ CallGrounded(c)'
  <2>1. calls' = calls \cup {<<j, o, k, kind>>} /\ calls \subseteq Installs \X Claimers \X Tries \X Calls
    BY <1>9 DEF Send, IInv, TypeOK
  <2>2. CallGrounded(<<j, o, k, kind>>)'
    BY <1>8, <1>9 DEF CallGrounded
  <2>3. QED
    BY <1>9, <2>1, <2>2
<1>14. QED
  BY <1>3, <1>6, <1>10, <1>11, <1>12, <1>13, JobFrame

-----------------------------------------------------------------------------
(* The gateway answers.                                                    *)

\* A step that changes the gateway's connection of j, the try (j, o, k) and its calls.
LEMMA GatewayFrame ==
  ASSUME IInv, NEW j \in Installs, NEW o \in Claimers, NEW k \in Tries, TryMoved(j, o, k),
         UNCHANGED <<ws, job, claimed>>, Fault \/ UNCHANGED faults, Advance, JobSafe(j)',
         gateway' \in [Installs -> {"none", "enabled", "disabled"}],
         \A x \in Installs : x # j => gateway'[x] = gateway[x],
         calls' \subseteq Installs \X Claimers \X Tries \X Calls,
         \A c \in calls' : c \in calls \/ CallGrounded(c)'
  PROVE  IInv'
<1>1. TypeOK'
  <2>1. faults' \in 0 .. MaxFaults
    BY RegistrationAssumption DEF Fault, IInv, TypeOK
  <2>2. QED
    BY <2>1 DEF IInv, TypeOK, TryMoved, Triers
<1>2. \A x \in Installs : JobSafe(x)'
  BY SafeStays
<1>3. QED
  BY <1>1, <1>2, Frame DEF TryMoved

LEMMA GatewayConnectsKeeps ==
  ASSUME IInv, NEW j \in Installs, NEW o \in Claimers, NEW k \in Tries, GatewayConnects(j, o, k)
  PROVE  IInv'
<1>1. UNCHANGED <<ws, job, claimed, faults>> /\ gateway[j] # "disabled"
  BY DEF GatewayConnects
<1>2. /\ gateway' \in [Installs -> {"none", "enabled", "disabled"}] /\ gateway'[j] = "enabled"
      /\ \A x \in Installs : x # j => gateway'[x] = gateway[x]
  BY DEF GatewayConnects, IInv, TypeOK
<1>3. Advance
  BY <1>1, <1>2 DEF Advance
<1>4. JobSafe(j)'
  <2>1. JobSafe(j)
    BY AllSafe
  <2>2. QED
    BY <1>1, <1>2, <2>1 DEF JobSafe, JobGrounded
<1>5. TryMoved(j, o, k)
  <2>1. CASE try[j][o][k].pc = "connect"
    BY <1>1, <2>1, GotoMoves DEF GatewayConnects, Calls
  <2>2. CASE UNCHANGED try
    <3>1. TryGrounded(j, o, k)
      BY DEF IInv
    <3>2. TryGrounded(j, o, k)'
      BY <1>1, <1>3, <2>2, <3>1 DEF TryGrounded, Advance
    <3>3. QED
      BY <2>2, <3>2 DEF TryMoved, IInv, TypeOK, Triers
  <2>3. QED
    BY <2>1, <2>2 DEF GatewayConnects
<1>6. CallGrounded(<<j, o, k, "readiness">>)'
  BY <1>2 DEF CallGrounded
<1>7. calls \subseteq Installs \X Claimers \X Tries \X Calls
  BY DEF IInv, TypeOK
<1>8. calls' \subseteq calls \cup {<<j, o, k, "readiness">>}
  BY DEF GatewayConnects
<1>9. /\ calls' \subseteq Installs \X Claimers \X Tries \X Calls
      /\ \A c \in calls' : c \in calls \/ CallGrounded(c)'
  BY <1>6, <1>7, <1>8 DEF Calls
<1>10. QED
  BY <1>1, <1>2, <1>3, <1>4, <1>5, <1>9, GatewayFrame

LEMMA GatewayIsReadyKeeps ==
  ASSUME IInv, NEW j \in Installs, NEW o \in Claimers, NEW k \in Tries, GatewayIsReady(j, o, k)
  PROVE  IInv'
<1>1. /\ UNCHANGED <<ws, job, claimed, gateway, faults>> /\ gateway[j] = "enabled"
      /\ calls' \subseteq calls
  BY DEF GatewayIsReady, Resume
<1>2. Advance
  BY <1>1 DEF Advance
<1>3. TryMoved(j, o, k)
  BY <1>1, <1>2, ResumeMoves DEF GatewayIsReady, Calls, Serving, Closing
<1>4. QED
  BY <1>1, <1>3, TryFrame

LEMMA GatewayDisablesKeeps ==
  ASSUME IInv, NEW j \in Installs, NEW o \in Claimers, NEW k \in Tries, GatewayDisables(j, o, k)
  PROVE  IInv'
<1>1. /\ UNCHANGED <<ws, job, claimed, faults>> /\ gateway[j] # "none"
      /\ ws[j] = "tombstoned" /\ job[j].desired = "permanently_revoked"
      /\ calls' \subseteq calls
  BY DEF GatewayDisables, Resume
<1>2. /\ gateway' \in [Installs -> {"none", "enabled", "disabled"}] /\ gateway'[j] = "disabled"
      /\ \A x \in Installs : x # j => gateway'[x] = gateway[x]
  BY DEF GatewayDisables, IInv, TypeOK
<1>3. Advance
  BY <1>1, <1>2 DEF Advance
<1>4. JobSafe(j)'
  <2>1. JobSafe(j) /\ job[j].state # "ready"
    BY <1>1, AllSafe DEF IInv, TypeOK, JobCheck, Closing
  <2>2. QED
    BY <1>1, <1>2, <2>1 DEF JobSafe, JobGrounded
<1>5. TryMoved(j, o, k)
  BY <1>1, <1>2, <1>3, ResumeMoves DEF GatewayDisables, Calls, Serving, Closing
<1>6. calls \subseteq Installs \X Claimers \X Tries \X Calls
  BY DEF IInv, TypeOK
<1>7. QED
  BY <1>1, <1>2, <1>3, <1>4, <1>5, <1>6, GatewayFrame

LEMMA GatewayRefusesKeeps ==
  ASSUME IInv, NEW j \in Installs, NEW o \in Claimers, NEW k \in Tries, NEW kind \in Calls,
         GatewayRefuses(j, o, k, kind)
  PROVE  IInv'
<1>1. /\ UNCHANGED <<ws, job, claimed, gateway>> /\ calls' \subseteq calls
      /\ (Fault \/ UNCHANGED faults)
  BY DEF GatewayRefuses, Resume
<1>2. Advance
  BY <1>1 DEF Advance
<1>3. PICK r \in Refused(kind) : Resume(j, o, k, kind, r[1], r[2])
  BY DEF GatewayRefuses
<1>4. CallGrounded(<<j, o, k, kind>>)
  BY DEF GatewayRefuses, IInv
<1> DEFINE next == r[1]
           conn == r[2]
<1>5. /\ next \in Serving \cup Closing /\ next # "ready" /\ conn \in BOOLEAN
      /\ next # "revoked" /\ (next \in Closing => kind = "disable")
      /\ conn => kind = "readiness"
  <2>1. CASE kind = "connect"
    <3>1. r = <<"pending", FALSE>> \/ r = <<"conflict", FALSE>>
      BY <2>1 DEF Refused
    <3>2. next \in {"pending", "conflict"} /\ conn = FALSE
      <4>1. CASE r = <<"pending", FALSE>>
        BY <4>1
      <4>2. CASE r = <<"conflict", FALSE>>
        BY <4>2
      <4>3. QED
        BY <3>1, <4>1, <4>2
    <3>3. QED
      BY <3>2 DEF Serving, Closing
  <2>2. CASE kind = "readiness"
    <3>1. r = <<"connected", TRUE>> \/ r = <<"conflict", TRUE>>
      BY <2>2 DEF Refused
    <3>2. next \in {"connected", "conflict"} /\ conn = TRUE
      <4>1. CASE r = <<"connected", TRUE>>
        BY <4>1
      <4>2. CASE r = <<"conflict", TRUE>>
        BY <4>2
      <4>3. QED
        BY <3>1, <4>1, <4>2
    <3>3. QED
      BY <2>2, <3>2 DEF Serving, Closing
  <2>3. CASE kind = "disable"
    <3>1. r = <<"revocation_pending", FALSE>>
      BY <2>3 DEF Refused
    <3>2. next = "revocation_pending" /\ conn = FALSE
      BY <3>1
    <3>3. QED
      BY <2>3, <3>2 DEF Serving, Closing
  <2>4. QED
    BY <2>1, <2>2, <2>3 DEF Calls
<1>6. Resume(j, o, k, kind, next, conn)
  BY <1>3
<1> HIDE DEF next, conn
<1>7. /\ next \in Closing => job'[j].desired = "permanently_revoked"
      /\ conn => gateway'[j] # "none"
  BY <1>1, <1>4, <1>5 DEF CallGrounded
<1>8. TryMoved(j, o, k)
  BY <1>1, <1>2, <1>5, <1>6, <1>7, ResumeMoves
<1>9. QED
  BY <1>1, <1>8, TryFrame

-----------------------------------------------------------------------------
(* The completions.                                                        *)

\* A completion stores a grounded state.
LEMMA FinishedKeeps ==
  ASSUME IInv, NEW j \in Installs, NEW o \in Claimers, NEW k \in Tries, TryMoved(j, o, k),
         MayFind(j, o), UNCHANGED <<ws, claimed, calls, gateway>>, Fault \/ UNCHANGED faults,
         NEW next \in Serving \cup Closing, NEW conn \in BOOLEAN,
         job' = [job EXCEPT ![j] = Finished(@, next, conn)],
         next \in Closing => job[j].desired = "permanently_revoked",
         next = "revoked" => gateway[j] = "disabled",
         next = "ready" \/ conn => gateway[j] # "none"
  PROVE  IInv'
<1> DEFINE r == Finished(job[j], next, conn)
           dead == job[j].desired = "permanently_revoked"
<1>1. job \in [Installs -> Job] /\ job[j] \in Job /\ JobCheck(job[j]) /\ JobSafe(j)
  BY AllSafe DEF IInv, TypeOK
<1>2. job' = [job EXCEPT ![j] = r]
  BY <1>1
<1>3. /\ r.desired = job[j].desired /\ r.owner = NoClaimer /\ r.lease = "none"
      /\ dead /\ next = "revoked" => r.state = "revoked"
      /\ dead /\ next # "revoked" => r.state = "revocation_pending"
      /\ ~dead => r.state = next
  BY <1>1 DEF Finished, Job
<1>4. /\ r.applied <=> job[j].applied \/ (dead /\ next = "revoked")
      /\ r.conn <=> job[j].conn \/ conn
  BY <1>1 DEF Finished, Job
<1>5. r \in Job
  BY <1>1 DEF Finished, Job, Serving, Closing
<1> HIDE DEF r
<1>6. JobCheck(r)
  <2>1. r.desired = "permanently_revoked" <=> r.state \in Closing
    BY <1>3 DEF Closing
  <2>2. r.state = "revoked" => r.applied
    <3>1. r.state = "revoked" => dead /\ next = "revoked"
      BY <1>3 DEF Closing
    <3>2. QED
      BY <1>4, <3>1
  <2>3. r.applied => r.desired = "permanently_revoked"
    BY <1>1, <1>3, <1>4 DEF JobCheck
  <2>4. QED
    BY <1>3, <2>1, <2>2, <2>3 DEF JobCheck
<1>7. job'[j] = r
  BY <1>1, <1>2
<1>8. JobSafe(j)'
  <2>1. job[j].state # "absent" /\ ws[j] # "absent"
    BY <1>1 DEF JobSafe, JobGrounded, MayFind, Holds, Claimers, NoClaimer
  <2>2. JobGrounded(j)'
    BY <1>3, <1>7, <2>1 DEF JobGrounded
  <2>3. gateway[j] = "disabled" => ws[j] = "tombstoned" /\ r.desired = "permanently_revoked"
    BY <1>1, <1>3 DEF JobSafe
  <2>4. r.state = "revoked" => gateway[j] = "disabled"
    BY <1>3 DEF Closing
  <2>5. r.state = "ready" => gateway[j] = "enabled"
    <3>1. r.state = "ready" => ~dead /\ next = "ready"
      BY <1>3
    <3>2. gateway[j] \in {"none", "enabled", "disabled"}
      BY DEF IInv, TypeOK
    <3>3. gateway[j] = "disabled" => dead
      BY <1>1 DEF JobSafe
    <3>4. QED
      BY <3>1, <3>2, <3>3
  <2>6. r.conn => gateway[j] # "none"
    BY <1>1, <1>4 DEF JobSafe
  <2>7. QED
    BY <1>7, <2>2, <2>3, <2>4, <2>5, <2>6 DEF JobSafe
<1>9. job[j].desired = "permanently_revoked" => r.desired = "permanently_revoked"
  BY <1>3
<1>10. calls' \subseteq Installs \X Claimers \X Tries \X Calls /\ calls' = calls
  BY DEF IInv, TypeOK
<1>11. QED
  BY <1>2, <1>5, <1>6, <1>8, <1>9, <1>10, JobFrame

LEMMA FinishKeeps ==
  ASSUME IInv, NEW j \in Installs, NEW o \in Claimers, NEW k \in Tries,
         Finish(j, o, k) \/ FinishUnknown(j, o, k)
  PROVE  IInv'
<1>1. /\ try[j][o][k].pc # "idle" /\ UNCHANGED <<ws, claimed, calls, gateway>>
      /\ (Fault \/ UNCHANGED faults)
      /\ (Goto(j, o, k, "over") \/ Goto(j, o, k, "failed"))
  BY DEF Finish, FinishUnknown
<1>2. TryMoved(j, o, k)
  BY <1>1, GotoMoves
<1>3. CASE UNCHANGED job
  BY <1>1, <1>2, <1>3, TryFrame
<1>4. CASE /\ MayFind(j, o)
           /\ job' = [job EXCEPT ![j] = Finished(@, try[j][o][k].next, try[j][o][k].conn)]
  <2> DEFINE next == try[j][o][k].next
             conn == try[j][o][k].conn
  <2>1. TryGrounded(j, o, k) /\ try[j][o][k] \in Try
    BY DEF IInv, TypeOK
  <2>2. /\ next \in Serving \cup Closing /\ conn \in BOOLEAN
        /\ next \in Closing => job[j].desired = "permanently_revoked"
        /\ next = "revoked" => gateway[j] = "disabled"
        /\ next = "ready" \/ conn => gateway[j] # "none"
    BY <2>1 DEF Try, TryGrounded
  <2>3. MayFind(j, o) /\ job' = [job EXCEPT ![j] = Finished(@, next, conn)]
    BY <1>4
  <2> HIDE DEF next, conn
  <2>4. QED
    BY <1>1, <1>2, <2>2, <2>3, FinishedKeeps
<1>5. QED
  BY <1>3, <1>4 DEF Finish, FinishUnknown

LEMMA FallBackKeeps ==
  ASSUME IInv, NEW j \in Installs, NEW o \in Claimers, NEW k \in Tries, FallBack(j, o, k)
  PROVE  IInv'
<1>1. /\ try[j][o][k].pc # "idle" /\ UNCHANGED <<ws, claimed, calls, gateway, faults>>
      /\ (Goto(j, o, k, "over") \/ Goto(j, o, k, "thrown"))
  BY DEF FallBack
<1>2. TryMoved(j, o, k)
  BY <1>1, GotoMoves
<1>3. CASE UNCHANGED job
  BY <1>1, <1>2, <1>3, TryFrame
<1>4. CASE /\ MayFind(j, o)
           /\ job' = [job EXCEPT ![j] = Finished(@, claimed[j][o], FALSE)]
  <2> DEFINE next == claimed[j][o]
  <2>1. next \in Claimables
    BY <1>1 DEF IInv, TypeOK, TryGrounded
  <2>2. /\ next \in Serving \cup Closing /\ next # "revoked"
        /\ next = "ready" => gateway[j] # "none"
        /\ next \in Closing => job[j].desired = "permanently_revoked"
    BY <2>1 DEF IInv, ClaimGrounded, Claimables, Serving, Closing
  <2>3. MayFind(j, o) /\ job' = [job EXCEPT ![j] = Finished(@, next, FALSE)]
    BY <1>4
  <2> HIDE DEF next
  <2>4. QED
    BY <1>1, <1>2, <2>2, <2>3, FinishedKeeps
<1>5. QED
  BY <1>3, <1>4 DEF FallBack

-----------------------------------------------------------------------------
(* The invariant.                                                          *)

LEMMA InitIInv ==
  ASSUME Init
  PROVE  IInv
<1>1. NoJob \in Job /\ NoTry \in Try
  BY DEF NoJob, Job, NoTry, Try, Serving
<1>2. /\ JobCheck(NoJob) /\ NoJob.state = "absent" /\ NoJob.owner = NoClaimer /\ ~NoJob.conn
      /\ NoTry.pc = "idle" /\ NoTry.next = "pending" /\ ~NoTry.conn
  BY DEF JobCheck, NoJob, Closing, NoTry
<1>3. \A j \in Installs : ws[j] = "absent" /\ job[j] = NoJob /\ gateway[j] = "none"
  BY DEF Init
<1>4. TypeOK
  <2>1. faults \in 0 .. MaxFaults
    BY RegistrationAssumption DEF Init
  <2>2. QED
    BY <1>1, <1>2, <1>3, <2>1 DEF Init, TypeOK
<1>5. RevokedIsDisabled /\ ReadyIsConnected /\ \A j \in Installs : JobGrounded(j)
  BY <1>2, <1>3 DEF RevokedIsDisabled, ReadyIsConnected, JobGrounded
<1>6. \A j \in Installs, o \in Claimers : ClaimGrounded(j, o)
  BY DEF Init, ClaimGrounded, Closing
<1>7. \A j \in Installs, o \in Claimers, k \in Tries : TryGrounded(j, o, k)
  BY <1>2 DEF Init, TryGrounded, Closing
<1>8. QED
  BY <1>4, <1>5, <1>6, <1>7 DEF Init, IInv

LEMMA NextIInv ==
  ASSUME IInv, [Next]_vars
  PROVE  IInv'
<1>1. ASSUME NEW j \in Installs,
             Acquire(j) \/ Tombstone(j) \/ LeaseExpires(j) \/ BackoffEnds(j)
      PROVE  IInv'
  BY <1>1, AcquireKeeps, TombstoneKeeps, LeaseExpiresKeeps
<1>2. ASSUME NEW j \in Installs, NEW o \in Claimers, Claim(j, o) PROVE IInv'
  BY <1>2, ClaimKeeps
<1>3. ASSUME NEW j \in Installs, NEW o \in Claimers, NEW k \in Tries, TryStep(j, o, k)
      PROVE  IInv'
  BY <1>3, ObserveKeeps, LostKeeps, FinishKeeps, FallBackKeeps DEF TryStep
<1>4. ASSUME NEW j \in Installs, NEW o \in Claimers, NEW k \in Tries, GatewayStep(j, o, k)
      PROVE  IInv'
  BY <1>4, GatewayConnectsKeeps, GatewayIsReadyKeeps, GatewayDisablesKeeps, GatewayRefusesKeeps
  DEF GatewayStep
<1>5. ASSUME NEW j \in Installs, NEW o \in Claimers, NEW k \in Tries, TryFault(j, o, k)
      PROVE  IInv'
  BY <1>5, LostKeeps, FinishKeeps DEF TryFault
<1>6. ASSUME NEW j \in Installs, NEW o \in Claimers, NEW k \in Tries, Retry(j, o, k)
      PROVE  IInv'
  BY <1>6, RetryKeeps
<1>7. CASE UNCHANGED vars
  <2>1. TypeOK' /\ UNCHANGED <<ws, job, claimed, try, calls, gateway>>
    BY <1>7 DEF IInv, TypeOK, vars
  <2>2. \A x \in Installs : JobSafe(x)'
    BY <2>1, SafeStays
  <2>3. QED
    BY <2>1, <2>2, StillFrame
<1>8. QED
  BY <1>1, <1>2, <1>3, <1>4, <1>5, <1>6, <1>7 DEF Next

\* Whatever claims, tries and calls of earlier leases are still under way, they stand on a
\* lifecycle and a connection that are never undone.
THEOREM InductiveInvariant == Spec => []IInv
<1>1. Init => IInv
  BY InitIInv
<1>2. IInv /\ [Next]_vars => IInv'
  BY NextIInv
<1>3. QED
  BY <1>1, <1>2, PTL DEF Spec

\* Every variable keeps its shape, and every job the CHECKs of migration 009: only a
\* permanently revoked job is closing, only one that is revoked has applied its generation.
THEOREM TypeCorrect == Spec => []TypeOK
<1>1. IInv => TypeOK
  BY DEF IInv
<1>2. QED
  BY <1>1, InductiveInvariant, PTL

\* A job says revoked only when the connection of its tombstoned workspace is disabled,
\* however late an older try or call answers.
THEOREM RevokedDisabled == Spec => []RevokedIsDisabled
<1>1. IInv => RevokedIsDisabled
  BY DEF IInv
<1>2. QED
  BY <1>1, InductiveInvariant, PTL

\* A job that reads ready has an enabled connection, and a stored connection exists.
THEOREM ReadyConnected == Spec => []ReadyIsConnected
<1>1. IInv => ReadyIsConnected
  BY DEF IInv
<1>2. QED
  BY <1>1, InductiveInvariant, PTL

-----------------------------------------------------------------------------
(* A revocation is final.                                                  *)

\* A revoked job rests: nobody holds its lease.
RevokedRests == \A j \in Installs : job[j].state = "revoked" => job[j].owner = NoClaimer

\* What no step may undo: a tombstone, a revocation, and what the gateway made of it; a
\* revoked job only becomes due again.
NeverUndone ==
  \A j \in Installs :
    /\ ws[j] = "tombstoned" => ws'[j] = "tombstoned"
    /\ job[j].state \in Closing => job'[j].state \in Closing
    /\ job[j].state = "revoked" =>
         /\ job'[j].state = "revoked" /\ job'[j].owner = NoClaimer
         /\ job'[j].applied /\ job'[j].conn = job[j].conn
    /\ gateway[j] # "none" => gateway'[j] # "none"
    /\ gateway[j] = "disabled" => gateway'[j] = "disabled"

\* What a completion leaves of a job's record.
LEMMA FinishedFields ==
  ASSUME NEW r \in Job, NEW next, NEW conn
  PROVE  /\ Finished(r, next, conn).owner = NoClaimer
         /\ r.desired = "permanently_revoked" => Finished(r, next, conn).state \in Closing
BY DEF Finished, Job, Closing

\* The job under a lease that a try may find is not revoked.
LEMMA LeasedIsNotRevoked ==
  ASSUME IInv, RevokedRests, NEW j \in Installs,
         (\E o \in Claimers : MayFind(j, o)) \/ job[j].lease # "none"
  PROVE  job[j].state # "revoked"
<1>1. (\E o \in Claimers : MayFind(j, o)) => job[j].owner # NoClaimer
  BY DEF MayFind, Holds, Claimers, NoClaimer
<1>2. job[j].lease # "none" => job[j].owner # NoClaimer
  BY DEF IInv, TypeOK, JobCheck
<1>3. QED
  BY <1>1, <1>2 DEF RevokedRests

\* A completion of the job j alone.
LEMMA FinishedIsFinal ==
  ASSUME IInv, RevokedRests, NEW j \in Installs, NEW o \in Claimers, MayFind(j, o),
         NEW next, NEW conn, job' = [job EXCEPT ![j] = Finished(@, next, conn)],
         UNCHANGED <<ws, gateway>>
  PROVE  RevokedRests' /\ NeverUndone
<1>1. job[j] \in Job /\ job \in [Installs -> Job] /\ JobCheck(job[j])
  BY DEF IInv, TypeOK
<1>2. job[j].state # "revoked"
  BY LeasedIsNotRevoked
<1>3. job'[j] = Finished(job[j], next, conn) /\ \A x \in Installs : x # j => job'[x] = job[x]
  BY <1>1
<1>4. job'[j].owner = NoClaimer
  BY <1>1, <1>3, FinishedFields
<1>5. job[j].state \in Closing => job'[j].state \in Closing
  BY <1>1, <1>3, FinishedFields DEF JobCheck
<1>6. \A x \in Installs : job[x].state = "revoked" => job[x].applied /\ job[x].owner = NoClaimer
  BY DEF IInv, TypeOK, JobCheck, RevokedRests
<1>7. RevokedRests'
  BY <1>3, <1>4, <1>6 DEF RevokedRests
<1>8. QED
  BY <1>2, <1>3, <1>5, <1>6, <1>7 DEF NeverUndone

LEMMA NextIsFinal ==
  ASSUME IInv, RevokedRests, Next
  PROVE  RevokedRests' /\ NeverUndone
<1>1. /\ job \in [Installs -> Job] /\ ws \in [Installs -> {"absent", "workspace_created", "tombstoned"}]
      /\ gateway \in [Installs -> {"none", "enabled", "disabled"}]
      /\ \A x \in Installs : JobCheck(job[x])
  BY DEF IInv, TypeOK
<1>2. \A x \in Installs : job[x].state = "revoked" => job[x].applied /\ job[x].owner = NoClaimer
  BY <1>1 DEF RevokedRests, JobCheck
<1>3. ASSUME UNCHANGED job, \A x \in Installs : ws[x] = "tombstoned" => ws'[x] = "tombstoned",
             \A x \in Installs : /\ gateway[x] # "none" => gateway'[x] # "none"
                                 /\ gateway[x] = "disabled" => gateway'[x] = "disabled"
      PROVE  RevokedRests' /\ NeverUndone
  BY <1>2, <1>3 DEF RevokedRests, NeverUndone
<1>4. ASSUME NEW j \in Installs, NEW r \in Job, job' = [job EXCEPT ![j] = r], UNCHANGED gateway,
             \A x \in Installs : ws[x] = "tombstoned" => ws'[x] = "tombstoned",
             r.state \in {job[j].state, "revocation_pending", "pending"},
             r.state = "pending" => job[j].state \notin Closing,
             job[j].state = "revoked" => /\ r.state = "revoked" /\ r.owner = NoClaimer
                                         /\ r.applied /\ r.conn = job[j].conn
      PROVE  RevokedRests' /\ NeverUndone
  <2>1. job'[j] = r /\ \A x \in Installs : x # j => job'[x] = job[x]
    BY <1>1, <1>4
  <2>2. RevokedRests'
    BY <1>2, <1>4, <2>1 DEF RevokedRests
  <2>3. QED
    BY <1>2, <1>4, <2>1, <2>2 DEF NeverUndone, Closing
<1>5. ASSUME NEW j \in Installs, Acquire(j) PROVE RevokedRests' /\ NeverUndone
  <2> DEFINE r == [job[j] EXCEPT !.state = "pending", !.due = TRUE]
  <2>1. job[j].state = "absent"
    BY <1>5 DEF Acquire, IInv, JobGrounded
  <2>2. r \in Job /\ r.state = "pending"
    BY <1>1 DEF Job, Serving
  <2>3. /\ job' = [job EXCEPT ![j] = r] /\ UNCHANGED gateway
        /\ \A x \in Installs : ws[x] = "tombstoned" => ws'[x] = "tombstoned"
    BY <1>1, <1>5 DEF Acquire
  <2> HIDE DEF r
  <2>4. QED
    BY <1>4, <2>1, <2>2, <2>3 DEF Closing
<1>6. ASSUME NEW j \in Installs, Tombstone(j) PROVE RevokedRests' /\ NeverUndone
  BY <1>1, <1>3, <1>6 DEF Tombstone
<1>7. ASSUME NEW j \in Installs, NEW o \in Claimers, Claim(j, o) PROVE RevokedRests' /\ NeverUndone
  <2> DEFINE r == [job[j] EXCEPT !.owner = o, !.lease = "live"]
  <2>1. job[j].state \in Claimables
    BY <1>7 DEF Claim, Claimable
  <2>2. r \in Job /\ r.state = job[j].state
    BY <1>1 DEF Job
  <2>3. job' = [job EXCEPT ![j] = r] /\ UNCHANGED <<gateway, ws>>
    BY <1>7 DEF Claim
  <2> HIDE DEF r
  <2>4. QED
    BY <1>4, <2>1, <2>2, <2>3 DEF Claimables, Closing
<1>8. ASSUME NEW j \in Installs, LeaseExpires(j) PROVE RevokedRests' /\ NeverUndone
  <2> DEFINE r == [job[j] EXCEPT !.lease = "expired"]
  <2>1. job[j].state # "revoked"
    BY <1>8, LeasedIsNotRevoked DEF LeaseExpires
  <2>2. r \in Job /\ r.state = job[j].state
    BY <1>1 DEF Job
  <2>3. job' = [job EXCEPT ![j] = r] /\ UNCHANGED <<gateway, ws>>
    BY <1>8 DEF LeaseExpires
  <2>4. r.state = "pending" => job[j].state \notin Closing
    BY <2>2 DEF Closing
  <2> HIDE DEF r
  <2>5. QED
    BY <1>4, <2>1, <2>2, <2>3, <2>4
<1>9. ASSUME NEW j \in Installs, BackoffEnds(j) PROVE RevokedRests' /\ NeverUndone
  <2> DEFINE r == [job[j] EXCEPT !.due = TRUE]
  <2>1. /\ r \in Job /\ r.state = job[j].state /\ r.owner = job[j].owner
        /\ r.applied = job[j].applied /\ r.conn = job[j].conn
    BY <1>1 DEF Job
  <2>2. job' = [job EXCEPT ![j] = r] /\ UNCHANGED <<gateway, ws>>
    BY <1>9 DEF BackoffEnds
  <2>3. r.state = "pending" => job[j].state \notin Closing
    BY <2>1 DEF Closing
  <2> HIDE DEF r
  <2>4. QED
    BY <1>2, <1>4, <2>1, <2>2, <2>3
<1>10. ASSUME NEW j \in Installs, NEW o \in Claimers, NEW k \in Tries, Observe(j, o, k)
       PROVE  RevokedRests' /\ NeverUndone
  <2>1. job[j].state # "revoked" /\ UNCHANGED <<gateway, ws>>
    BY <1>10, LeasedIsNotRevoked DEF Observe
  <2>2. CASE UNCHANGED job
    BY <1>3, <2>1, <2>2
  <2>3. CASE job' = [job EXCEPT ![j].desired = "permanently_revoked", ![j].state = "revocation_pending"]
    <3> DEFINE r == [job[j] EXCEPT !.desired = "permanently_revoked", !.state = "revocation_pending"]
    <3>1. r \in Job /\ r.state = "revocation_pending"
      BY <1>1 DEF Job, Closing
    <3>2. job' = [job EXCEPT ![j] = r]
      BY <2>3
    <3> HIDE DEF r
    <3>3. QED
      BY <1>4, <2>1, <3>1, <3>2
  <2>4. QED
    BY <1>10, <2>2, <2>3 DEF Observe
<1>11. ASSUME NEW j \in Installs, NEW o \in Claimers, NEW k \in Tries,
              Finish(j, o, k) \/ FinishUnknown(j, o, k) \/ FallBack(j, o, k)
       PROVE  RevokedRests' /\ NeverUndone
  <2>1. UNCHANGED <<ws, gateway>>
    BY <1>11 DEF Finish, FinishUnknown, FallBack
  <2>2. \/ UNCHANGED job
        \/ /\ MayFind(j, o)
           /\ job' = [job EXCEPT ![j] = Finished(@, try[j][o][k].next, try[j][o][k].conn)]
        \/ MayFind(j, o) /\ job' = [job EXCEPT ![j] = Finished(@, claimed[j][o], FALSE)]
    BY <1>11 DEF Finish, FinishUnknown, FallBack
  <2>3. CASE UNCHANGED job
    BY <1>3, <2>1, <2>3
  <2>4. QED
    BY <2>1, <2>2, <2>3, FinishedIsFinal
<1>12. ASSUME NEW j \in Installs, NEW o \in Claimers, NEW k \in Tries,
              GatewayStep(j, o, k) \/ ObserveLost(j, o, k) \/ Crash(j, o, k) \/ Retry(j, o, k)
              \/ \E kind \in Calls : CallThrows(j, o, k, kind)
       PROVE  RevokedRests' /\ NeverUndone
  <2>1. UNCHANGED <<job, ws>>
    BY <1>12 DEF GatewayStep, GatewayConnects, GatewayIsReady, GatewayDisables, GatewayRefuses,
                 ObserveLost, Crash, Retry, CallThrows
  <2>2. \A x \in Installs : /\ gateway[x] # "none" => gateway'[x] # "none"
                            /\ gateway[x] = "disabled" => gateway'[x] = "disabled"
    BY <1>1, <1>12 DEF GatewayStep, GatewayConnects, GatewayIsReady, GatewayDisables, GatewayRefuses,
                       ObserveLost, Crash, Retry, CallThrows
  <2>3. QED
    BY <1>3, <2>1, <2>2
<1>13. QED
  BY <1>5, <1>6, <1>7, <1>8, <1>9, <1>10, <1>11, <1>12 DEF Next, TryStep, TryFault

\* A revocation is final: a tombstone, a disabled connection and a closing job stay so, and a
\* revoked job is never leased, reopened or written again, whatever tries and calls of
\* earlier claims are still under way.
THEOREM RevocationIsFinal == Spec => []RevokedRests /\ [][NeverUndone]_vars
<1>1. Init => RevokedRests
  BY DEF Init, NoJob, RevokedRests
<1>2. IInv /\ RevokedRests /\ [Next]_vars => RevokedRests' /\ [NeverUndone]_vars
  <2>1. ASSUME RevokedRests, UNCHANGED vars PROVE RevokedRests'
    BY <2>1 DEF vars, RevokedRests
  <2>2. QED
    BY <2>1, NextIsFinal
<1>3. QED
  BY <1>1, <1>2, InductiveInvariant, PTL DEF Spec
=============================================================================
