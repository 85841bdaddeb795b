---------------------------- MODULE SqlBudgetProofs ----------------------------
(***************************************************************************)
(* Proofs about SqlBudget for any callers, native sessions and places.     *)
(*                                                                         *)
(* The argument: a budgeted caller has at most one seat, in the queue or   *)
(* at a client, and its pc says which (OneSeat).  So Held(o) is the only   *)
(* client a call can destroy or give back, and what it gives back carries  *)
(* no transaction.  A client becomes idle only when nobody waits, so with  *)
(* an idle client every waiting caller has a pulse (PulsesDue), and a      *)
(* caller that is not refused waits within the idle clients and pulses.    *)
(***************************************************************************)
EXTENDS SqlBudget, FiniteSetTheorems, TLAPS

ClientType == [st : Clients, for : Callers \cup {NoOne}, own : BOOLEAN, txn : Callers \cup {NoOne}]
PcType == {"out", "settling", "settled", "waiting", "released"} \cup Holding

\* What the invariant says of clients, queue and calls.
Seated == TypeOK /\ OneSeat /\ \A c \in Conns : ClientSound(conn[c])

-----------------------------------------------------------------------------
(* Sequences and clients.                                                  *)

LEMMA HeadTail ==
  ASSUME NEW S, NEW q \in Seq(S), q # <<>>
  PROVE  /\ Len(q) \in Nat \ {0} /\ 1 \in DOMAIN q /\ Head(q) = q[1] /\ Head(q) \in S
         /\ Tail(q) \in Seq(S) /\ Len(Tail(q)) = Len(q) - 1
         /\ \A i \in DOMAIN Tail(q) : i + 1 \in DOMAIN q /\ Tail(q)[i] = q[i + 1]
OBVIOUS

LEMMA Queued ==
  ASSUME TypeOK
  PROVE  /\ Len(queue) \in Nat /\ DOMAIN queue = 1 .. Len(queue)
         /\ \A i \in DOMAIN queue : queue[i] \in Callers
         /\ ticks \in Nat
BY BudgetAssumption DEF TypeOK

\* The number of idle clients.
LEMMA IdleCount ==
  ASSUME TypeOK
  PROVE  /\ IsFiniteSet(Idle) /\ Cardinality(Idle) \in Nat
         /\ Cardinality(Idle) = 0 <=> Idle = {}
<1>1. IsFiniteSet(Idle)
  BY BudgetAssumption, FS_Subset DEF Idle
<1>2. QED
  BY <1>1, FS_CardinalityType, FS_EmptySet

LEMMA Client ==
  ASSUME TypeOK, NEW c \in Conns
  PROVE  conn[c] \in ClientType
BY DEF TypeOK, ClientType

\* What a budgeted call holds is one client, its own.
LEMMA HeldIs ==
  ASSUME Seated, NEW o \in Ops, pc[o] \in Holding
  PROVE  /\ Held(o) \in Conns /\ conn[Held(o)].st = "busy" /\ conn[Held(o)].for = o
         /\ \A c \in Conns : conn[c].for = o => c = Held(o)
<1>1. \E c \in Conns : conn[c].st = "busy" /\ conn[c].for = o
  BY DEF Seated, TypeOK
<1>2. Held(o) \in Conns /\ conn[Held(o)].st = "busy" /\ conn[Held(o)].for = o
  BY <1>1 DEF Held
<1>3. QED
  BY <1>2 DEF Seated, OneSeat

\* Nobody is a caller who is nobody.
LEMMA Distinct ==
  /\ Late \notin Ops /\ NoOne \notin Ops /\ Late \notin Natives /\ NoOne \notin Natives
  /\ Late # NoOne /\ \A n \in Natives : n \notin Ops
BY BudgetAssumption

-----------------------------------------------------------------------------
(* The moves of the pool.                                                  *)

\* The place c is left: its client is idle or gone, and its owner is out.
LEMMA Vacate ==
  ASSUME Seated, NEW c \in Conns, NEW r \in ClientType, NEW p \in [Ops -> PcType],
         r.st \in {"none", "idle"}, r.for = NoOne, r.txn = NoOne,
         conn' = [conn EXCEPT ![c] = r], queue' = queue, pc' = p, over' = over,
         ticks' \in 0 .. MaxQueue, closing' \in BOOLEAN,
         \A x \in Ops : IF conn[c].for = x THEN p[x] \in {"out", "released"} ELSE p[x] = pc[x]
  PROVE  Seated'
<1> USE Distinct
<1>0. conn \in [Conns -> ClientType] /\ pc \in [Ops -> PcType]
  BY DEF Seated, TypeOK, ClientType, PcType
<1>1. conn' \in [Conns -> ClientType] /\ conn'[c] = r /\ \A d \in Conns : d # c => conn'[d] = conn[d]
  BY <1>0
<1>2. \A d \in Conns : conn'[d].for \in Ops => d # c /\ conn'[d] = conn[d]
  BY <1>1
<1>3. \A d \in Conns : conn[d].for \in Ops /\ d # c => conn[d].for # conn[c].for
  BY DEF Seated, OneSeat
<1>4. ASSUME NEW o \in Ops
      PROVE  (pc[o] \in Holding <=> \E d \in Conns : conn[d].st = "busy" /\ conn[d].for = o)'
  <2>1. CASE conn[c].for = o
    <3>1. pc'[o] \notin Holding
      BY <2>1 DEF Holding
    <3>2. \A d \in Conns : conn'[d].for # o
      BY <1>2, <1>3, <2>1
    <3>3. QED
      BY <3>1, <3>2
  <2>2. CASE conn[c].for # o
    <3>1. pc'[o] = pc[o]
      BY <2>2
    <3>2. (\E d \in Conns : conn'[d].st = "busy" /\ conn'[d].for = o)
            <=> (\E d \in Conns : conn[d].st = "busy" /\ conn[d].for = o)
      BY <1>1, <2>2
    <3>3. QED
      BY <3>1, <3>2 DEF Seated, TypeOK
  <2>3. QED
    BY <2>1, <2>2
<1>5. TypeOK'
  BY <1>1, <1>4 DEF Seated, TypeOK, ClientType, PcType
<1>6. OneSeat'
  <2>1. (\A d, e \in Conns : conn[d].for \in Ops /\ conn[d].for = conn[e].for => d = e)'
    BY <1>2 DEF Seated, OneSeat
  <2>2. (\A i, j \in DOMAIN queue : queue[i] \in Ops /\ queue[i] = queue[j] => i = j)'
    BY DEF Seated, OneSeat
  <2>3. (\A d \in Conns, i \in DOMAIN queue : conn[d].for \in Ops => queue[i] # conn[d].for)'
    BY <1>2 DEF Seated, OneSeat
  <2>4. (\A i \in DOMAIN queue : queue[i] \in Ops => pc[queue[i]] = "waiting")'
    BY DEF Seated, OneSeat
  <2>5. (\A d \in Conns : conn[d].for \in Ops /\ conn[d].st = "connecting" => pc[conn[d].for] = "waiting")'
    BY <1>2, <1>3 DEF Seated, OneSeat
  <2>6. (\A d \in Conns : conn[d].txn \in Ops => pc[conn[d].txn] \in {"running", "committing"})'
    <3>1. \A d \in Conns : conn'[d].txn \in Ops => d # c /\ conn'[d] = conn[d] /\ conn[d].for = conn[d].txn
      BY <1>1 DEF Seated, ClientSound
    <3>2. QED
      BY <1>3, <3>1 DEF Seated, OneSeat
  <2>7. QED
    BY <2>1, <2>2, <2>3, <2>4, <2>5, <2>6 DEF OneSeat
<1>7. (\A d \in Conns : ClientSound(conn[d]))'
  BY <1>1 DEF Seated, ClientSound
<1>8. QED
  BY <1>5, <1>6, <1>7 DEF Seated

\* The head of the queue gets the place c, whose owner is out.
LEMMA ServeHead ==
  ASSUME Seated, NEW c \in Conns, NEW r \in ClientType, NEW p \in [Ops -> PcType], queue # <<>>,
         r.st \in {"connecting", "busy"}, r.for = Head(queue), r.txn = NoOne,
         r.st = "connecting" => Head(queue) \notin Ops,
         conn' = [conn EXCEPT ![c] = r], queue' = Tail(queue), over' = over,
         pc' = IF r.st = "busy" THEN Receives(Head(queue), p) ELSE p,
         ticks' \in 0 .. MaxQueue, closing' \in BOOLEAN,
         \A x \in Ops : IF conn[c].for = x THEN p[x] \in {"out", "released"} ELSE p[x] = pc[x]
  PROVE  Seated'
<1> USE Distinct
<1> DEFINE h == Head(queue)
<1>0. conn \in [Conns -> ClientType] /\ pc \in [Ops -> PcType] /\ queue \in Seq(Callers)
  BY DEF Seated, TypeOK, ClientType, PcType
<1>q. /\ Len(queue) \in Nat \ {0} /\ 1 \in DOMAIN queue /\ h = queue[1] /\ h \in Callers
      /\ queue' \in Seq(Callers) /\ Len(queue') = Len(queue) - 1
      /\ \A i \in DOMAIN queue' : i + 1 \in DOMAIN queue /\ i \in Nat \ {0} /\ queue'[i] = queue[i + 1]
  BY <1>0, HeadTail
<1>1. conn' \in [Conns -> ClientType] /\ conn'[c] = r /\ \A d \in Conns : d # c => conn'[d] = conn[d]
  BY <1>0
<1>2. \A d \in Conns : d # c /\ conn[d].for \in Ops => conn[d].for # conn[c].for
  BY DEF Seated, OneSeat
<1>3. \A d \in Conns : conn[d].for \in Ops => conn[d].for # h
  BY <1>q DEF Seated, OneSeat
<1>4. \A i \in DOMAIN queue' : queue'[i] \in Ops => queue'[i] # h /\ \A d \in Conns : conn[d].for # queue'[i]
  <2>1. ASSUME NEW i \in DOMAIN queue', queue'[i] \in Ops
        PROVE  queue'[i] # h
    <3>1. i + 1 \in DOMAIN queue /\ i + 1 # 1 /\ queue'[i] = queue[i + 1]
      BY <1>q
    <3>2. QED
      BY <1>q, <2>1, <3>1 DEF Seated, OneSeat
  <2>2. QED
    BY <1>q, <2>1 DEF Seated, OneSeat
<1>5. h \in Ops => pc[h] = "waiting" /\ conn[c].for # h
  BY <1>q DEF Seated, OneSeat
<1>6. /\ pc' \in [Ops -> PcType]
      /\ h \in Ops => pc'[h] = "handed"
      /\ \A x \in Ops : x # h => pc'[x] = p[x]
  <2>1. CASE h \in Ops
    <3>1. r.st = "busy" /\ pc' = [p EXCEPT ![h] = "handed"]
      BY <2>1 DEF Receives
    <3>2. QED
      BY <2>1, <3>1 DEF PcType, Holding
  <2>2. CASE h \notin Ops
    BY <2>2 DEF Receives
  <2>3. QED
    BY <2>1, <2>2
<1>a. \A x \in Ops : conn[c].for = x => pc'[x] \in {"out", "released"} /\ \A d \in Conns : conn'[d].for # x
  <2>1. ASSUME NEW x \in Ops, conn[c].for = x
        PROVE  x # h /\ \A d \in Conns : conn'[d].for # x
    BY <1>1, <1>2, <1>3, <2>1
  <2>2. QED
    BY <1>6, <2>1
<1> HIDE DEF h
<1>7. ASSUME NEW o \in Ops
      PROVE  (pc[o] \in Holding <=> \E d \in Conns : conn[d].st = "busy" /\ conn[d].for = o)'
  <2>1. CASE conn[c].for = o
    <3>1. pc'[o] \notin Holding
      BY <1>a, <2>1 DEF Holding
    <3>3. QED
      BY <1>a, <2>1, <3>1
  <2>2. CASE o = h
    <3>1. pc'[o] \in Holding
      BY <1>6, <2>2 DEF Holding
    <3>2. conn'[c].st = "busy" /\ conn'[c].for = o
      BY <1>1, <2>2 DEF h
    <3>3. QED
      BY <3>1, <3>2
  <2>3. CASE conn[c].for # o /\ o # h
    <3>1. pc'[o] = pc[o]
      BY <1>6, <2>3
    <3>2. (\E d \in Conns : conn'[d].st = "busy" /\ conn'[d].for = o)
            <=> (\E d \in Conns : conn[d].st = "busy" /\ conn[d].for = o)
      BY <1>1, <2>3 DEF h
    <3>3. QED
      BY <3>1, <3>2 DEF Seated, TypeOK
  <2>4. QED
    BY <2>1, <2>2, <2>3
<1>8. TypeOK'
  <2>1. Len(queue') <= MaxQueue
    BY <1>q, BudgetAssumption DEF Seated, TypeOK
  <2>2. QED
    BY <1>1, <1>6, <1>7, <1>q, <2>1 DEF Seated, TypeOK, ClientType, PcType
<1>9. OneSeat'
  <2>1. (\A d, e \in Conns : conn[d].for \in Ops /\ conn[d].for = conn[e].for => d = e)'
    BY <1>1, <1>3 DEF Seated, OneSeat, h
  <2>2. (\A i, j \in DOMAIN queue : queue[i] \in Ops /\ queue[i] = queue[j] => i = j)'
    <3>1. ASSUME NEW i \in DOMAIN queue', NEW j \in DOMAIN queue', queue'[i] \in Ops, queue'[i] = queue'[j]
          PROVE  i = j
      <4>1. i + 1 \in DOMAIN queue /\ j + 1 \in DOMAIN queue /\ queue[i + 1] \in Ops /\ queue[i + 1] = queue[j + 1]
        BY <1>q, <3>1
      <4>2. i + 1 = j + 1
        BY <4>1 DEF Seated, OneSeat
      <4>3. QED
        BY <1>q, <4>2
    <3>2. QED
      BY <3>1
  <2>3. (\A d \in Conns, i \in DOMAIN queue : conn[d].for \in Ops => queue[i] # conn[d].for)'
    BY <1>1, <1>4 DEF h
  <2>4. (\A i \in DOMAIN queue : queue[i] \in Ops => pc[queue[i]] = "waiting")'
    <3>1. ASSUME NEW i \in DOMAIN queue', queue'[i] \in Ops
          PROVE  pc'[queue'[i]] = "waiting"
      <4>1. queue'[i] # h /\ conn[c].for # queue'[i] /\ pc'[queue'[i]] = pc[queue'[i]]
        BY <1>4, <1>6, <3>1
      <4>2. pc[queue'[i]] = "waiting"
        BY <1>q, <3>1 DEF Seated, OneSeat
      <4>3. QED
        BY <4>1, <4>2
    <3>2. QED
      BY <3>1
  <2>5. (\A d \in Conns : conn[d].for \in Ops /\ conn[d].st = "connecting" => pc[conn[d].for] = "waiting")'
    <3>1. ASSUME NEW d \in Conns, conn'[d].for \in Ops, conn'[d].st = "connecting"
          PROVE  pc'[conn'[d].for] = "waiting"
      <4>1. d # c
        BY <1>1, <3>1
      <4>2. conn'[d] = conn[d] /\ conn[d].for # conn[c].for /\ conn[d].for # h
        BY <1>1, <1>2, <1>3, <3>1, <4>1
      <4>3. pc'[conn[d].for] = pc[conn[d].for]
        BY <1>6, <3>1, <4>2
      <4>4. QED
        BY <3>1, <4>2, <4>3 DEF Seated, OneSeat
    <3>2. QED
      BY <3>1
  <2>6. (\A d \in Conns : conn[d].txn \in Ops => pc[conn[d].txn] \in {"running", "committing"})'
    <3>1. \A d \in Conns : conn'[d].txn \in Ops => d # c /\ conn'[d] = conn[d] /\ conn[d].for = conn[d].txn
      BY <1>1 DEF Seated, ClientSound
    <3>2. \A d \in Conns : conn'[d].txn \in Ops => pc'[conn'[d].txn] = pc[conn[d].txn]
      BY <1>2, <1>3, <1>6, <3>1
    <3>3. QED
      BY <3>1, <3>2 DEF Seated, OneSeat
  <2>7. QED
    BY <2>1, <2>2, <2>3, <2>4, <2>5, <2>6 DEF OneSeat
<1>10. (\A d \in Conns : ClientSound(conn[d]))'
  <2>1. ClientSound(r)
    BY <1>q, BudgetAssumption DEF ClientSound, h, Callers
  <2>2. QED
    BY <1>1, <2>1 DEF Seated
<1>11. QED
  BY <1>8, <1>9, <1>10 DEF Seated

-----------------------------------------------------------------------------
(* The queue.                                                              *)

Due == PulsesDue /\ NeverBehindRelease

LEMMA Parts ==
  /\ IInv <=> Seated /\ Due
  /\ IInv' <=> Seated' /\ Due'
BY DEF IInv, Seated, Due

\* Without an idle client, or without a pulse, no budgeted caller waits.
LEMMA NoneWait ==
  ASSUME IInv, Idle = {} \/ ticks = 0
  PROVE  \A i \in DOMAIN queue : queue[i] \notin Ops
<1>1. TypeOK
  BY DEF IInv
<1>2. \A i \in DOMAIN queue : i \in Nat \ {0}
  BY <1>1, Queued
<1>3. QED
  BY <1>1, <1>2, IdleCount, Queued DEF IInv, NeverBehindRelease

\* The invariant of the queue when no client becomes idle and nobody joins.
LEMMA DueShrinks ==
  ASSUME IInv, TypeOK',
         queue' = queue \/ (queue # <<>> /\ queue' = Tail(queue)),
         Idle' = Idle \/ \E c \in Idle : Idle' = Idle \ {c} /\ (queue' = queue => ticks = 0),
         ticks' = ticks \/ (ticks' = ticks - 1 /\ (queue' = queue => queue = <<>> \/ Idle = {})),
         \A c \in Conns : conn'[c].st = "connecting" /\ conn'[c].for \in Ops => conn'[c] = conn[c]
  PROVE  Due'
<1>1. TypeOK
  BY DEF IInv
<1>2. /\ Cardinality(Idle) \in Nat /\ Cardinality(Idle)' \in Nat
      /\ Cardinality(Idle)' = Cardinality(Idle)
           \/ (Cardinality(Idle)' = Cardinality(Idle) - 1 /\ (queue' = queue => ticks = 0))
  BY <1>1, IdleCount, FS_RemoveElement
<1>3. /\ Len(queue) \in Nat /\ Len(queue') \in Nat /\ ticks \in Nat /\ ticks' \in Nat
      /\ \A i \in DOMAIN queue' : i \in Nat \ {0}
      /\ queue = <<>> => Len(queue) = 0 /\ DOMAIN queue = {}
  BY <1>1, Queued DEF TypeOK
<1>4. queue' # queue =>
        /\ Len(queue') = Len(queue) - 1
        /\ \A i \in DOMAIN queue' : i + 1 \in DOMAIN queue /\ queue'[i] = queue[i + 1]
  <2>1. SUFFICES ASSUME queue' # queue
                 PROVE  /\ Len(queue') = Len(queue) - 1
                        /\ \A i \in DOMAIN queue' : i + 1 \in DOMAIN queue /\ queue'[i] = queue[i + 1]
    OBVIOUS
  <2>2. queue \in Seq(Callers) /\ queue # <<>> /\ queue' = Tail(queue)
    BY <1>1, <2>1 DEF TypeOK
  <2>3. QED
    BY <2>2, HeadTail
<1>5. PulsesDue'
  <2>1. CASE queue' = queue
    BY <1>2, <1>3, <2>1 DEF IInv, PulsesDue
  <2>2. CASE queue' # queue
    BY <1>2, <1>3, <1>4, <2>2 DEF IInv, PulsesDue
  <2>3. QED
    BY <2>1, <2>2
<1>6. ASSUME NEW i \in DOMAIN queue', queue'[i] \in Ops
      PROVE  i <= Cardinality(Idle)' /\ i <= ticks'
  <2>1. CASE queue' = queue
    <3>1. Idle # {} /\ ticks # 0
      BY <1>6, <2>1, NoneWait
    <3>2. QED
      BY <1>2, <1>3, <1>6, <2>1, <3>1 DEF IInv, NeverBehindRelease
  <2>2. CASE queue' # queue
    <3>1. i + 1 <= Cardinality(Idle) /\ i + 1 <= ticks
      BY <1>4, <1>6, <2>2 DEF IInv, NeverBehindRelease
    <3>2. QED
      BY <1>2, <1>3, <3>1
  <2>3. QED
    BY <2>1, <2>2
<1>7. NeverBehindRelease'
  BY <1>6 DEF IInv, NeverBehindRelease
<1>8. QED
  BY <1>5, <1>7 DEF Due

LEMMA Destroyed ==
  ASSUME IInv, NEW c \in Conns, NEW p \in [Ops -> PcType], Destroy(c, p),
         conn[c].st = "idle" => ticks = 0,
         \A x \in Ops : IF conn[c].for = x THEN p[x] \in {"out", "released"} ELSE p[x] = pc[x]
  PROVE  IInv'
<1>1. NoClient \in ClientType
  BY DEF NoClient, ClientType, Clients
<1>2. /\ conn' = [conn EXCEPT ![c] = NoClient] /\ queue' = queue /\ pc' = p /\ over' = over
      /\ ticks' = ticks /\ closing' = TRUE
  BY DEF Destroy
<1>3. Seated /\ ticks \in 0 .. MaxQueue /\ closing' \in BOOLEAN
  BY <1>2, Parts DEF Seated, TypeOK
<1>4. Seated'
  <2>1. NoClient.st = "none" /\ NoClient.for = NoOne /\ NoClient.txn = NoOne
    BY DEF NoClient
  <2>2. QED
    BY <1>1, <1>2, <1>3, <2>1, Vacate
<1>5. \A d \in Conns : conn'[d] = IF d = c THEN NoClient ELSE conn[d]
  BY <1>2, <1>3 DEF Seated, TypeOK
<1>6. Idle' = Idle \ {c}
  BY <1>5 DEF Idle, NoClient
<1>7. Idle' = Idle \/ \E d \in Idle : Idle' = Idle \ {d} /\ (queue' = queue => ticks = 0)
  BY <1>6 DEF Idle
<1>8. Due'
  <2>1. \A d \in Conns : conn'[d].st = "connecting" /\ conn'[d].for \in Ops => conn'[d] = conn[d]
    BY <1>5 DEF NoClient
  <2>2. QED
    BY <1>2, <1>4, <1>7, <2>1, DueShrinks DEF Seated
<1>9. QED
  BY <1>4, <1>8, Parts

LEMMA GivenBack ==
  ASSUME IInv, NEW c \in Conns, NEW p \in [Ops -> PcType], GiveBack(c, p),
         conn[c].st \in {"busy", "finished"}, conn[c].txn = NoOne,
         \A x \in Ops : IF conn[c].for = x THEN p[x] \in {"out", "released"} ELSE p[x] = pc[x]
  PROVE  IInv'
<1>1. Seated /\ ticks' = ticks /\ ticks \in 0 .. MaxQueue /\ closing' \in BOOLEAN /\ over' = over
  BY Parts DEF Seated, TypeOK, GiveBack
<1>2. CASE queue = <<>>
  <2>1. conn' = Place(c, NoOne, "idle", FALSE) /\ pc' = p /\ queue' = queue
    BY <1>2 DEF GiveBack
  <2>2. PICK r \in ClientType :
          conn' = [conn EXCEPT ![c] = r] /\ r.st = "idle" /\ r.for = NoOne /\ r.txn = NoOne
    <3> DEFINE k == [conn[c] EXCEPT !.st = "idle", !.for = NoOne, !.own = FALSE]
    <3>1. conn[c] \in ClientType /\ NoOne \in Callers \cup {NoOne}
      BY <1>1, Client DEF Seated
    <3>2. k \in ClientType /\ k.st = "idle" /\ k.for = NoOne /\ k.txn = conn[c].txn
      BY <3>1 DEF ClientType, Clients
    <3>3. conn' = [conn EXCEPT ![c] = k]
      BY <2>1 DEF Place
    <3> HIDE DEF k
    <3>4. QED
      BY <3>2, <3>3
  <2>3. Seated'
    BY <1>1, <2>1, <2>2, Vacate
  <2>4. Len(queue') = 0 /\ DOMAIN queue' = {}
    BY <1>2, <2>1
  <2>5. \A d \in Conns : conn'[d].st = "connecting" => conn'[d] = conn[d]
    BY <1>1, <2>2 DEF Seated, TypeOK
  <2>6. Due'
    <3>1. PulsesDue'
      BY <1>1, <2>4, BudgetAssumption DEF PulsesDue
    <3>2. NeverBehindRelease'
      BY <2>4, <2>5 DEF IInv, NeverBehindRelease
    <3>3. QED
      BY <3>1, <3>2 DEF Due
  <2>7. QED
    BY <2>3, <2>6, Parts
<1>3. CASE queue # <<>>
  <2>1. /\ conn' = Place(c, Head(queue), "busy", FALSE) /\ queue' = Tail(queue)
        /\ pc' = Receives(Head(queue), p)
    BY <1>3 DEF GiveBack
  <2>2. Head(queue) \in Callers
    BY <1>1, <1>3, HeadTail DEF Seated, TypeOK
  <2>3. PICK r \in ClientType :
          conn' = [conn EXCEPT ![c] = r] /\ r.st = "busy" /\ r.for = Head(queue) /\ r.txn = NoOne
    <3> DEFINE k == [conn[c] EXCEPT !.st = "busy", !.for = Head(queue), !.own = FALSE]
    <3>1. conn[c] \in ClientType /\ Head(queue) \in Callers \cup {NoOne}
      BY <1>1, <2>2, Client DEF Seated
    <3>2. k \in ClientType /\ k.st = "busy" /\ k.for = Head(queue) /\ k.txn = conn[c].txn
      BY <3>1 DEF ClientType, Clients
    <3>3. conn' = [conn EXCEPT ![c] = k]
      BY <2>1 DEF Place
    <3> HIDE DEF k
    <3>4. QED
      BY <3>2, <3>3
  <2>4. Seated'
    BY <1>1, <1>3, <2>1, <2>3, ServeHead
  <2>5. \A d \in Conns : conn'[d] = IF d = c THEN r ELSE conn[d]
    BY <1>1, <2>3 DEF Seated, TypeOK
  <2>6. Idle' = Idle
    BY <2>3, <2>5 DEF Idle
  <2>7. \A d \in Conns : conn'[d].st = "connecting" /\ conn'[d].for \in Ops => conn'[d] = conn[d]
    BY <2>3, <2>5
  <2>8. Due'
    BY <1>1, <1>3, <2>1, <2>4, <2>6, <2>7, DueShrinks DEF Seated
  <2>9. QED
    BY <2>4, <2>8, Parts
<1>4. QED
  BY <1>2, <1>3

\* A pulse serves the head of the queue, and never connects for a budgeted caller.
LEMMA Pulsed ==
  ASSUME IInv, PulseQueue, over' = over, closing' \in BOOLEAN,
         (ticks > 0 /\ ticks' = ticks - 1) \/ (ticks = 0 /\ ticks' = ticks)
  PROVE  IInv'
<1>1. Seated /\ TypeOK /\ ticks \in 0 .. MaxQueue /\ MaxQueue \in Nat
  BY Parts, BudgetAssumption DEF Seated, TypeOK
<1>2. ticks' \in 0 .. MaxQueue /\ (ticks' = ticks \/ ticks' = ticks - 1)
  BY <1>1
<1>3. pc \in [Ops -> PcType] /\ conn \in [Conns -> ClientType]
  BY <1>1 DEF TypeOK, PcType, ClientType
<1>4. CASE queue = <<>> \/ (Idle = {} /\ Full)
  <2>1. conn' = conn /\ queue' = queue /\ pc' = pc
    BY <1>4 DEF PulseQueue
  <2>2. Idle' = Idle
    BY <2>1 DEF Idle
  <2>3. TypeOK'
    BY <1>1, <1>2, <2>1 DEF TypeOK
  <2>4. Seated'
    BY <1>1, <2>1, <2>3 DEF Seated, OneSeat, ClientSound
  <2>5. Due'
    BY <1>2, <1>4, <2>1, <2>2, <2>3, DueShrinks
  <2>6. QED
    BY <2>4, <2>5, Parts
<1>5. CASE queue # <<>> /\ Idle # {}
  <2>1. PICK c \in Idle : conn' = Place(c, Head(queue), "busy", FALSE)
    BY <1>5 DEF PulseQueue
  <2>2. queue' = Tail(queue) /\ pc' = Receives(Head(queue), pc) /\ c \in Conns /\ conn[c].st = "idle"
    BY <1>5, <2>1 DEF PulseQueue, Idle
  <2>3. conn[c].for = NoOne /\ conn[c].txn = NoOne
    BY <1>1, <2>2 DEF Seated, ClientSound
  <2>4. Head(queue) \in Callers
    BY <1>1, <1>5, HeadTail DEF TypeOK
  <2>5. PICK r \in ClientType :
          conn' = [conn EXCEPT ![c] = r] /\ r.st = "busy" /\ r.for = Head(queue) /\ r.txn = NoOne
    <3> DEFINE k == [conn[c] EXCEPT !.st = "busy", !.for = Head(queue), !.own = FALSE]
    <3>1. conn[c] \in ClientType /\ Head(queue) \in Callers \cup {NoOne}
      BY <1>1, <2>2, <2>4, Client DEF Seated
    <3>2. k \in ClientType /\ k.st = "busy" /\ k.for = Head(queue) /\ k.txn = conn[c].txn
      BY <3>1 DEF ClientType, Clients
    <3>3. conn' = [conn EXCEPT ![c] = k]
      BY <2>1 DEF Place
    <3> HIDE DEF k
    <3>4. QED
      BY <2>3, <3>2, <3>3
  <2>6. Seated'
    BY <1>1, <1>2, <1>3, <1>5, <2>2, <2>3, <2>5, Distinct, ServeHead
  <2>7. \A d \in Conns : conn'[d] = IF d = c THEN r ELSE conn[d]
    BY <1>3, <2>2, <2>5
  <2>8. Idle' = Idle \ {c}
    BY <2>5, <2>7 DEF Idle
  <2>9. queue' # queue
    BY <1>1, <1>5, <2>2, HeadTail DEF TypeOK
  <2>10. \A d \in Conns : conn'[d].st = "connecting" /\ conn'[d].for \in Ops => conn'[d] = conn[d]
    BY <2>5, <2>7
  <2>11. Due'
    BY <1>2, <1>5, <2>1, <2>2, <2>6, <2>8, <2>9, <2>10, DueShrinks DEF Seated
  <2>12. QED
    BY <2>6, <2>11, Parts
<1>6. CASE queue # <<>> /\ Idle = {} /\ ~Full
  <2>1. PICK c \in Conns : conn[c].st = "none" /\ conn' = Place(c, Head(queue), "connecting", FALSE)
    BY <1>6 DEF PulseQueue
  <2>2. queue' = Tail(queue) /\ pc' = pc
    BY <1>6 DEF PulseQueue
  <2>3. conn[c].for = NoOne /\ conn[c].txn = NoOne
    BY <1>1, <2>1 DEF Seated, ClientSound
  <2>4. Head(queue) \in Callers /\ Head(queue) \notin Ops
    BY <1>1, <1>6, HeadTail, NoneWait DEF TypeOK
  <2>5. PICK r \in ClientType :
          conn' = [conn EXCEPT ![c] = r] /\ r.st = "connecting" /\ r.for = Head(queue) /\ r.txn = NoOne
    <3> DEFINE k == [conn[c] EXCEPT !.st = "connecting", !.for = Head(queue), !.own = FALSE]
    <3>1. conn[c] \in ClientType /\ Head(queue) \in Callers \cup {NoOne}
      BY <1>1, <2>4, Client DEF Seated
    <3>2. k \in ClientType /\ k.st = "connecting" /\ k.for = Head(queue) /\ k.txn = conn[c].txn
      BY <3>1 DEF ClientType, Clients
    <3>3. conn' = [conn EXCEPT ![c] = k]
      BY <2>1 DEF Place
    <3> HIDE DEF k
    <3>4. QED
      BY <2>3, <3>2, <3>3
  <2>6. Seated'
    BY <1>1, <1>2, <1>3, <1>6, <2>2, <2>3, <2>4, <2>5, Distinct, ServeHead
  <2>7. \A d \in Conns : conn'[d] = IF d = c THEN r ELSE conn[d]
    BY <1>3, <2>5
  <2>8. Idle' = Idle
    BY <2>1, <2>5, <2>7 DEF Idle
  <2>9. \A d \in Conns : conn'[d].st = "connecting" /\ conn'[d].for \in Ops => conn'[d] = conn[d]
    BY <2>4, <2>5, <2>7
  <2>10. Due'
    BY <1>2, <1>6, <2>2, <2>6, <2>8, <2>9, DueShrinks DEF Seated
  <2>11. QED
    BY <2>6, <2>10, Parts
<1>7. QED
  BY <1>4, <1>5, <1>6

-----------------------------------------------------------------------------
(* The other moves.                                                        *)

\* What a budgeted call does by itself: it keeps its seat.
LEMMA Moved ==
  ASSUME IInv, NEW o \in Ops, NEW v \in PcType, pc' = [pc EXCEPT ![o] = v],
         UNCHANGED <<conn, queue, ticks, closing, over>>,
         pc[o] \in Holding <=> v \in Holding, pc[o] # "waiting",
         pc[o] \in {"running", "committing"} => v \in {"running", "committing"}
  PROVE  IInv'
<1>1. pc \in [Ops -> PcType] /\ pc' \in [Ops -> PcType] /\ \A x \in Ops : pc'[x] = IF x = o THEN v ELSE pc[x]
  BY DEF IInv, TypeOK, PcType
<1>2. TypeOK'
  BY <1>1 DEF IInv, TypeOK, PcType
<1>3. OneSeat'
  BY <1>1 DEF IInv, OneSeat
<1>4. PulsesDue' /\ NeverBehindRelease' /\ (\A c \in Conns : ClientSound(conn[c]))'
  BY DEF IInv, PulsesDue, NeverBehindRelease, Idle, ClientSound
<1>5. QED
  BY <1>2, <1>3, <1>4 DEF IInv

\* Only the clock moves.
LEMMA Timed ==
  ASSUME IInv, over' \in [Ops -> BOOLEAN], UNCHANGED <<conn, queue, ticks, closing, pc>>
  PROVE  IInv'
BY DEF IInv, TypeOK, OneSeat, PulsesDue, NeverBehindRelease, Idle, ClientSound

\* A client in use, or on its way, changes and keeps its owner.
LEMMA Changed ==
  ASSUME IInv, NEW c \in Conns, NEW r \in ClientType, NEW p \in [Ops -> PcType],
         conn' = [conn EXCEPT ![c] = r], pc' = p, UNCHANGED <<queue, ticks, closing, over>>,
         ClientSound(r), r.for = conn[c].for, r.st \in {"busy", "finished"}, conn[c].st # "idle",
         \A x \in Ops : x # r.for => p[x] = pc[x],
         r.for \in Ops => r.st = "busy" /\ p[r.for] \in Holding,
         r.txn \in Ops => p[r.txn] \in {"running", "committing"}
  PROVE  IInv'
<1>1. Seated /\ Due /\ conn \in [Conns -> ClientType]
  BY Parts DEF Seated, TypeOK, ClientType
<1>2. conn' \in [Conns -> ClientType] /\ \A d \in Conns : conn'[d] = IF d = c THEN r ELSE conn[d]
  BY <1>1
<1>3. \A d \in Conns : conn'[d].for = conn[d].for
  BY <1>2
<1>4. \A d \in Conns : d # c /\ conn[d].for \in Ops => conn[d].for # r.for
  BY DEF IInv, OneSeat
<1>5. ASSUME NEW o \in Ops
      PROVE  (pc[o] \in Holding <=> \E d \in Conns : conn[d].st = "busy" /\ conn[d].for = o)'
  <2>1. CASE o = r.for
    BY <1>2, <2>1
  <2>2. CASE o # r.for
    <3>1. (\E d \in Conns : conn'[d].st = "busy" /\ conn'[d].for = o)
            <=> (\E d \in Conns : conn[d].st = "busy" /\ conn[d].for = o)
      BY <1>2, <2>2
    <3>2. QED
      BY <2>2, <3>1 DEF IInv, TypeOK
  <2>3. QED
    BY <2>1, <2>2
<1>6. TypeOK'
  BY <1>2, <1>5 DEF IInv, TypeOK, ClientType, PcType
<1>7. OneSeat'
  <2>1. (\A d, e \in Conns : conn[d].for \in Ops /\ conn[d].for = conn[e].for => d = e)'
    BY <1>3 DEF IInv, OneSeat
  <2>2. (\A i, j \in DOMAIN queue : queue[i] \in Ops /\ queue[i] = queue[j] => i = j)'
    BY DEF IInv, OneSeat
  <2>3. (\A d \in Conns, i \in DOMAIN queue : conn[d].for \in Ops => queue[i] # conn[d].for)'
    BY <1>3 DEF IInv, OneSeat
  <2>4. (\A i \in DOMAIN queue : queue[i] \in Ops => pc[queue[i]] = "waiting")'
    BY DEF IInv, OneSeat
  <2>5. (\A d \in Conns : conn[d].for \in Ops /\ conn[d].st = "connecting" => pc[conn[d].for] = "waiting")'
    BY <1>2, <1>4 DEF IInv, OneSeat
  <2>6. (\A d \in Conns : conn[d].txn \in Ops => pc[conn[d].txn] \in {"running", "committing"})'
    <3>1. ASSUME NEW d \in Conns, conn'[d].txn \in Ops, d # c
          PROVE  pc'[conn'[d].txn] \in {"running", "committing"}
      <4>1. conn'[d] = conn[d] /\ conn[d].for = conn[d].txn
        BY <1>2, <3>1, Distinct DEF IInv, ClientSound
      <4>2. pc'[conn[d].txn] = pc[conn[d].txn]
        BY <1>4, <3>1, <4>1
      <4>3. QED
        BY <3>1, <4>1, <4>2 DEF IInv, OneSeat
    <3>2. QED
      BY <1>2, <3>1
  <2>7. QED
    BY <2>1, <2>2, <2>3, <2>4, <2>5, <2>6 DEF OneSeat
<1>8. (\A d \in Conns : ClientSound(conn[d]))'
  BY <1>2 DEF IInv
<1>9. Idle' = Idle
  BY <1>2 DEF Idle
<1>10. PulsesDue' /\ NeverBehindRelease'
  BY <1>2, <1>9 DEF IInv, PulsesDue, NeverBehindRelease
<1>11. QED
  BY <1>6, <1>7, <1>8, <1>10 DEF IInv

\* A call gives up its checkout: its seat is nobody's.
LEMMA Abandoned ==
  ASSUME IInv, NEW o \in Ops, pc[o] \in {"waiting", "handed"},
         queue' = [i \in DOMAIN queue |-> Abandon(queue[i], o)],
         conn' = [c \in Conns |-> [conn[c] EXCEPT !.for = Abandon(@, o)]],
         Goto(o, "out"), UNCHANGED <<ticks, closing, over>>
  PROVE  IInv'
<1> USE Distinct
<1>1. /\ conn \in [Conns -> ClientType] /\ pc \in [Ops -> PcType] /\ queue \in Seq(Callers)
      /\ Len(queue) \in Nat /\ DOMAIN queue = 1 .. Len(queue) /\ o \in Callers
  BY Queued DEF IInv, TypeOK, ClientType, PcType, Callers
<1>2. \A w \in Callers \cup {NoOne} :
        /\ Abandon(w, o) \in Callers \cup {NoOne}
        /\ w \in Callers => Abandon(w, o) \in Callers
        /\ Abandon(w, o) \in Ops => w = Abandon(w, o) /\ w # o
        /\ w # o => Abandon(w, o) = w
        /\ Abandon(w, o) = NoOne <=> w = NoOne
        /\ w \in Natives => Abandon(w, o) = w
  BY DEF Abandon, Callers
<1>3. /\ queue' \in Seq(Callers) /\ Len(queue') = Len(queue) /\ DOMAIN queue' = DOMAIN queue
      /\ \A i \in DOMAIN queue : queue[i] \in Callers /\ queue'[i] = Abandon(queue[i], o)
  BY <1>1, <1>2
<1>4. ASSUME NEW c \in Conns
      PROVE  /\ conn'[c] \in ClientType /\ conn[c] \in ClientType
             /\ conn'[c].st = conn[c].st /\ conn'[c].own = conn[c].own /\ conn'[c].txn = conn[c].txn
             /\ conn'[c].for = Abandon(conn[c].for, o)
  <2>1. conn[c] \in ClientType
    BY <1>1
  <2>2. conn[c].for \in Callers \cup {NoOne}
    BY <2>1 DEF ClientType
  <2>3. Abandon(conn[c].for, o) \in Callers \cup {NoOne}
    BY <1>2, <2>2
  <2>4. conn'[c] = [conn[c] EXCEPT !.for = Abandon(conn[c].for, o)]
    OBVIOUS
  <2>5. QED
    BY <2>1, <2>3, <2>4 DEF ClientType
<1>5. conn' \in [Conns -> ClientType]
  BY <1>4
<1>6. pc' \in [Ops -> PcType] /\ pc'[o] = "out" /\ \A x \in Ops : x # o => pc'[x] = pc[x]
  BY <1>1 DEF Goto, PcType
<1>7. /\ \A c \in Conns : conn'[c].for \in Ops => conn'[c].for = conn[c].for /\ conn[c].for # o
      /\ \A i \in DOMAIN queue : queue'[i] \in Ops => queue'[i] = queue[i] /\ queue[i] # o
  <2>1. \A c \in Conns : conn[c].for \in Callers \cup {NoOne}
    BY <1>4 DEF ClientType
  <2>2. QED
    BY <1>2, <1>3, <1>4, <2>1
<1>8. \A c \in Conns : conn[c].txn \in Ops => conn[c].txn # o
  BY DEF IInv, OneSeat
<1>9. ASSUME NEW x \in Ops
      PROVE  (pc[x] \in Holding <=> \E c \in Conns : conn[c].st = "busy" /\ conn[c].for = x)'
  <2>1. CASE x = o
    <3>1. pc'[x] \notin Holding
      BY <1>6, <2>1 DEF Holding
    <3>2. QED
      BY <1>7, <2>1, <3>1
  <2>2. CASE x # o
    <3>1. \A c \in Conns : conn'[c].for = x <=> conn[c].for = x
      <4>1. \A c \in Conns : conn[c].for = x => conn'[c].for = x
        BY <1>4, <2>2 DEF Abandon
      <4>2. QED
        BY <1>7, <4>1
    <3>2. (\E c \in Conns : conn'[c].st = "busy" /\ conn'[c].for = x)
            <=> (\E c \in Conns : conn[c].st = "busy" /\ conn[c].for = x)
      BY <1>4, <3>1
    <3>3. pc'[x] = pc[x]
      BY <1>6, <2>2
    <3>4. QED
      BY <3>2, <3>3 DEF IInv, TypeOK
  <2>3. QED
    BY <2>1, <2>2
<1>10. TypeOK'
  BY <1>3, <1>5, <1>6, <1>9 DEF IInv, TypeOK, ClientType, PcType
<1>11. OneSeat'
  <2>1. (\A d, e \in Conns : conn[d].for \in Ops /\ conn[d].for = conn[e].for => d = e)'
    <3>1. \A d, e \in Conns : conn[d].for \in Ops /\ conn[d].for = conn[e].for => d = e
      BY DEF IInv, OneSeat
    <3>2. QED
      BY <1>7, <3>1
  <2>2. (\A i, j \in DOMAIN queue : queue[i] \in Ops /\ queue[i] = queue[j] => i = j)'
    BY <1>3, <1>7 DEF IInv, OneSeat
  <2>3. (\A d \in Conns, i \in DOMAIN queue : conn[d].for \in Ops => queue[i] # conn[d].for)'
    <3>1. \A d \in Conns, i \in DOMAIN queue : conn[d].for \in Ops => queue[i] # conn[d].for
      BY DEF IInv, OneSeat
    <3>2. QED
      BY <1>3, <1>7, <3>1
  <2>4. (\A i \in DOMAIN queue : queue[i] \in Ops => pc[queue[i]] = "waiting")'
    BY <1>3, <1>6, <1>7 DEF IInv, OneSeat
  <2>5. (\A d \in Conns : conn[d].for \in Ops /\ conn[d].st = "connecting" => pc[conn[d].for] = "waiting")'
    BY <1>4, <1>6, <1>7 DEF IInv, OneSeat
  <2>6. (\A d \in Conns : conn[d].txn \in Ops => pc[conn[d].txn] \in {"running", "committing"})'
    BY <1>4, <1>6, <1>8 DEF IInv, OneSeat
  <2>7. QED
    BY <2>1, <2>2, <2>3, <2>4, <2>5, <2>6 DEF OneSeat
<1>12. ASSUME NEW c \in Conns
       PROVE  ClientSound(conn[c])'
  <2>1. ClientSound(conn[c]) /\ conn[c].for \in Callers \cup {NoOne}
    BY <1>4 DEF IInv, ClientType
  <2>2. conn'[c].for = NoOne <=> conn'[c].st \in {"none", "idle"}
    BY <1>2, <1>4, <2>1 DEF ClientSound
  <2>3. conn'[c].st = "finished" => conn'[c].for \in Natives
    BY <1>2, <1>4, <2>1 DEF ClientSound
  <2>4. conn'[c].txn # NoOne => conn'[c].st = "busy" /\ conn'[c].for = conn'[c].txn
    <3>1. SUFFICES ASSUME conn[c].txn # NoOne
                   PROVE  conn'[c].st = "busy" /\ conn'[c].for = conn'[c].txn
      BY <1>4
    <3>2. conn[c].st = "busy" /\ conn[c].for = conn[c].txn /\ conn[c].for # o
      BY <1>8, <2>1, <3>1 DEF ClientSound
    <3>3. QED
      BY <1>4, <3>2 DEF Abandon
  <2>5. QED
    BY <2>2, <2>3, <2>4 DEF ClientSound
<1>13. Idle' = Idle
  BY <1>4 DEF Idle
<1>14. PulsesDue' /\ NeverBehindRelease'
  BY <1>3, <1>4, <1>7, <1>13 DEF IInv, PulsesDue, NeverBehindRelease
<1>15. QED
  BY <1>10, <1>11, <1>12, <1>14 DEF IInv

\* A caller that is at rest has no seat.
LEMMA Unseated ==
  ASSUME IInv, NEW o \in Ops, pc[o] \in {"out", "settling", "settled", "released"}
  PROVE  /\ \A i \in DOMAIN queue : queue[i] # o
         /\ \A c \in Conns : conn[c].for # o /\ conn[c].txn # o
<1>1. \A i \in DOMAIN queue : queue[i] # o
  BY DEF IInv, OneSeat
<1>2. ASSUME NEW c \in Conns, conn[c].for = o
      PROVE  FALSE
  <2>1. conn[c].st \in Clients
    BY Client DEF IInv, ClientType
  <2>2. conn[c].st \in {"connecting", "busy"}
    BY <1>2, <2>1, Distinct DEF IInv, ClientSound, Clients
  <2>3. pc[o] = "waiting" \/ pc[o] \in Holding
    BY <1>2, <2>2 DEF IInv, OneSeat, TypeOK
  <2>4. QED
    BY <2>3 DEF Holding
<1>3. \A c \in Conns : conn[c].txn # o
  BY DEF IInv, OneSeat
<1>4. QED
  BY <1>1, <1>2, <1>3

\* A checkout begins: at a new client, or at the end of the queue.
LEMMA Joined ==
  ASSUME IInv, NEW who \in Ops \cup Natives, Connect(who), UNCHANGED <<closing, over>>,
         pc' = IF who \in Ops THEN [pc EXCEPT ![who] = "waiting"] ELSE pc,
         who \in Ops => pc[who] \in {"out", "settled"} /\ ~Busy
  PROVE  IInv'
<1> USE Distinct
<1>1. /\ conn \in [Conns -> ClientType] /\ pc \in [Ops -> PcType] /\ queue \in Seq(Callers) /\ TypeOK
      /\ Len(queue) \in Nat /\ DOMAIN queue = 1 .. Len(queue) /\ who \in Callers /\ who # NoOne
      /\ ticks \in Nat /\ Len(queue) < MaxQueue /\ ticks < MaxQueue /\ MaxQueue \in Nat
  BY Queued, BudgetAssumption DEF IInv, TypeOK, ClientType, PcType, Callers, Connect
<1>2. who \in Ops =>
        /\ \A i \in DOMAIN queue : queue[i] # who
        /\ \A c \in Conns : conn[c].for # who /\ conn[c].txn # who
  BY Unseated
<1>3. /\ pc' \in [Ops -> PcType] /\ (who \in Ops => pc'[who] = "waiting")
      /\ \A x \in Ops : x # who => pc'[x] = pc[x]
  BY <1>1 DEF PcType
<1>4. \A c \in Conns : conn[c].txn \in Ops => pc'[conn[c].txn] \in {"running", "committing"}
  BY <1>2, <1>3 DEF IInv, OneSeat
<1>5. CASE Idle = {} /\ ~Full
  <2>1. PICK c \in Conns : conn[c].st = "none" /\ conn' = Place(c, who, "connecting", who \in Ops)
    BY <1>5 DEF Connect
  <2>2. queue' = queue /\ ticks' = ticks
    BY <1>5 DEF Connect
  <2>3. conn[c].for = NoOne /\ conn[c].txn = NoOne /\ conn[c] \in ClientType
    BY <1>1, <2>1 DEF IInv, ClientSound
  <2> DEFINE r == [conn[c] EXCEPT !.st = "connecting", !.for = who, !.own = (who \in Ops)]
  <2>4. /\ conn' = [conn EXCEPT ![c] = r] /\ r \in ClientType
        /\ r.st = "connecting" /\ r.for = who /\ r.txn = NoOne /\ (r.own <=> who \in Ops)
    <3>1. r.st = "connecting" /\ r.for = who /\ r.txn = NoOne
      BY <2>3 DEF ClientType
    <3>2. r.own <=> who \in Ops
      BY <2>3 DEF ClientType
    <3>3. r \in ClientType
      <4>1. PICK own : own = (who \in Ops)
        OBVIOUS
      <4>2. own \in BOOLEAN /\ who \in Callers \cup {NoOne} /\ "connecting" \in Clients
        BY <1>1, <4>1 DEF Clients
      <4>3. [conn[c] EXCEPT !.st = "connecting", !.for = who, !.own = own] \in ClientType
        BY <2>3, <4>2 DEF ClientType
      <4>4. QED
        BY <4>1, <4>3
    <3>4. conn' = [conn EXCEPT ![c] = r]
      BY <2>1 DEF Place
    <3>5. QED
      BY <3>1, <3>2, <3>3, <3>4
  <2> HIDE DEF r
  <2>5. conn' \in [Conns -> ClientType] /\ \A d \in Conns : conn'[d] = IF d = c THEN r ELSE conn[d]
    BY <1>1, <2>4
  <2>6. ASSUME NEW o \in Ops
        PROVE  (pc[o] \in Holding <=> \E d \in Conns : conn[d].st = "busy" /\ conn[d].for = o)'
    <3>1. (\E d \in Conns : conn'[d].st = "busy" /\ conn'[d].for = o)
            <=> (\E d \in Conns : conn[d].st = "busy" /\ conn[d].for = o)
      BY <2>1, <2>4, <2>5
    <3>2. pc'[o] \in Holding <=> pc[o] \in Holding
      BY <1>3 DEF Holding
    <3>3. QED
      BY <3>1, <3>2 DEF IInv, TypeOK
  <2>7. TypeOK'
    BY <1>1, <1>3, <2>2, <2>5, <2>6 DEF TypeOK, ClientType, PcType
  <2>8. OneSeat'
    <3>1. (\A d, e \in Conns : conn[d].for \in Ops /\ conn[d].for = conn[e].for => d = e)'
      BY <1>2, <2>4, <2>5 DEF IInv, OneSeat
    <3>2. (\A i, j \in DOMAIN queue : queue[i] \in Ops /\ queue[i] = queue[j] => i = j)'
      BY <2>2 DEF IInv, OneSeat
    <3>3. (\A d \in Conns, i \in DOMAIN queue : conn[d].for \in Ops => queue[i] # conn[d].for)'
      BY <1>2, <2>2, <2>4, <2>5 DEF IInv, OneSeat
    <3>4. (\A i \in DOMAIN queue : queue[i] \in Ops => pc[queue[i]] = "waiting")'
      BY <1>3, <2>2 DEF IInv, OneSeat
    <3>5. (\A d \in Conns : conn[d].for \in Ops /\ conn[d].st = "connecting" => pc[conn[d].for] = "waiting")'
      BY <1>3, <2>4, <2>5 DEF IInv, OneSeat
    <3>6. (\A d \in Conns : conn[d].txn \in Ops => pc[conn[d].txn] \in {"running", "committing"})'
      BY <1>4, <2>4, <2>5
    <3>7. QED
      BY <3>1, <3>2, <3>3, <3>4, <3>5, <3>6 DEF OneSeat
  <2>9. (\A d \in Conns : ClientSound(conn[d]))'
    BY <1>1, <2>4, <2>5 DEF IInv, ClientSound
  <2>10. Idle' = Idle
    BY <2>1, <2>4, <2>5 DEF Idle
  <2>11. PulsesDue' /\ NeverBehindRelease'
    BY <2>2, <2>4, <2>5, <2>10 DEF IInv, PulsesDue, NeverBehindRelease
  <2>12. QED
    BY <2>7, <2>8, <2>9, <2>11 DEF IInv
<1>6. CASE ~(Idle = {} /\ ~Full)
  <2>1. conn' = conn /\ queue' = Append(queue, who) /\ ticks' = IF Idle # {} THEN ticks + 1 ELSE ticks
    BY <1>6 DEF Connect
  <2>2. /\ queue' \in Seq(Callers) /\ Len(queue') = Len(queue) + 1 /\ DOMAIN queue' = 1 .. Len(queue) + 1
        /\ \A i \in DOMAIN queue : i \in DOMAIN queue' /\ queue'[i] = queue[i]
        /\ queue'[Len(queue) + 1] = who
        /\ \A i \in DOMAIN queue' : i = Len(queue) + 1 \/ i \in DOMAIN queue
    BY <1>1, <2>1
  <2>3. ASSUME NEW o \in Ops
        PROVE  (pc[o] \in Holding <=> \E d \in Conns : conn[d].st = "busy" /\ conn[d].for = o)'
    <3>1. pc'[o] \in Holding <=> pc[o] \in Holding
      BY <1>3 DEF Holding
    <3>2. QED
      BY <2>1, <3>1 DEF IInv, TypeOK
  <2>4. TypeOK'
    BY <1>1, <1>3, <2>1, <2>2, <2>3 DEF TypeOK, ClientType, PcType
  <2>5. OneSeat'
    <3>1. (\A d, e \in Conns : conn[d].for \in Ops /\ conn[d].for = conn[e].for => d = e)'
      BY <2>1 DEF IInv, OneSeat
    <3>2. (\A i, j \in DOMAIN queue : queue[i] \in Ops /\ queue[i] = queue[j] => i = j)'
      BY <1>2, <2>2 DEF IInv, OneSeat
    <3>3. (\A d \in Conns, i \in DOMAIN queue : conn[d].for \in Ops => queue[i] # conn[d].for)'
      BY <1>2, <2>1, <2>2 DEF IInv, OneSeat
    <3>4. (\A i \in DOMAIN queue : queue[i] \in Ops => pc[queue[i]] = "waiting")'
      BY <1>2, <1>3, <2>2 DEF IInv, OneSeat
    <3>5. (\A d \in Conns : conn[d].for \in Ops /\ conn[d].st = "connecting" => pc[conn[d].for] = "waiting")'
      BY <1>3, <2>1 DEF IInv, OneSeat
    <3>6. (\A d \in Conns : conn[d].txn \in Ops => pc[conn[d].txn] \in {"running", "committing"})'
      BY <1>4, <2>1
    <3>7. QED
      BY <3>1, <3>2, <3>3, <3>4, <3>5, <3>6 DEF OneSeat
  <2>6. (\A d \in Conns : ClientSound(conn[d]))' /\ Idle' = Idle
    BY <2>1 DEF IInv, Idle
  <2>7. PulsesDue'
    BY <1>1, <2>1, <2>2, <2>6 DEF IInv, PulsesDue
  <2>8. ASSUME NEW i \in DOMAIN queue', queue'[i] \in Ops
        PROVE  i <= Cardinality(Idle)' /\ i <= ticks'
    <3>1. CASE i \in DOMAIN queue
      <4>1. i <= Cardinality(Idle) /\ i <= ticks /\ i \in Nat
        BY <1>1, <2>2, <2>8, <3>1 DEF IInv, NeverBehindRelease
      <4>2. Cardinality(Idle)' = Cardinality(Idle)
        BY <2>6
      <4>3. QED
        BY <1>1, <2>1, <4>1, <4>2
    <3>2. CASE i = Len(queue) + 1
      <4>1. ~Busy
        BY <2>2, <2>8, <3>2
      <4>2. Cardinality(Idle) \in Nat /\ (Cardinality(Idle) = 0 <=> Idle = {})
        BY <1>1, IdleCount
      <4>3. Idle # {} /\ Len(queue) < Cardinality(Idle)
        BY <1>1, <1>6, <4>1, <4>2 DEF Busy
      <4>4. Len(queue) <= ticks
        BY <4>3 DEF IInv, PulsesDue
      <4>5. Cardinality(Idle)' = Cardinality(Idle)
        BY <2>6
      <4>6. QED
        BY <1>1, <2>1, <3>2, <4>2, <4>3, <4>4, <4>5
    <3>3. QED
      BY <2>2, <3>1, <3>2
  <2>9. NeverBehindRelease'
    BY <2>1, <2>8 DEF IInv, NeverBehindRelease
  <2>10. QED
    BY <2>4, <2>5, <2>6, <2>7, <2>9 DEF IInv
<1>7. QED
  BY <1>5, <1>6

\* A native session leaves the queue; no budgeted caller waits then.
LEMMA TimedOut ==
  ASSUME IInv, NEW n \in Natives, NativeTimesOut(n)
  PROVE  IInv'
<1>1. /\ TypeOK /\ queue \in Seq(Callers) /\ Len(queue) \in Nat /\ DOMAIN queue = 1 .. Len(queue)
      /\ ticks = 0 /\ UNCHANGED <<conn, ticks, closing, pc, over>> /\ MaxQueue \in Nat
  BY Queued, BudgetAssumption DEF IInv, TypeOK, NativeTimesOut
<1>2. PICK k \in DOMAIN queue : queue' = LeavesQueue(k)
  BY DEF NativeTimesOut
<1>3. /\ queue' \in Seq(Callers) /\ Len(queue') = Len(queue) - 1 /\ Len(queue) >= 1
      /\ \A i \in DOMAIN queue' : queue'[i] \in {queue[j] : j \in DOMAIN queue}
  <2>1. \A i \in 1 .. Len(queue) - 1 : i \in DOMAIN queue /\ i + 1 \in DOMAIN queue
    BY <1>1
  <2>2. Len(queue) >= 1 /\ Len(queue) - 1 \in Nat
    BY <1>1, <1>2
  <2>3. \A i \in DOMAIN queue : queue[i] \in Callers
    BY <1>1
  <2>4. DOMAIN queue' = 1 .. Len(queue) - 1
    BY <1>2 DEF LeavesQueue
  <2>5. \A i \in 1 .. Len(queue) - 1 : queue'[i] = queue[i] \/ queue'[i] = queue[i + 1]
    BY <1>2 DEF LeavesQueue
  <2>6. queue' \in [1 .. Len(queue) - 1 -> Callers]
    BY <1>2, <2>1, <2>3 DEF LeavesQueue
  <2>7. queue' \in Seq(Callers) /\ Len(queue') = Len(queue) - 1
    BY <2>2, <2>6
  <2>8. QED
    BY <2>1, <2>2, <2>4, <2>5, <2>7
<1>4. \A i \in DOMAIN queue' : queue'[i] \notin Ops
  BY <1>1, <1>3, NoneWait
<1>5. \A c \in Conns, i \in DOMAIN queue' : conn[c].for \in Ops => queue'[i] # conn[c].for
  BY <1>4
<1>6. TypeOK'
  BY <1>1, <1>3 DEF TypeOK
<1>7. OneSeat'
  BY <1>1, <1>4, <1>5 DEF IInv, OneSeat
<1>8. (\A c \in Conns : ClientSound(conn[c]))' /\ Idle' = Idle
  BY <1>1 DEF IInv, ClientSound, Idle
<1>9. PulsesDue'
  BY <1>1, <1>3, <1>8 DEF IInv, PulsesDue
<1>10. NeverBehindRelease'
  BY <1>1, <1>4 DEF IInv, NeverBehindRelease
<1>11. QED
  BY <1>6, <1>7, <1>8, <1>9, <1>10 DEF IInv

-----------------------------------------------------------------------------
(* The invariant.                                                          *)

LEMMA InitHolds == Init => IInv
<1> SUFFICES ASSUME Init PROVE IInv
  OBVIOUS
<1> USE Distinct
<1>1. NoClient \in [st : Clients, for : Callers \cup {NoOne}, own : BOOLEAN, txn : Callers \cup {NoOne}]
  BY DEF NoClient, Clients
<1>2. queue = <<>> /\ Len(queue) = 0 /\ DOMAIN queue = {} /\ queue \in Seq(Callers) /\ MaxQueue \in Nat
  BY BudgetAssumption DEF Init
<1>3. \A c \in Conns : conn[c] = NoClient
  BY DEF Init
<1>4. TypeOK
  <2>1. conn \in [Conns -> [st : Clients, for : Callers \cup {NoOne}, own : BOOLEAN, txn : Callers \cup {NoOne}]]
    BY <1>1 DEF Init
  <2>2. \A o \in Ops : pc[o] \in Holding <=> \E c \in Conns : conn[c].st = "busy" /\ conn[c].for = o
    BY <1>3 DEF Init, Holding, NoClient
  <2>3. closing \in BOOLEAN /\ over \in [Ops -> BOOLEAN]
    BY DEF Init
  <2>4. pc \in [Ops -> {"out", "settling", "settled", "waiting", "released"} \cup Holding]
    BY DEF Init
  <2>5. ticks \in 0 .. MaxQueue /\ Len(queue) <= MaxQueue
    BY <1>2 DEF Init
  <2>6. QED
    BY <1>2, <2>1, <2>2, <2>3, <2>4, <2>5 DEF TypeOK
<1>5. OneSeat /\ PulsesDue /\ NeverBehindRelease /\ \A c \in Conns : ClientSound(conn[c])
  BY <1>2, <1>3 DEF Init, OneSeat, PulsesDue, NeverBehindRelease, ClientSound, NoClient, Idle
<1>6. QED
  BY <1>4, <1>5 DEF IInv

\* What the pool does by itself.
LEMMA PoolKeeps ==
  ASSUME IInv, Pool
  PROVE  IInv'
<1> USE Distinct
<1>1. pc \in [Ops -> PcType] /\ TypeOK /\ ticks \in Nat /\ closing \in BOOLEAN
  BY Queued DEF IInv, TypeOK, PcType
<1>2. CASE Tick
  BY <1>1, <1>2, Pulsed DEF Tick
<1>3. CASE SocketEnds
  BY <1>1, <1>3, Pulsed DEF SocketEnds
<1>4. ASSUME NEW c \in Conns, ConnectionUp(c)
      PROVE  IInv'
  <2>1. conn[c] \in ClientType /\ conn[c].st = "connecting"
    BY <1>1, <1>4, Client DEF ConnectionUp
  <2> DEFINE r == [conn[c] EXCEPT !.st = "busy"]
  <2>2. r \in ClientType /\ r.st = "busy" /\ r.for = conn[c].for /\ r.txn = conn[c].txn
    BY <2>1 DEF ClientType, Clients
  <2>3. conn' = [conn EXCEPT ![c] = r]
    BY <1>4 DEF ConnectionUp
  <2> HIDE DEF r
  <2>4. ClientSound(r) /\ r.txn = NoOne
    BY <2>1, <2>2 DEF IInv, ClientSound
  <2>5. pc' = Receives(r.for, pc) /\ UNCHANGED <<queue, ticks, closing, over>>
    BY <1>4, <2>2 DEF ConnectionUp
  <2>6. pc' \in [Ops -> PcType] /\ (r.for \in Ops => pc'[r.for] \in Holding)
        /\ \A x \in Ops : x # r.for => pc'[x] = pc[x]
    BY <1>1, <2>5 DEF Receives, PcType, Holding
  <2>7. QED
    BY <2>1, <2>2, <2>3, <2>4, <2>5, <2>6, Changed
<1>5. ASSUME NEW c \in Conns, ConnectionFails(c)
      PROVE  IInv'
  <2> DEFINE p == IF conn[c].for \in Ops THEN [pc EXCEPT ![conn[c].for] = "out"] ELSE pc
  <2>1. /\ p \in [Ops -> PcType]
        /\ \A x \in Ops : IF conn[c].for = x THEN p[x] \in {"out", "released"} ELSE p[x] = pc[x]
    BY <1>1 DEF PcType
  <2>2. conn[c].st = "connecting" /\ Destroy(c, p)
    BY <1>5 DEF ConnectionFails
  <2> HIDE DEF p
  <2>3. QED
    BY <2>1, <2>2, Destroyed
<1>6. ASSUME NEW c \in Conns, IdleCloses(c)
      PROVE  IInv'
  <2>1. Destroy(c, pc) /\ ticks = 0 /\ conn[c].for = NoOne
    BY <1>6 DEF IdleCloses, IInv, ClientSound
  <2>2. QED
    BY <1>1, <2>1, Destroyed
<1>7. QED
  BY <1>2, <1>3, <1>4, <1>5, <1>6 DEF Pool

\* What the native sessions do.
LEMMA NativeKeeps ==
  ASSUME IInv, NEW n \in Natives, NEW c \in Conns,
         NativeBegins(n, c) \/ NativeEnds(n, c) \/ NativeReturns(n, c) \/ NativeBreaks(n, c)
  PROVE  IInv'
<1> USE Distinct
<1>1. pc \in [Ops -> PcType] /\ TypeOK /\ conn[c] \in ClientType /\ n \in Callers
  BY Client DEF IInv, TypeOK, PcType, Callers
<1>2. CASE NativeBegins(n, c)
  <2> DEFINE r == [conn[c] EXCEPT !.txn = n]
  <2>1. r \in ClientType /\ r.st = "busy" /\ r.for = n /\ r.txn = n /\ conn[c].for = n /\ conn[c].st = "busy"
    BY <1>1, <1>2 DEF NativeBegins, ClientType
  <2>2. conn' = [conn EXCEPT ![c] = r] /\ pc' = pc /\ UNCHANGED <<queue, ticks, closing, over>>
    BY <1>2 DEF NativeBegins
  <2> HIDE DEF r
  <2>3. ClientSound(r)
    BY <2>1 DEF ClientSound
  <2>4. QED
    BY <1>1, <2>1, <2>2, <2>3, Changed
<1>3. CASE NativeEnds(n, c)
  <2>1. conn[c].st = "busy" /\ conn[c].for = n
    BY <1>3 DEF NativeEnds, IInv, ClientSound
  <2> DEFINE r == [conn[c] EXCEPT !.txn = NoOne, !.st = "finished"]
  <2>2. r \in ClientType /\ r.st = "finished" /\ r.for = n /\ r.txn = NoOne
    BY <1>1, <2>1 DEF ClientType, Clients
  <2>3. conn' = [conn EXCEPT ![c] = r]
    <3>1. conn \in [Conns -> ClientType]
      BY <1>1 DEF TypeOK, ClientType
    <3>2. QED
      BY <1>3, <3>1 DEF NativeEnds
  <2>4. pc' = pc /\ UNCHANGED <<queue, ticks, closing, over>>
    BY <1>3 DEF NativeEnds
  <2> HIDE DEF r
  <2>5. ClientSound(r)
    BY <2>2 DEF ClientSound
  <2>6. QED
    BY <1>1, <2>1, <2>2, <2>3, <2>4, <2>5, Changed
<1>4. CASE NativeReturns(n, c)
  <2>1. conn[c].st = "finished" /\ conn[c].for = n /\ conn[c].txn = NoOne /\ GiveBack(c, pc)
    BY <1>4 DEF NativeReturns, IInv, ClientSound
  <2>2. QED
    BY <1>1, <2>1, GivenBack
<1>5. CASE NativeBreaks(n, c)
  <2>1. conn[c].st = "busy" /\ conn[c].for = n /\ Destroy(c, pc)
    BY <1>5 DEF NativeBreaks
  <2>2. QED
    BY <1>1, <2>1, Destroyed
<1>6. QED
  BY <1>2, <1>3, <1>4, <1>5

\* A call that holds a client destroys it.
LEMMA DestroysHeld ==
  ASSUME IInv, NEW o \in Ops, NEW v \in {"out", "released"}, pc[o] \in Holding,
         Destroy(Held(o), [pc EXCEPT ![o] = v])
  PROVE  IInv'
<1>1. Held(o) \in Conns /\ conn[Held(o)].st = "busy" /\ conn[Held(o)].for = o
  BY HeldIs, Parts
<1> DEFINE p == [pc EXCEPT ![o] = v]
<1>2. p \in [Ops -> PcType] /\ p[o] = v /\ \A x \in Ops : x # o => p[x] = pc[x]
  BY DEF IInv, TypeOK, PcType
<1>3. Destroy(Held(o), p)
  OBVIOUS
<1> HIDE DEF p
<1>4. QED
  BY <1>1, <1>2, <1>3, Destroyed

\* A call asks the pool for a client.
LEMMA Asked ==
  ASSUME IInv, NEW o \in Ops, pc[o] \in {"out", "settled"}, Ask(o)
  PROVE  IInv'
<1>1. CASE Goto(o, "out") /\ UNCHANGED <<conn, queue, ticks, closing, over>>
  BY <1>1, Moved DEF Goto, PcType, Holding
<1>2. CASE ~Busy /\ ~over[o] /\ Connect(o) /\ Goto(o, "waiting") /\ UNCHANGED <<closing, over>>
  <2>1. o \in Ops \cup Natives /\ pc' = IF o \in Ops THEN [pc EXCEPT ![o] = "waiting"] ELSE pc
    BY <1>2 DEF Goto
  <2>2. QED
    BY <1>2, <2>1, Joined
<1>3. QED
  BY <1>1, <1>2 DEF Ask

\* What a budgeted call does.
LEMMA CallKeeps ==
  ASSUME IInv, NEW o \in Ops,
         Begin(o) \/ NewBudget(o) \/ CallStep(o) \/ StatementFails(o) \/ Expire(o) \/ Fire(o)
  PROVE  IInv'
<1> USE Distinct
<1>1. /\ pc \in [Ops -> PcType] /\ TypeOK /\ Seated /\ over \in [Ops -> BOOLEAN] /\ o \in Callers
      /\ conn \in [Conns -> ClientType]
  BY Parts DEF IInv, TypeOK, PcType, Callers, ClientType
<1>h. pc[o] \in Holding => Held(o) \in Conns /\ conn[Held(o)].st = "busy" /\ conn[Held(o)].for = o
                            /\ conn[Held(o)] \in ClientType
  BY <1>1, HeldIs
<1>2. CASE Begin(o)
  <2>1. CASE Goto(o, "settling") /\ UNCHANGED <<conn, queue, ticks, closing, over>>
    BY <1>2, <2>1, Moved DEF Begin, Goto, PcType, Holding
  <2>2. CASE Ask(o)
    BY <1>2, <2>2, Asked DEF Begin
  <2>3. QED
    BY <1>2, <2>1, <2>2 DEF Begin
<1>3. CASE NewBudget(o) \/ Expire(o)
  BY <1>1, <1>3, Timed DEF NewBudget, Expire
<1>4. CASE Turn(o)
  <2>1. PICK v \in {"out", "settled"} : pc' = [pc EXCEPT ![o] = v]
    BY <1>4 DEF Turn, Goto
  <2>2. QED
    BY <1>4, <2>1, Moved DEF Turn, PcType, Holding
<1>5. CASE AskAgain(o)
  BY <1>5, Asked DEF AskAgain
<1>6. CASE Take(o)
  <2>1. CASE over[o]
    BY <1>6, <2>1, DestroysHeld DEF Take, Holding
  <2>2. CASE ~over[o]
    BY <1>6, <2>2, Moved DEF Take, Goto, PcType, Holding
  <2>3. QED
    BY <2>1, <2>2
<1>7. CASE Start(o)
  <2>1. CASE over[o]
    BY <1>7, <2>1, DestroysHeld DEF Start, Holding
  <2>2. CASE ~over[o]
    <3>1. pc[o] \in Holding /\ conn' = [conn EXCEPT ![Held(o)].txn = o] /\ pc' = [pc EXCEPT ![o] = "running"]
          /\ UNCHANGED <<queue, ticks, closing, over>>
      BY <1>7, <2>2 DEF Start, Goto, Holding
    <3> DEFINE r == [conn[Held(o)] EXCEPT !.txn = o]
    <3>2. r \in ClientType /\ r.st = "busy" /\ r.for = o /\ r.txn = o
      BY <1>1, <1>h, <3>1 DEF ClientType
    <3>3. conn' = [conn EXCEPT ![Held(o)] = r]
      BY <3>1
    <3> HIDE DEF r
    <3>4. ClientSound(r)
      BY <3>2 DEF ClientSound
    <3>5. PICK p \in [Ops -> PcType] : pc' = p
      BY <1>1, <3>1 DEF PcType, Holding
    <3>6. p[o] = "running" /\ "running" \in Holding /\ \A x \in Ops : x # o => p[x] = pc[x]
      BY <1>1, <3>1, <3>5 DEF Holding
    <3>7. r.for = conn[Held(o)].for /\ Held(o) \in Conns /\ conn[Held(o)].st # "idle"
      BY <1>h, <3>1, <3>2
    <3>8. /\ r.for \in Ops => r.st = "busy" /\ p[r.for] \in Holding
          /\ r.txn \in Ops => p[r.txn] \in {"running", "committing"}
          /\ r.st \in {"busy", "finished"} /\ \A x \in Ops : x # r.for => p[x] = pc[x]
      BY <3>2, <3>6
    <3>9. UNCHANGED <<queue, ticks, closing, over>>
      BY <3>1
    <3>10. QED
      BY <3>2, <3>3, <3>4, <3>5, <3>7, <3>8, <3>9, Changed
  <2>3. QED
    BY <2>1, <2>2
<1>8. CASE Work(o)
  <2>1. CASE over[o]
    BY <1>8, <2>1, DestroysHeld DEF Work, Holding
  <2>2. CASE ~over[o]
    BY <1>8, <2>2, Moved DEF Work, Goto, PcType, Holding
  <2>3. QED
    BY <2>1, <2>2
<1>9. CASE StatementFails(o)
  BY <1>9, DestroysHeld DEF StatementFails, Holding
<1>10. CASE Committed(o)
  <2>1. pc[o] = "committing" /\ pc[o] \in Holding /\ conn' = [conn EXCEPT ![Held(o)].txn = NoOne]
        /\ UNCHANGED <<queue, ticks, closing, pc, over>>
    BY <1>10 DEF Committed, Holding
  <2> DEFINE r == [conn[Held(o)] EXCEPT !.txn = NoOne]
  <2>2. r \in ClientType /\ r.st = "busy" /\ r.for = o /\ r.txn = NoOne
    BY <1>1, <1>h, <2>1 DEF ClientType
  <2>3. conn' = [conn EXCEPT ![Held(o)] = r]
    BY <2>1
  <2> HIDE DEF r
  <2>4. ClientSound(r)
    BY <2>2 DEF ClientSound
  <2>5. QED
    BY <1>1, <1>h, <2>1, <2>2, <2>3, <2>4, Changed
<1>11. CASE Returns(o)
  <2>1. pc[o] \in Holding /\ conn[Held(o)].txn = NoOne /\ GiveBack(Held(o), [pc EXCEPT ![o] = "out"])
    BY <1>11 DEF Returns, Holding
  <2> DEFINE p == [pc EXCEPT ![o] = "out"]
  <2>2. p \in [Ops -> PcType] /\ p[o] = "out" /\ \A x \in Ops : x # o => p[x] = pc[x]
    BY <1>1 DEF PcType
  <2>3. GiveBack(Held(o), p)
    BY <2>1
  <2> HIDE DEF p
  <2>4. QED
    BY <1>h, <2>1, <2>2, <2>3, GivenBack
<1>12. CASE Rejects(o)
  BY <1>12, Moved DEF Rejects, Goto, PcType, Holding
<1>13. CASE Fire(o)
  <2>1. CASE pc[o] = "settling" /\ Goto(o, "out") /\ UNCHANGED <<conn, queue, ticks, closing, over>>
    BY <2>1, Moved DEF Goto, PcType, Holding
  <2>2. CASE /\ pc[o] \in {"waiting", "handed"}
             /\ queue' = [i \in DOMAIN queue |-> Abandon(queue[i], o)]
             /\ conn' = [c \in Conns |-> [conn[c] EXCEPT !.for = Abandon(@, o)]]
             /\ Goto(o, "out") /\ UNCHANGED <<ticks, closing, over>>
    BY <2>2, Abandoned
  <2>3. CASE pc[o] \in {"running", "committing"} /\ Destroy(Held(o), [pc EXCEPT ![o] = "released"])
    BY <2>3, DestroysHeld DEF Holding
  <2>4. QED
    BY <1>13, <2>1, <2>2, <2>3 DEF Fire
<1>14. QED
  BY <1>2, <1>3, <1>4, <1>5, <1>6, <1>7, <1>8, <1>9, <1>10, <1>11, <1>12, <1>13 DEF CallStep

\* The inductive invariant of the pool and its callers: every budgeted caller has one seat,
\* every idle client's queue has its pulses, and a transaction is open under its owner.
THEOREM InductiveInvariant == Spec => []IInv
<1>1. Init => IInv
  BY InitHolds
<1>2. IInv /\ [Next]_vars => IInv'
  <2> SUFFICES ASSUME IInv, [Next]_vars PROVE IInv'
    OBVIOUS
  <2> USE Distinct
  <2>1. CASE Pool
    BY <2>1, PoolKeeps
  <2>2. ASSUME NEW n \in Natives, NativeConnect(n)
        PROVE  IInv'
    BY <2>2, Joined DEF NativeConnect
  <2>3. ASSUME NEW n \in Natives, NativeTimesOut(n)
        PROVE  IInv'
    BY <2>3, TimedOut
  <2>4. ASSUME NEW n \in Natives, NEW c \in Conns,
               NativeBegins(n, c) \/ NativeEnds(n, c) \/ NativeReturns(n, c) \/ NativeBreaks(n, c)
        PROVE  IInv'
    BY <2>4, NativeKeeps
  <2>5. ASSUME NEW o \in Ops,
               Begin(o) \/ NewBudget(o) \/ CallStep(o) \/ StatementFails(o) \/ Expire(o) \/ Fire(o)
        PROVE  IInv'
    BY <2>5, CallKeeps
  <2>6. ASSUME NEW c \in Conns, DestroyLate(c)
        PROVE  IInv'
    <3>1. conn[c].st = "busy" /\ conn[c].for = Late /\ Destroy(c, pc) /\ pc \in [Ops -> PcType]
      BY <2>6 DEF DestroyLate, IInv, TypeOK, PcType
    <3>2. QED
      BY <3>1, Destroyed
  <2>7. CASE UNCHANGED vars
    BY <2>7 DEF vars, IInv, TypeOK, OneSeat, PulsesDue, NeverBehindRelease, Idle, ClientSound
  <2>8. QED
    BY <2>1, <2>2, <2>3, <2>4, <2>5, <2>6, <2>7 DEF Next
<1>3. QED
  BY <1>1, <1>2, PTL DEF Spec

\* The state is well typed, and a call's pc agrees with the clients it holds.
THEOREM TypeCorrect == Spec => []TypeOK
<1>1. IInv => TypeOK
  BY DEF IInv
<1>2. QED
  BY <1>1, InductiveInvariant, PTL

\* A queued budgeted call has an idle client and a pulse for itself and for everyone before
\* it: acquire refuses whoever would wait for a release, and the pool opens no connection
\* for a budgeted caller outside its budget.
THEOREM NotBehindRelease == Spec => []NeverBehindRelease
<1>1. IInv => NeverBehindRelease
  BY DEF IInv
<1>2. QED
  BY <1>1, InductiveInvariant, PTL

\* A transaction is open only while the caller that began it holds the client: neither a
\* failure, nor an expired budget, nor a late checkout hands it to somebody else.
THEOREM PrivateTransactions == Spec => []TransactionsStayPrivate
<1>1. IInv => TransactionsStayPrivate
  BY DEF IInv, ClientSound, TransactionsStayPrivate
<1>2. QED
  BY <1>1, InductiveInvariant, PTL
=============================================================================
