------------------------------- MODULE SqlBudget -------------------------------
(***************************************************************************)
(* Operational SQL on a connection pool it shares with native sessions:    *)
(* acquire and withOperationalSql check a client out of pg-pool within a   *)
(* budget, run one transaction, and give it back or destroy it.            *)
(*                                                                         *)
(* One Node process.  Promise continuations run at any time, but timers    *)
(* and sockets only once the pulses of process.nextTick have run (ticks).  *)
(* The pool (pg-pool) and the native sessions are external.  A caller that *)
(* gives up its checkout leaves the pending item behind, under Late.       *)
(***************************************************************************)
EXTENDS Integers, Sequences, FiniteSets

CONSTANTS
  Ops,       \* budgeted callers, each with one call at a time
  Natives,   \* native sessions, which wait in the queue as they like
  Conns,     \* places for clients: options.max of them
  Late,      \* the owner of a checkout whose caller gave up
  NoOne,     \* no owner, no open transaction
  MaxQueue   \* bound on the queue and on the scheduled pulses

ASSUME BudgetAssumption ==
  /\ Ops \cap Natives = {} /\ {Late, NoOne} \cap (Ops \cup Natives) = {} /\ Late # NoOne
  /\ IsFiniteSet(Conns) /\ Conns # {} /\ MaxQueue \in Nat \ {0}

VARIABLES
  conn,     \* conn[c]: the client in this place, whose it is, its open transaction
  queue,    \* callers waiting in the pool, in order
  ticks,    \* pulses of the queue scheduled with process.nextTick
  closing,  \* some removed client has not ended yet
  pc,       \* pc[o]: where a budgeted call stands
  over      \* over[o]: its deadline has passed or its signal is aborted

vars == <<conn, queue, ticks, closing, pc, over>>

Callers == Ops \cup Natives \cup {Late}
Holding == {"handed", "acquired", "running", "committing"}
Clients == {"none", "connecting", "idle", "busy", "finished"}
NoClient == [st |-> "none", for |-> NoOne, own |-> FALSE, txn |-> NoOne]

TypeOK ==
  /\ conn \in [Conns -> [st : Clients, for : Callers \cup {NoOne},
                         own : BOOLEAN, txn : Callers \cup {NoOne}]]
  /\ queue \in Seq(Callers) /\ Len(queue) <= MaxQueue /\ ticks \in 0 .. MaxQueue
  /\ closing \in BOOLEAN
  /\ pc \in [Ops -> {"out", "settling", "settled", "waiting", "released"} \cup Holding]
  /\ over \in [Ops -> BOOLEAN]
  /\ \A o \in Ops : pc[o] \in Holding <=> \E c \in Conns : conn[c].st = "busy" /\ conn[c].for = o

Init ==
  /\ conn = [c \in Conns |-> NoClient]
  /\ queue = <<>> /\ ticks = 0 /\ closing = FALSE
  /\ pc = [o \in Ops |-> "out"] /\ over = [o \in Ops |-> FALSE]

-----------------------------------------------------------------------------
(* The pool.                                                               *)

Idle == {c \in Conns : conn[c].st = "idle"}
Full == \A c \in Conns : conn[c].st # "none"

Place(c, who, st, own) == [conn EXCEPT ![c] = [@ EXCEPT !.st = st, !.for = who, !.own = own]]

\* The pool resolves the checkout of an item; a budgeted caller's continuation is due.
Receives(who, p) == IF who \in Ops THEN [p EXCEPT ![who] = "handed"] ELSE p

\* pool.connect: a new client if the pool is neither full nor idle, else the queue, which
\* is pulsed in the next tick if a client is idle.
Connect(who) ==
  /\ Len(queue) < MaxQueue /\ ticks < MaxQueue
  /\ IF Idle = {} /\ ~Full
     THEN /\ \E c \in Conns : conn[c].st = "none" /\ conn' = Place(c, who, "connecting", who \in Ops)
          /\ UNCHANGED <<queue, ticks>>
     ELSE /\ queue' = Append(queue, who)
          /\ ticks' = IF Idle # {} THEN ticks + 1 ELSE ticks
          /\ UNCHANGED conn

\* _pulseQueue serves one item: an idle client, or a new one outside any caller's budget.
PulseQueue ==
  IF queue = <<>> \/ (Idle = {} /\ Full) THEN UNCHANGED <<conn, queue, pc>>
  ELSE /\ queue' = Tail(queue)
       /\ IF Idle # {}
          THEN /\ \E c \in Idle : conn' = Place(c, Head(queue), "busy", FALSE)
               /\ pc' = Receives(Head(queue), pc)
          ELSE /\ \E c \in Conns : conn[c].st = "none" /\ conn' = Place(c, Head(queue), "connecting", FALSE)
               /\ UNCHANGED pc

Tick ==
  /\ ticks > 0 /\ ticks' = ticks - 1
  /\ PulseQueue
  /\ UNCHANGED <<closing, over>>

\* release(false): the client is idle and the queue is pulsed at once. p is pc otherwise.
GiveBack(c, p) ==
  /\ IF queue = <<>>
     THEN conn' = Place(c, NoOne, "idle", FALSE) /\ pc' = p /\ UNCHANGED queue
     ELSE /\ conn' = Place(c, Head(queue), "busy", FALSE)
          /\ queue' = Tail(queue) /\ pc' = Receives(Head(queue), p)
  /\ UNCHANGED <<ticks, closing, over>>

\* release(true): the client leaves the pool now, the queue is pulsed when it has ended.
Destroy(c, p) ==
  /\ conn' = [conn EXCEPT ![c] = NoClient] /\ closing' = TRUE /\ pc' = p
  /\ UNCHANGED <<queue, ticks, over>>

SocketEnds ==
  /\ closing /\ ticks = 0
  /\ closing' \in BOOLEAN
  /\ PulseQueue
  /\ UNCHANGED <<ticks, over>>

ConnectionUp(c) ==
  /\ conn[c].st = "connecting" /\ ticks = 0
  /\ conn' = [conn EXCEPT ![c].st = "busy"]
  /\ pc' = Receives(conn[c].for, pc)
  /\ UNCHANGED <<queue, ticks, closing, over>>

ConnectionFails(c) ==
  /\ conn[c].st = "connecting" /\ ticks = 0
  /\ Destroy(c, IF conn[c].for \in Ops THEN [pc EXCEPT ![conn[c].for] = "out"] ELSE pc)

\* The idle timeout, or an error of an idle socket.
IdleCloses(c) == conn[c].st = "idle" /\ ticks = 0 /\ Destroy(c, pc)

-----------------------------------------------------------------------------
(* Native sessions: PostgresClient without a budget.                       *)

NativeConnect(n) ==
  /\ \A i \in DOMAIN queue : queue[i] # n
  /\ \A c \in Conns : conn[c].for # n
  /\ Connect(n)
  /\ UNCHANGED <<closing, pc, over>>

NativeBegins(n, c) ==
  /\ conn[c].st = "busy" /\ conn[c].for = n
  /\ conn' = [conn EXCEPT ![c].txn = n]
  /\ UNCHANGED <<queue, ticks, closing, pc, over>>

\* COMMIT or ROLLBACK is answered, then release().
NativeEnds(n, c) ==
  /\ conn[c].txn = n /\ ticks = 0
  /\ conn' = [conn EXCEPT ![c].txn = NoOne, ![c].st = "finished"]
  /\ UNCHANGED <<queue, ticks, closing, pc, over>>

NativeReturns(n, c) ==
  /\ conn[c].st = "finished" /\ conn[c].for = n
  /\ GiveBack(c, pc)

\* The connection is lost: release() makes the pool remove the client.
NativeBreaks(n, c) ==
  /\ conn[c].st = "busy" /\ conn[c].for = n /\ ticks = 0
  /\ Destroy(c, pc)

\* The queue without its i-th item.
LeavesQueue(i) == [j \in 1 .. Len(queue) - 1 |-> IF j < i THEN queue[j] ELSE queue[j + 1]]

\* connectionTimeoutMillis of a queued checkout.
NativeTimesOut(n) ==
  /\ ticks = 0
  /\ \E i \in DOMAIN queue : queue[i] = n /\ queue' = LeavesQueue(i)
  /\ UNCHANGED <<conn, ticks, closing, pc, over>>

-----------------------------------------------------------------------------
(* acquire.                                                                *)

Goto(o, p) == pc' = [pc EXCEPT ![o] = p]

\* Every idle client is reserved by a queued caller while the pool could still grow.
ReservationsHide == Len(queue) > 0 /\ Len(queue) >= Cardinality(Idle) /\ ~Full

\* Mutant: only a full pool is busy.
BusyWhenFull == Idle = {} /\ Full

\* What the caller would get needs somebody's release.
Busy == (Len(queue) > 0 /\ Len(queue) >= Cardinality(Idle)) \/ (Idle = {} /\ Full)

\* operational_sql_pool_busy, or pool.connect() with the budget around it.
Ask(o) ==
  \/ /\ Busy \/ over[o]
     /\ Goto(o, "out") /\ UNCHANGED <<conn, queue, ticks, closing, over>>
  \/ /\ ~Busy /\ ~over[o]
     /\ Connect(o) /\ Goto(o, "waiting") /\ UNCHANGED <<closing, over>>

\* A call begins with a fresh budget.
Begin(o) ==
  /\ pc[o] = "out" /\ ~over[o]
  /\ IF ReservationsHide THEN Goto(o, "settling") /\ UNCHANGED <<conn, queue, ticks, closing, over>>
     ELSE Ask(o)

NewBudget(o) ==
  /\ pc[o] = "out" /\ over[o]
  /\ over' = [over EXCEPT ![o] = FALSE]
  /\ UNCHANGED <<conn, queue, ticks, closing, pc>>

\* settleIdleReservations: one setImmediate turn, when the scheduled pulses have run.
Turn(o) ==
  /\ pc[o] = "settling" /\ ticks = 0
  /\ Goto(o, IF over[o] THEN "out" ELSE "settled")
  /\ UNCHANGED <<conn, queue, ticks, closing, over>>

AskAgain(o) == pc[o] = "settled" /\ Ask(o)

Held(o) == CHOOSE c \in Conns : conn[c].st = "busy" /\ conn[c].for = o

\* The checkout resolved: it is taken unless the budget ended meanwhile.
Take(o) ==
  /\ pc[o] = "handed"
  /\ IF over[o] THEN Destroy(Held(o), [pc EXCEPT ![o] = "out"])
     ELSE Goto(o, "acquired") /\ UNCHANGED <<conn, queue, ticks, closing, over>>

\* Mutant: a checkout that resolves late is ignored.
IgnoreLate(c) == conn[c].st = "busy" /\ conn[c].for = Late /\ UNCHANGED vars

\* A checkout that resolves after its caller gave up is destroyed.
DestroyLate(c) == conn[c].st = "busy" /\ conn[c].for = Late /\ Destroy(c, pc)

-----------------------------------------------------------------------------
(* withOperationalSql.                                                     *)

\* BEGIN is sent unless the signal was aborted, or the deadline passed, since the checkout.
Start(o) ==
  /\ pc[o] = "acquired"
  /\ IF over[o] THEN Destroy(Held(o), [pc EXCEPT ![o] = "out"])
     ELSE /\ conn' = [conn EXCEPT ![Held(o)].txn = o] /\ Goto(o, "running")
          /\ UNCHANGED <<queue, ticks, closing, over>>

\* The work's statements were answered; COMMIT is sent if time remains.
Work(o) ==
  /\ pc[o] = "running"
  /\ IF over[o] THEN Destroy(Held(o), [pc EXCEPT ![o] = "out"])
     ELSE Goto(o, "committing") /\ UNCHANGED <<conn, queue, ticks, closing, over>>

\* Mutant: the client is given back when a statement fails.
FailGivesBack(o) ==
  /\ pc[o] \in {"running", "committing"}
  /\ GiveBack(Held(o), [pc EXCEPT ![o] = "out"])

\* A statement, the work itself or COMMIT fails: the client is destroyed.
StatementFails(o) ==
  /\ pc[o] \in {"running", "committing"}
  /\ Destroy(Held(o), [pc EXCEPT ![o] = "out"])

\* COMMIT is answered, then release(false).
Committed(o) ==
  /\ pc[o] = "committing" /\ conn[Held(o)].txn = o /\ ticks = 0
  /\ conn' = [conn EXCEPT ![Held(o)].txn = NoOne]
  /\ UNCHANGED <<queue, ticks, closing, pc, over>>

Returns(o) ==
  /\ pc[o] = "committing" /\ conn[Held(o)].txn = NoOne
  /\ GiveBack(Held(o), [pc EXCEPT ![o] = "out"])

\* After an abort the statement under way rejects; release does nothing more.
Rejects(o) ==
  /\ pc[o] = "released"
  /\ Goto(o, "out") /\ UNCHANGED <<conn, queue, ticks, closing, over>>

-----------------------------------------------------------------------------
(* The budget.                                                             *)

Expire(o) ==
  /\ pc[o] # "out" /\ ~over[o]
  /\ over' = [over EXCEPT ![o] = TRUE]
  /\ UNCHANGED <<conn, queue, ticks, closing, pc>>

\* Mutant: the settled flag is not looked at when the checkout resolves.
AbandonNothing(w, o) == w

\* settled: what resolves from now on is nobody's.
Abandon(w, o) == IF w = o THEN Late ELSE w

\* The timer or the abort listener of the stage: give up the reservation or the checkout,
\* or destroy the borrowed client.
Fire(o) ==
  /\ over[o]
  /\ \/ /\ pc[o] = "settling"
        /\ Goto(o, "out") /\ UNCHANGED <<conn, queue, ticks, closing, over>>
     \/ /\ pc[o] \in {"waiting", "handed"}
        /\ queue' = [i \in DOMAIN queue |-> Abandon(queue[i], o)]
        /\ conn' = [c \in Conns |-> [conn[c] EXCEPT !.for = Abandon(@, o)]]
        /\ Goto(o, "out") /\ UNCHANGED <<ticks, closing, over>>
     \/ /\ pc[o] \in {"running", "committing"}
        /\ Destroy(Held(o), [pc EXCEPT ![o] = "released"])

-----------------------------------------------------------------------------
Pool == Tick \/ SocketEnds \/ \E c \in Conns : ConnectionUp(c) \/ ConnectionFails(c) \/ IdleCloses(c)

CallStep(o) ==
  Turn(o) \/ AskAgain(o) \/ Take(o) \/ Start(o) \/ Work(o) \/ Committed(o) \/ Returns(o) \/ Rejects(o)

Next ==
  \/ Pool
  \/ \E n \in Natives : NativeConnect(n) \/ NativeTimesOut(n)
  \/ \E n \in Natives, c \in Conns :
       NativeBegins(n, c) \/ NativeEnds(n, c) \/ NativeReturns(n, c) \/ NativeBreaks(n, c)
  \/ \E o \in Ops : Begin(o) \/ NewBudget(o) \/ CallStep(o) \/ StatementFails(o) \/ Expire(o) \/ Fire(o)
  \/ \E c \in Conns : DestroyLate(c)

Spec == Init /\ [][Next]_vars

\* Pulses and continuations run, a connection comes up or fails, statements are answered;
\* the event loop comes round to sockets and immediates although new pulses keep being
\* scheduled (strong fairness). No deadline has to pass, and no native session has to end.
Fairness ==
  /\ WF_vars(Tick)
  /\ \A c \in Conns : SF_vars(ConnectionUp(c) \/ ConnectionFails(c)) /\ WF_vars(DestroyLate(c))
  /\ \A o \in Ops : SF_vars(CallStep(o))

FairSpec == Spec /\ Fairness

-----------------------------------------------------------------------------
(* Properties.                                                             *)

\* "Never enqueue this caller while it needs a future release": a queued budgeted call
\* has an idle client and a scheduled pulse for itself and for everyone before it, so no
\* pulse ever opens a socket for it outside its budget.
NeverBehindRelease ==
  /\ \A i \in DOMAIN queue : queue[i] \in Ops => i <= Cardinality(Idle) /\ i <= ticks
  /\ \A c \in Conns : conn[c].st = "connecting" /\ conn[c].for \in Ops => conn[c].own

\* Nobody gets a client with somebody else's transaction on it: a transaction is open
\* only while the caller that began it holds the client.
TransactionsStayPrivate ==
  \A c \in Conns : conn[c].txn # NoOne => conn[c].st = "busy" /\ conn[c].for = conn[c].txn

\* A budgeted call ends by itself, even if its deadline never comes and no native session
\* ever gives back a client, and a late checkout does not stay in the pool.
CallNeedsNobody ==
  /\ \A o \in Ops : pc[o] # "out" ~> pc[o] = "out"
  /\ \A c \in Conns : conn[c].st = "busy" /\ conn[c].for = Late ~> conn[c].for # Late

-----------------------------------------------------------------------------
(* The inductive invariant.                                                *)

\* A place without an owner has no client under way or in use, only a native session
\* leaves a client finished, and a transaction is open only under its owner.
ClientSound(r) ==
  /\ r.for = NoOne <=> r.st \in {"none", "idle"}
  /\ r.st = "finished" => r.for \in Natives
  /\ r.txn # NoOne => r.st = "busy" /\ r.for = r.txn

\* A budgeted caller has one seat: a place in the queue or a client, and it knows which;
\* its transaction is open only between its BEGIN and its COMMIT.
OneSeat ==
  /\ \A c, d \in Conns : conn[c].for \in Ops /\ conn[c].for = conn[d].for => c = d
  /\ \A i, j \in DOMAIN queue : queue[i] \in Ops /\ queue[i] = queue[j] => i = j
  /\ \A c \in Conns, i \in DOMAIN queue : conn[c].for \in Ops => queue[i] # conn[c].for
  /\ \A i \in DOMAIN queue : queue[i] \in Ops => pc[queue[i]] = "waiting"
  /\ \A c \in Conns :
       conn[c].for \in Ops /\ conn[c].st = "connecting" => pc[conn[c].for] = "waiting"
  /\ \A c \in Conns : conn[c].txn \in Ops => pc[conn[c].txn] \in {"running", "committing"}

\* While a client is idle, everyone in the queue has a pulse that will serve it.
PulsesDue == Idle # {} => Len(queue) <= ticks

IInv ==
  /\ TypeOK /\ OneSeat /\ PulsesDue /\ NeverBehindRelease
  /\ \A c \in Conns : ClientSound(conn[c])
=============================================================================
