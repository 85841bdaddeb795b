--------------------------- MODULE WriteBackProofs ---------------------------
(***************************************************************************)
(* Proofs about WriteBack for every set of requests and writes and every   *)
(* bound.                                                                  *)
(*                                                                         *)
(* The argument: a receipt never changes once it is there, a completion of *)
(* the gateway is never taken back and nothing it has recorded is lost     *)
(* (Extends).  What a request relies on (Good) therefore stays true under  *)
(* the steps of all others, and it is enough to look at the request that   *)
(* moves.  A held write is stopped before it is sent, so no call and no    *)
(* record of the gateway ever carries it (WireIsSent).                     *)
(***************************************************************************)
EXTENDS WriteBack, TLAPS

\* What later receipts rc2, records dn2 and presumptions pr2 keep of rc, dn and pr.
Extends(rc, dn, pr, rc2, dn2, pr2) ==
  /\ pr \subseteq pr2
  /\ \A w \in Writes :
       /\ rc[w] # "none" => rc2[w] = rc[w]
       /\ dn[w] # "none" => dn2[w] # "none"
       /\ dn[w] = "completed" => dn2[w] = "completed"

\* The tables keep their shapes and agree with each other.
Store(rc, dn, pr, i) ==
  /\ rc \in [Writes -> {"none"} \cup Receipts]
  /\ dn \in [Writes -> {"none"} \cup Statuses] /\ pr \subseteq Writes
  /\ \A w \in RouteWrites : rc[w] = "completed" => dn[w] = "completed" \/ w \in pr
  /\ \A w \in Held : dn[w] = "none"
  /\ i \in RouteWrites \cup {NoWrite}
  /\ i # NoWrite => rc[i] # "none" /\ (dn[i] = "completed" \/ i \in pr)

Rest ==
  /\ observe' \in BOOLEAN /\ connected' \in BOOLEAN
  /\ moves' \in 0 .. MaxMoves /\ faults' \in 0 .. MaxFaults

LEMMA StoreOfIInv == ASSUME IInv PROVE Store(receipt, done, presumed, issue)
BY DEF IInv, TypeOK, IssueFollowsGateway, AnswersAgree, Store

LEMMA GoodStays ==
  ASSUME NEW q \in Request, NEW rc, NEW dn, NEW pr, NEW rc2, NEW dn2, NEW pr2,
         Extends(rc, dn, pr, rc2, dn2, pr2), Good(q, rc, dn, pr),
         RouteWrites \subseteq Writes
  PROVE  Good(q, rc2, dn2, pr2)
<1>1. q.shown # "none" =>
        q.write \in Writes /\ rc2[q.write] # "none" /\ q.shown = Shows(q.answer, rc2[q.write])
  BY DEF Good, Extends
<1>2. q.answer = "success" /\ q.write \in RouteWrites => dn2[q.write] # "none"
  BY DEF Good, Extends
<1>3. q.pc = "answered" /\ q.write \in RouteWrites =>
        /\ q.status # "none" /\ dn2[q.write] # "none"
        /\ q.status = "completed" => dn2[q.write] = "completed" \/ q.write \in pr2
  BY DEF Good, Extends
<1>4. q.pc = "updating" =>
        /\ q.write \in RouteWrites /\ dn2[q.write] # "none" /\ rc2[q.write] # "none"
        /\ dn2[q.write] = "completed" \/ q.write \in pr2
  BY DEF Good, Extends
<1>5. QED
  BY <1>1, <1>2, <1>3, <1>4 DEF Good

\* The frame of every step: the tables extend, and who moves is good.
LEMMA Frame ==
  ASSUME WriteBackAssumption, IInv, Rest,
         Extends(receipt, done, presumed, receipt', done', presumed'), Store(receipt', done', presumed', issue'),
         req' \in [Requests -> Request], wire' \subseteq Requests \X Writes,
         \A r \in Requests : req'[r] = req[r] \/ Good(req'[r], receipt', done', presumed'),
         WireIsSent'
  PROVE  IInv'
<1>1. TypeOK'
  BY DEF Rest, Store, TypeOK
<1>2. RequestsGood'
  <2> SUFFICES ASSUME NEW r \in Requests PROVE Good(req'[r], receipt', done', presumed')
    BY DEF RequestsGood
  <2>1. req[r] \in Request /\ Good(req[r], receipt, done, presumed) /\ RouteWrites \subseteq Writes
    BY DEF IInv, TypeOK, RequestsGood, Writes
  <2>2. Good(req[r], receipt', done', presumed')
    BY <2>1, GoodStays
  <2>3. QED
    BY <2>2
<1>3. IssueFollowsGateway'
  BY <1>1 DEF Store, WireIsSent, IssueFollowsGateway, WriteBackAssumption, Writes
<1>4. AnswersAgree'
  BY <1>2 DEF RequestsGood, Good, Store, AnswersAgree
<1>5. QED
  BY <1>1, <1>2, <1>3, <1>4 DEF IInv

\* A request moves alone: it changes no table, and no call of it needs it in "sent".
LEMMA Moves ==
  ASSUME WriteBackAssumption, IInv, Rest, NEW r \in Requests, NEW q \in Request,
         req' = [req EXCEPT ![r] = q], UNCHANGED <<receipt, done, presumed, issue>>,
         wire' \subseteq wire, Good(q, receipt, done, presumed),
         \A w \in Writes : <<r, w>> \in wire' => q.pc \in {"answered", "updating", "over"}
  PROVE  IInv'
<1>1. Extends(receipt, done, presumed, receipt', done', presumed')
  BY DEF Extends
<1>2. Store(receipt', done', presumed', issue')
  BY StoreOfIInv DEF Store
<1>3. req \in [Requests -> Request] /\ wire \subseteq Requests \X Writes
  BY DEF IInv, TypeOK
<1>4. WireIsSent'
  BY <1>3 DEF IInv, WireIsSent
<1>5. QED
  BY <1>1, <1>2, <1>3, <1>4, Frame

\* The record of a request that is over.
LEMMA OverIsGood ==
  ASSUME WriteBackAssumption, NEW rc, NEW dn, NEW pr, NEW w \in Writes \cup {NoWrite},
         NEW a \in Answers,
         NEW s \in {"none"} \cup Receipts,
         s # "none" => w \in Writes /\ rc[w] # "none" /\ s = Shows(a, rc[w]),
         a = "success" /\ w \in RouteWrites => dn[w] # "none",
         NEW q, q = [NoRequest EXCEPT !.pc = "over", !.answer = a, !.write = w, !.shown = s]
  PROVE  q \in Request /\ q.pc = "over" /\ Good(q, rc, dn, pr)
<1>1. q = [pc |-> "over", write |-> w, header |-> NoWrite, status |-> "none",
           answer |-> a, shown |-> s]
  BY DEF NoRequest
<1>2. q \in Request
  BY <1>1 DEF Request, Receipts, Answers
<1>3. QED
  BY <1>1, <1>2 DEF Good, Asking, Calling

LEMMA OverStep ==
  ASSUME WriteBackAssumption, IInv, Rest, NEW r \in Requests, NEW w \in Writes \cup {NoWrite},
         NEW a \in Answers,
         NEW s \in {"none"} \cup Receipts, Ends(r, a, w, s),
         s # "none" => w \in Writes /\ receipt[w] # "none" /\ s = Shows(a, receipt[w]),
         a = "success" /\ w \in RouteWrites => done[w] # "none",
         UNCHANGED <<receipt, done, presumed, issue>>, wire' \subseteq wire
  PROVE  IInv'
<1> DEFINE q == [NoRequest EXCEPT !.pc = "over", !.answer = a, !.write = w, !.shown = s]
<1>1. q \in Request /\ q.pc = "over" /\ Good(q, receipt, done, presumed)
  BY OverIsGood
<1>2. req' = [req EXCEPT ![r] = q]
  BY DEF Ends
<1> HIDE DEF q
<1>3. QED
  BY <1>1, <1>2, Moves

\* The commonest end, without a receipt.
LEMMA PlainOver ==
  ASSUME WriteBackAssumption, IInv, Rest, NEW r \in Requests,
         NEW a \in Answers,
         Over(r, a), UNCHANGED <<receipt, done, presumed, issue>>, wire' \subseteq wire
  PROVE  IInv'
<1>1. Ends(r, a, NoWrite, "none") /\ NoWrite \notin RouteWrites
  BY DEF Over, WriteBackAssumption, Writes
<1>2. QED
  BY <1>1, OverStep

\* A request goes on: only its place changes.
LEMMA GoOn ==
  ASSUME WriteBackAssumption, IInv, Rest, NEW r \in Requests,
         NEW pc \in Asking \cup Calling \cup {"answered"},
         req[r].pc \in Asking \cup Calling, Goto(r, pc),
         pc \in Asking => req[r].write \in RouteWrites,
         pc \notin Asking => req[r].write \in ClientWrites,
         pc \in {"source", "answered"} => req[r].write \notin Held,
         pc = "client key" => req[r].header \in Writes,
         UNCHANGED <<receipt, done, presumed, issue>>, wire' \subseteq wire
  PROVE  IInv'
<1> DEFINE q == [req[r] EXCEPT !.pc = pc]
<1>1. req[r] \in Request /\ Good(req[r], receipt, done, presumed) /\ RouteWrites \cap ClientWrites = {}
  BY DEF IInv, TypeOK, RequestsGood, WriteBackAssumption
<1>2. q \in Request /\ q.pc = pc /\ q.write = req[r].write /\ q.answer = req[r].answer
      /\ q.header = req[r].header /\ q.shown = req[r].shown
  BY <1>1 DEF Request
<1>3. Good(q, receipt, done, presumed)
  BY <1>1, <1>2 DEF Good, Asking, Calling, Writes
<1>4. \A w \in Writes : <<r, w>> \notin wire
  BY DEF IInv, WireIsSent, Asking, Calling
<1>5. req' = [req EXCEPT ![r] = q]
  BY <1>1 DEF Goto, IInv, TypeOK
<1> HIDE DEF q
<1>6. QED
  BY <1>2, <1>3, <1>4, <1>5, Moves

\* Counters stay in their bounds.
LEMMA RestStays ==
  ASSUME WriteBackAssumption, IInv, Local, Fault \/ UNCHANGED faults PROVE Rest
BY DEF WriteBackAssumption, IInv, TypeOK, Local, Fault, Rest

\* A request that asks has no call under way.
LEMMA NoCallYet ==
  ASSUME IInv, NEW r \in Requests, req[r].pc \notin {"sent", "answered", "updating", "over"}
  PROVE  \A w \in Writes : <<r, w>> \notin wire
BY DEF IInv, WireIsSent

LEMMA FreshRecord ==
  ASSUME NEW pc, NEW w, NEW h, NEW q,
         \/ q = [NoRequest EXCEPT !.pc = pc, !.write = w, !.header = h]
         \/ q = [NoRequest EXCEPT !.pc = pc, !.write = w] /\ h = NoWrite
  PROVE  q = [pc |-> pc, write |-> w, header |-> h, status |-> "none", answer |-> "none",
              shown |-> "none"]
BY DEF NoRequest

LEMMA AskStep ==
  ASSUME WriteBackAssumption, IInv, NEW r \in Requests,
         \/ \E w \in RouteWrites, h \in Writes \cup {NoWrite} : Ask(r, w, h)
         \/ \E w \in ClientWrites : AskClient(r, w)
  PROVE  IInv'
<1>1. Rest
  BY RestStays DEF Ask, AskClient
<1>2. ASSUME NEW w \in Writes, NEW h \in Writes \cup {NoWrite}, NEW pc \in {"mode", "lookup"},
             pc = "mode" => w \in RouteWrites, pc = "lookup" => w \in ClientWrites,
             NEW q, q = [pc |-> pc, write |-> w, header |-> h, status |-> "none",
                         answer |-> "none", shown |-> "none"],
             req' = [req EXCEPT ![r] = q],
             req[r].pc = "idle", UNCHANGED <<receipt, done, presumed, issue, wire>>
      PROVE  IInv'
  <2>1. q \in Request /\ Good(q, receipt, done, presumed)
    BY <1>2 DEF Request, Good, Asking, Calling
  <2>2. \A v \in Writes : <<r, v>> \notin wire
    BY <1>2, NoCallYet
  <2>3. QED
    BY <1>1, <1>2, <2>1, <2>2, Moves
<1>3. ASSUME NEW w \in RouteWrites, NEW h \in Writes \cup {NoWrite}, Ask(r, w, h) PROVE IInv'
  <2> DEFINE q == [NoRequest EXCEPT !.pc = "mode", !.write = w, !.header = h]
  <2>1. /\ w \in Writes /\ req[r].pc = "idle" /\ UNCHANGED <<receipt, done, presumed, issue, wire>>
        /\ req' = [req EXCEPT ![r] = q]
    BY <1>3 DEF Ask, Local, Writes
  <2> HIDE DEF q
  <2>2. q = [pc |-> "mode", write |-> w, header |-> h, status |-> "none",
             answer |-> "none", shown |-> "none"]
    BY FreshRecord DEF q
  <2>3. QED
    BY <1>2, <2>1, <2>2
<1>4. ASSUME NEW w \in ClientWrites, AskClient(r, w) PROVE IInv'
  <2> DEFINE q == [NoRequest EXCEPT !.pc = "lookup", !.write = w]
  <2>1. /\ w \in Writes /\ req[r].pc = "idle" /\ UNCHANGED <<receipt, done, presumed, issue, wire>>
        /\ req' = [req EXCEPT ![r] = q]
    BY <1>4 DEF AskClient, Local, Writes
  <2> HIDE DEF q
  <2>2. q = [pc |-> "lookup", write |-> w, header |-> NoWrite, status |-> "none",
             answer |-> "none", shown |-> "none"]
    BY FreshRecord DEF q
  <2>3. QED
    BY <1>2, <2>1, <2>2
<1>5. QED
  BY <1>3, <1>4

LEMMA CheckModeStep ==
  ASSUME WriteBackAssumption, IInv, NEW r \in Requests, CheckMode(r) PROVE IInv'
<1>1. Rest /\ UNCHANGED <<receipt, done, presumed, issue, wire>> /\ req[r].pc = "mode"
  BY RestStays DEF CheckMode, Local
<1>2. req[r].write \in RouteWrites
  BY <1>1 DEF IInv, RequestsGood, Good, Asking
<1>3. CASE observe
  BY <1>1, <1>3, PlainOver DEF CheckMode, Answers
<1>4. CASE ~observe
  BY <1>1, <1>2, <1>4, GoOn DEF CheckMode, Asking, Calling
<1>5. QED
  BY <1>3, <1>4

LEMMA CheckConnectionStep ==
  ASSUME WriteBackAssumption, IInv, NEW r \in Requests, CheckConnection(r) PROVE IInv'
<1>1. Rest /\ UNCHANGED <<receipt, done, presumed, issue, wire>> /\ req[r].pc = "connection"
  BY RestStays DEF CheckConnection, Local
<1>2. req[r].write \in RouteWrites
  BY <1>1 DEF IInv, RequestsGood, Good, Asking
<1>3. CASE ~connected
  BY <1>1, <1>3, PlainOver DEF CheckConnection, Answers
<1>4. CASE connected
  <2> DEFINE pc == IF req[r].header = NoWrite THEN "key" ELSE "client key"
  <2>1. pc \in Asking /\ Goto(r, pc)
    BY <1>4 DEF CheckConnection, Asking
  <2>2. pc = "client key" => req[r].header \in Writes
    BY DEF IInv, TypeOK, Request
  <2> HIDE DEF pc
  <2>3. QED
    BY <1>1, <1>2, <2>1, <2>2, GoOn DEF Asking, Calling
<1>5. QED
  BY <1>3, <1>4

LEMMA LookupClientKeyStep ==
  ASSUME WriteBackAssumption, IInv, NEW r \in Requests, LookupClientKey(r) PROVE IInv'
<1> DEFINE h == req[r].header
<1>1. Rest /\ UNCHANGED <<receipt, done, presumed, issue, wire>> /\ req[r].pc = "client key"
  BY RestStays DEF LookupClientKey, Local
<1>2. req[r].write \in RouteWrites
  BY <1>1 DEF IInv, RequestsGood, Good, Asking
<1>3. CASE req' = [req EXCEPT ![r].pc = "key", ![r].header = NoWrite]
  <2> DEFINE q == [req[r] EXCEPT !.pc = "key", !.header = NoWrite]
  <2>1. /\ req \in [Requests -> Request] /\ req[r] \in Request
        /\ Good(req[r], receipt, done, presumed) /\ RouteWrites \cap ClientWrites = {}
    BY DEF IInv, TypeOK, RequestsGood, WriteBackAssumption
  <2>2. /\ q \in Request /\ q.pc = "key" /\ q.write = req[r].write /\ q.answer = req[r].answer
        /\ q.shown = req[r].shown
    BY <2>1 DEF Request, Asking
  <2>3. Good(q, receipt, done, presumed)
    BY <1>1, <1>2, <2>1, <2>2 DEF Good, Asking, Calling
  <2>4. req' = [req EXCEPT ![r] = q]
    BY <1>3, <2>1
  <2> HIDE DEF q
  <2>5. \A w \in Writes : <<r, w>> \notin wire
    BY <1>1, NoCallYet
  <2>6. QED
    BY <1>1, <2>2, <2>3, <2>4, <2>5, Moves
<1>4. CASE Over(r, "rejected")
  BY <1>1, <1>4, PlainOver DEF Answers
<1>5. CASE Ends(r, "replayed", h, receipt[h]) /\ receipt[h] # "none"
  <2>2. h \in Writes
    BY <1>1 DEF IInv, RequestsGood, Good
  <2>3. /\ receipt[h] \in {"none"} \cup Receipts /\ "replayed" \in Answers
        /\ Shows("replayed", receipt[h]) = receipt[h]
    BY <2>2 DEF IInv, TypeOK, Answers, Shows
  <2> HIDE DEF h
  <2>4. QED
    BY <1>1, <1>5, <2>2, <2>3, OverStep
<1>6. QED
  BY <1>3, <1>4, <1>5 DEF LookupClientKey

\* A request sends its call: the call carries the write it waits for, which is not held.
LEMMA SendStep ==
  ASSUME WriteBackAssumption, IInv, Rest, NEW r \in Requests, req[r].pc \in {"key", "source"},
         req[r].write \in Writes \ Held, Send(r), UNCHANGED <<receipt, done, presumed, issue>>
  PROVE  IInv'
<1> DEFINE q == [req[r] EXCEPT !.pc = "sent"]
<1>1. /\ req[r] \in Request /\ Good(req[r], receipt, done, presumed)
      /\ req \in [Requests -> Request] /\ wire \subseteq Requests \X Writes
  BY DEF IInv, TypeOK, RequestsGood
<1>2. q \in Request /\ q.pc = "sent" /\ q.write = req[r].write /\ q.answer = req[r].answer
      /\ q.shown = req[r].shown
  BY <1>1 DEF Request
<1>3. Good(q, receipt, done, presumed)
  BY <1>1, <1>2 DEF Good, Asking, Calling
<1>4. req' = [req EXCEPT ![r] = q] /\ wire' = wire \cup {<<r, q.write>>}
  BY <1>1, <1>2 DEF Send, Goto
<1> HIDE DEF q
<1>5. \A w \in Writes : <<r, w>> \notin wire
  BY NoCallYet
<1>6. WireIsSent'
  BY <1>1, <1>2, <1>4, <1>5 DEF IInv, WireIsSent
<1>7. /\ Extends(receipt, done, presumed, receipt', done', presumed')
      /\ Store(receipt', done', presumed', issue')
  BY StoreOfIInv DEF Extends, Store
<1>8. QED
  BY <1>1, <1>2, <1>3, <1>4, <1>6, <1>7, Frame

LEMMA LookupKeyStep ==
  ASSUME WriteBackAssumption, IInv, NEW r \in Requests, LookupKey(r) PROVE IInv'
<1> DEFINE w == req[r].write
<1>1. Rest /\ UNCHANGED <<receipt, done, presumed, issue>> /\ req[r].pc = "key"
  BY RestStays DEF LookupKey, Local
<1>2. w \in RouteWrites
  BY <1>1 DEF IInv, RequestsGood, Good, Asking
<1>3. w \in Writes \ Held
  BY <1>2 DEF WriteBackAssumption, Writes
<1>4. CASE receipt[w] # "none"
  <2>1. Ends(r, "replayed", w, receipt[w]) /\ wire' = wire
    BY <1>4 DEF LookupKey
  <2>2. /\ receipt[w] \in {"none"} \cup Receipts /\ "replayed" \in Answers
        /\ Shows("replayed", receipt[w]) = receipt[w]
    BY <1>3 DEF IInv, TypeOK, Answers, Shows
  <2> HIDE DEF w
  <2>3. QED
    BY <1>1, <1>3, <1>4, <2>1, <2>2, OverStep DEF w
<1>5. CASE receipt[w] = "none"
  BY <1>1, <1>3, <1>5, SendStep DEF LookupKey
<1>6. QED
  BY <1>4, <1>5

LEMMA AskFailsStep ==
  ASSUME WriteBackAssumption, IInv, NEW r \in Requests, AskFails(r) PROVE IInv'
<1>1. Rest /\ UNCHANGED <<receipt, done, presumed, issue, wire>> /\ Over(r, "error")
  BY RestStays DEF AskFails, Local
<1>2. QED
  BY <1>1, PlainOver DEF Answers

LEMMA LookupReceiptStep ==
  ASSUME WriteBackAssumption, IInv, NEW r \in Requests, LookupReceipt(r) PROVE IInv'
<1> DEFINE w == req[r].write
<1>1. Rest /\ UNCHANGED <<receipt, done, presumed, issue, wire>> /\ req[r].pc = "lookup"
  BY RestStays DEF LookupReceipt, Local
<1>2. w \in ClientWrites
  BY <1>1 DEF IInv, RequestsGood, Good, Calling
<1>3. CASE Goto(r, "approval")
  BY <1>1, <1>2, <1>3, GoOn DEF Asking, Calling
<1>4. CASE Ends(r, "repeated", w, ClientSays(receipt[w])) /\ receipt[w] # "none"
  <2>1. w \in Writes /\ w \notin RouteWrites
    BY <1>2 DEF Writes, WriteBackAssumption
  <2>2. /\ ClientSays(receipt[w]) \in {"none"} \cup Receipts /\ "repeated" \in Answers
        /\ Shows("repeated", receipt[w]) = ClientSays(receipt[w])
    BY DEF ClientSays, Receipts, Statuses, Answers, Shows
  <2> HIDE DEF w
  <2>3. QED
    BY <1>1, <1>4, <2>1, <2>2, OverStep
<1>5. QED
  BY <1>3, <1>4 DEF LookupReceipt

\* A record extends the receipts, and is there afterwards.
LEMMA RecordExtends ==
  ASSUME WriteBackAssumption, IInv, NEW w \in Writes, NEW s \in Receipts, Record(w, s),
         w \in RouteWrites /\ s = "completed" => done[w] = "completed" \/ w \in presumed,
         UNCHANGED <<done, presumed, issue>>
  PROVE  /\ Extends(receipt, done, presumed, receipt', done', presumed') /\ Store(receipt', done', presumed', issue')
         /\ receipt'[w] \in Receipts
<1>1. /\ receipt \in [Writes -> {"none"} \cup Receipts]
      /\ receipt' = [receipt EXCEPT ![w] = IF receipt[w] = "none" THEN s ELSE receipt[w]]
  BY DEF IInv, TypeOK, Record
<1>2. \A v \in Writes : receipt'[v] = IF v = w /\ receipt[v] = "none" THEN s ELSE receipt[v]
  BY <1>1
<1>3. receipt' \in [Writes -> {"none"} \cup Receipts]
  BY <1>1
<1>4. \A v \in RouteWrites : v \in Writes
  BY DEF Writes
<1>5. Extends(receipt, done, presumed, receipt', done', presumed')
  BY <1>2 DEF Extends
<1>6. "none" \notin Receipts
  BY DEF Receipts, Statuses
<1>7. Store(receipt', done', presumed', issue')
  BY <1>2, <1>3, <1>4, <1>6, StoreOfIInv DEF Store
<1>8. QED
  BY <1>1, <1>2, <1>5, <1>6, <1>7

\* A request that ends, or waits no more, after a change of the tables.
LEMMA TableStep ==
  ASSUME WriteBackAssumption, IInv, Rest, NEW r \in Requests, NEW q \in Request,
         req' = [req EXCEPT ![r] = q], q.pc \in {"answered", "updating", "over"},
         Good(q, receipt', done', presumed'), wire' \subseteq wire,
         Extends(receipt, done, presumed, receipt', done', presumed'), Store(receipt', done', presumed', issue')
  PROVE  IInv'
<1>1. req \in [Requests -> Request] /\ wire \subseteq Requests \X Writes
  BY DEF IInv, TypeOK
<1>2. WireIsSent'
  BY <1>1 DEF IInv, WireIsSent
<1>3. QED
  BY <1>1, <1>2, Frame

LEMMA EndStep ==
  ASSUME WriteBackAssumption, IInv, Rest, NEW r \in Requests, NEW w \in Writes \cup {NoWrite},
         NEW a \in Answers,
         NEW s \in {"none"} \cup Receipts, Ends(r, a, w, s),
         s # "none" => w \in Writes /\ receipt'[w] # "none" /\ s = Shows(a, receipt'[w]),
         a = "success" /\ w \in RouteWrites => done'[w] # "none",
         wire' \subseteq wire,
         Extends(receipt, done, presumed, receipt', done', presumed'), Store(receipt', done', presumed', issue')
  PROVE  IInv'
<1> DEFINE q == [NoRequest EXCEPT !.pc = "over", !.answer = a, !.write = w, !.shown = s]
<1>1. q \in Request /\ q.pc = "over" /\ Good(q, receipt', done', presumed')
  BY OverIsGood
<1>2. req' = [req EXCEPT ![r] = q]
  BY DEF Ends
<1> HIDE DEF q
<1>3. QED
  BY <1>1, <1>2, TableStep

\* The same without a receipt to show.
LEMMA PlainEnd ==
  ASSUME WriteBackAssumption, IInv, Rest, NEW r \in Requests,
         NEW a \in Answers,
         Over(r, a), wire' \subseteq wire,
         Extends(receipt, done, presumed, receipt', done', presumed'), Store(receipt', done', presumed', issue')
  PROVE  IInv'
<1>1. Ends(r, a, NoWrite, "none") /\ NoWrite \notin RouteWrites
  BY DEF Over, WriteBackAssumption, Writes
<1>2. QED
  BY <1>1, EndStep

LEMMA CheckApprovalStep ==
  ASSUME WriteBackAssumption, IInv, NEW r \in Requests, CheckApproval(r) PROVE IInv'
<1> DEFINE w == req[r].write
<1>1. /\ UNCHANGED <<done, presumed, issue, wire>> /\ req[r].pc = "approval" /\ Local
      /\ Fault \/ UNCHANGED faults
  BY DEF CheckApproval, Local
<1>2. Rest
  BY <1>1, RestStays
<1>3. w \in ClientWrites
  BY <1>1 DEF IInv, RequestsGood, Good, Calling
<1>4. w \in Writes /\ w \notin RouteWrites
  BY <1>3 DEF WriteBackAssumption, Writes
<1>5. CASE w \notin Held
  <2>1. Goto(r, "source") /\ UNCHANGED receipt
    BY <1>5 DEF CheckApproval
  <2>2. QED
    BY <1>1, <1>2, <1>3, <1>5, <2>1, GoOn DEF Asking, Calling
<1>6. w \in Held => Ends(r, "awaiting", w, "none")
  BY DEF CheckApproval
<1>7. "awaiting" \in Answers
  BY DEF Answers
<1>8. CASE w \in Held /\ UNCHANGED receipt
  <2> HIDE DEF w
  <2>1. QED
    BY <1>1, <1>2, <1>4, <1>6, <1>7, <1>8, OverStep
<1>9. CASE w \in Held /\ Record(w, "awaiting_approval")
  <2>1. /\ Extends(receipt, done, presumed, receipt', done', presumed')
        /\ Store(receipt', done', presumed', issue')
    BY <1>1, <1>4, <1>9, RecordExtends DEF Receipts, Local
  <2> HIDE DEF w
  <2>2. QED
    BY <1>1, <1>2, <1>4, <1>6, <1>7, <1>9, <2>1, EndStep
<1>10. QED
  BY <1>5, <1>8, <1>9 DEF CheckApproval

LEMMA CheckSourceStep ==
  ASSUME WriteBackAssumption, IInv, NEW r \in Requests, CheckSource(r) PROVE IInv'
<1>1. /\ UNCHANGED <<receipt, done, presumed, issue>> /\ req[r].pc = "source" /\ Local
      /\ Fault \/ UNCHANGED faults
  BY DEF CheckSource, Local
<1>2. Rest
  BY <1>1, RestStays
<1>3. req[r].write \in ClientWrites /\ req[r].write \in Writes \ Held
  BY <1>1 DEF IInv, RequestsGood, Good, Calling
<1>4. CASE Send(r)
  BY <1>1, <1>2, <1>3, <1>4, SendStep
<1>5. CASE Goto(r, "answered") /\ UNCHANGED wire
  BY <1>1, <1>2, <1>3, <1>5, GoOn DEF Asking, Calling
<1>6. QED
  BY <1>4, <1>5 DEF CheckSource

LEMMA CallThrowsStep ==
  ASSUME WriteBackAssumption, IInv, NEW r \in Requests, CallThrows(r) PROVE IInv'
<1>1. Rest /\ UNCHANGED <<receipt, done, presumed, issue>> /\ wire' \subseteq wire
  BY RestStays DEF CallThrows, Local
<1>2. Over(r, "error") \/ Over(r, "failed")
  BY DEF CallThrows
<1>3. QED
  BY <1>1, <1>2, PlainOver DEF Answers

\* The gateway's record of a write that is not held may grow, and keeps what was completed.
LEMMA DoneExtends ==
  ASSUME WriteBackAssumption, IInv, NEW w \in Writes, w \notin Held, NEW s \in Statuses,
         done[w] = "completed" => s = "completed",
         done' = [done EXCEPT ![w] = s], UNCHANGED <<receipt, issue>>,
         presumed \subseteq presumed', presumed' \subseteq Writes
  PROVE  /\ Extends(receipt, done, presumed, receipt', done', presumed')
         /\ Store(receipt', done', presumed', issue')
<1>1. done \in [Writes -> {"none"} \cup Statuses]
  BY DEF IInv, TypeOK
<1>2. \A v \in Writes : done'[v] = IF v = w THEN s ELSE done[v]
  BY <1>1
<1>3. done' \in [Writes -> {"none"} \cup Statuses]
  BY <1>1
<1>4. s # "none"
  BY DEF Statuses
<1>5. (\A v \in RouteWrites : v \in Writes) /\ \A v \in Held : v \in Writes
  BY DEF Writes, WriteBackAssumption
<1>6. Extends(receipt, done, presumed, receipt', done', presumed')
  BY <1>2, <1>4 DEF Extends
<1>7. Store(receipt', done', presumed', issue')
  BY <1>2, <1>3, <1>5, StoreOfIInv DEF Store
<1>8. QED
  BY <1>6, <1>7

LEMMA GatewayExecutesStep ==
  ASSUME WriteBackAssumption, IInv, NEW r \in Requests, NEW w \in Writes, GatewayExecutes(r, w)
  PROVE  IInv'
<1>1. PICK s \in Statuses, says \in Statuses \cup {"unnamed"} :
        /\ done[w] \in {"accepted", "completed"} => s = done[w]
        /\ done' = [done EXCEPT ![w] = s]
        /\ Answer(r, w, s, says)
  BY DEF GatewayExecutes
<1>2. /\ <<r, w>> \in wire /\ w \notin Held /\ UNCHANGED <<receipt, issue>>
      /\ req[r].pc = "sent" => req[r].write = w
  BY DEF GatewayExecutes, IInv, WireIsSent
<1>3. Rest
  BY DEF GatewayExecutes, IInv, TypeOK, Rest
<1>4. presumed \subseteq presumed' /\ presumed' \subseteq Writes
  BY <1>1 DEF Answer, IInv, TypeOK
<1>5. /\ Extends(receipt, done, presumed, receipt', done', presumed')
      /\ Store(receipt', done', presumed', issue')
  BY <1>1, <1>2, <1>4, DoneExtends
<1>6. wire' \subseteq wire /\ wire \subseteq Requests \X Writes /\ req \in [Requests -> Request]
      /\ req[r] \in Request /\ Good(req[r], receipt, done, presumed)
  BY <1>1 DEF Answer, IInv, TypeOK, RequestsGood
<1>7. CASE req[r].pc # "sent"
  <2>1. req' = req
    BY <1>1, <1>7 DEF Answer
  <2>2. WireIsSent'
    BY <1>6, <2>1 DEF IInv, WireIsSent
  <2>3. QED
    BY <1>3, <1>5, <1>6, <2>1, <2>2, Frame
<1>8. CASE req[r].pc = "sent"
  <2> DEFINE u == Understood(says)
  <2> DEFINE q == [req[r] EXCEPT !.pc = "answered", !.status = u]
  <2>1. u \in Statuses
    BY DEF Understood, Statuses
  <2>2. u = s \/ w \in presumed'
    BY <1>1, <1>8 DEF Answer
  <2>3. req' = [req EXCEPT ![r] = q]
    BY <1>1, <1>6, <1>8 DEF Answer
  <2> HIDE DEF u
  <2>4. q \in Request /\ q.pc = "answered" /\ q.status = u /\ q.write = w
        /\ q.answer = req[r].answer /\ q.shown = req[r].shown
    BY <1>2, <1>6, <1>8, <2>1 DEF Request
  <2>5. done'[w] = s /\ s # "none" /\ u # "none"
    BY <1>1, <2>1 DEF IInv, TypeOK, Statuses
  <2>6. Good(q, receipt', done', presumed')
    BY <1>2, <1>6, <1>8, <2>2, <2>4, <2>5 DEF Good, Asking, Calling
  <2> HIDE DEF q
  <2>7. QED
    BY <1>3, <1>5, <1>6, <2>3, <2>4, <2>6, TableStep
<1>9. QED
  BY <1>7, <1>8

LEMMA GatewayFinishesStep ==
  ASSUME WriteBackAssumption, IInv, NEW w \in Writes, GatewayFinishes(w) PROVE IInv'
<1>1. PICK s \in {"failed", "completed"} : done' = [done EXCEPT ![w] = s]
  BY DEF GatewayFinishes
<1>2. done[w] = "accepted" /\ UNCHANGED <<receipt, issue, req, wire, presumed>>
  BY DEF GatewayFinishes
<1>3. Rest
  BY DEF GatewayFinishes, IInv, TypeOK, Rest
<1>4. w \notin Held /\ s \in Statuses
  BY <1>2 DEF IInv, IssueFollowsGateway, Statuses
<1>5. /\ Extends(receipt, done, presumed, receipt', done', presumed')
      /\ Store(receipt', done', presumed', issue')
  BY <1>1, <1>2, <1>4, DoneExtends DEF IInv, TypeOK
<1>6. WireIsSent' /\ wire' \subseteq Requests \X Writes /\ req' \in [Requests -> Request]
  BY <1>2 DEF IInv, TypeOK, WireIsSent
<1>7. QED
  BY <1>2, <1>3, <1>5, <1>6, Frame

LEMMA RecordAnswerStep ==
  ASSUME WriteBackAssumption, IInv, NEW r \in Requests, RecordAnswer(r) PROVE IInv'
<1> DEFINE w == req[r].write
           s == req[r].status
           a == IF s = "failed" THEN "failed" ELSE "success"
<1>1. Rest /\ UNCHANGED <<done, presumed, issue, wire>> /\ req[r].pc = "answered" /\ w \in RouteWrites
      /\ Record(w, s)
  BY RestStays DEF RecordAnswer, Local
<1>2. /\ req \in [Requests -> Request] /\ req[r] \in Request /\ Good(req[r], receipt, done, presumed)
      /\ w \in Writes /\ w \notin Held
  BY <1>1 DEF IInv, TypeOK, RequestsGood, Writes, WriteBackAssumption
<1>3. /\ s \in Statuses /\ s \in Receipts /\ done[w] # "none"
      /\ s = "completed" => done[w] = "completed" \/ w \in presumed
  BY <1>1, <1>2 DEF Request, Good, Receipts
<1>4. /\ Extends(receipt, done, presumed, receipt', done', presumed') /\ Store(receipt', done', presumed', issue')
      /\ receipt'[w] \in Receipts
  BY <1>1, <1>2, <1>3, RecordExtends
<1>5. CASE Terminal(s)
  <2> DEFINE q == [req[r] EXCEPT !.pc = "updating", !.shown = receipt'[w]]
  <2>1. req' = [req EXCEPT ![r] = q]
    BY <1>2, <1>5 DEF RecordAnswer
  <2>2. q \in Request /\ q.pc = "updating" /\ q.write = w /\ q.answer = req[r].answer
        /\ q.shown = receipt'[w]
    BY <1>2, <1>4 DEF Request
  <2>3. /\ done'[w] # "none" /\ (done'[w] = "completed" \/ w \in presumed') /\ receipt'[w] # "none"
        /\ Shows("none", receipt'[w]) = receipt'[w]
    BY <1>1, <1>3, <1>4, <1>5 DEF Terminal, Receipts, Statuses, Shows
  <2> HIDE DEF w, s
  <2>4. Good(q, receipt', done', presumed')
    <3> HIDE DEF q
    <3>1. q.answer = "none"
      BY <1>1, <1>2, <2>2 DEF Good
    <3>2. QED
      BY <1>1, <1>2, <2>2, <2>3, <3>1 DEF Good, Asking, Calling
  <2> HIDE DEF q
  <2>5. QED
    BY <1>1, <1>4, <2>1, <2>2, <2>4, TableStep
<1>6. CASE ~Terminal(s)
  <2> DEFINE x == receipt'[w]
  <2>1. Ends(r, a, w, x)
    BY <1>6 DEF RecordAnswer
  <2>2. a \in Answers
    BY DEF Answers
  <2>3. /\ done'[w] # "none" /\ x \in {"none"} \cup Receipts /\ w \in Writes
        /\ receipt'[w] # "none" /\ x = Shows(a, receipt'[w])
    BY <1>1, <1>2, <1>3, <1>4 DEF Shows, Receipts, Statuses
  <2>4. wire' \subseteq wire
    BY <1>1
  <2> HIDE DEF a, w, s, x
  <2>5. QED
    BY <1>1, <1>4, <2>1, <2>2, <2>3, <2>4, EndStep
<1>7. QED
  BY <1>5, <1>6

\* The issue may show a completed write with a receipt.
LEMMA ShowStores ==
  ASSUME WriteBackAssumption, IInv, NEW w \in RouteWrites, receipt[w] # "none",
         done[w] = "completed" \/ w \in presumed, Show(w), UNCHANGED <<receipt, done, presumed>>
  PROVE  /\ Extends(receipt, done, presumed, receipt', done', presumed')
         /\ Store(receipt', done', presumed', issue')
BY StoreOfIInv DEF Show, Extends, Store

LEMMA UpdateIssueStep ==
  ASSUME WriteBackAssumption, IInv, NEW r \in Requests, UpdateIssue(r) PROVE IInv'
<1> DEFINE w == req[r].write
           s == req[r].shown
<1>1. /\ Rest /\ UNCHANGED <<receipt, done, presumed, wire>> /\ req[r].pc = "updating" /\ Show(w)
      /\ Ends(r, "success", w, s)
  BY RestStays DEF UpdateIssue, Local
<1>2. req[r] \in Request /\ Good(req[r], receipt, done, presumed)
  BY DEF IInv, TypeOK, RequestsGood
<1>3. /\ w \in RouteWrites /\ w \in Writes /\ done[w] # "none" /\ receipt[w] # "none"
      /\ done[w] = "completed" \/ w \in presumed
      /\ s \in {"none"} \cup Receipts /\ (s # "none" => s = Shows("success", receipt[w]))
      /\ "success" \in Answers
  BY <1>1, <1>2 DEF Good, Request, Writes, Shows, Answers
<1> HIDE DEF w, s
<1>4. /\ Extends(receipt, done, presumed, receipt', done', presumed')
      /\ Store(receipt', done', presumed', issue')
  BY <1>1, <1>3, ShowStores
<1>5. QED
  BY <1>1, <1>3, <1>4, EndStep

LEMMA RecordExecutedStep ==
  ASSUME WriteBackAssumption, IInv, NEW r \in Requests, RecordExecuted(r) PROVE IInv'
<1> DEFINE w == req[r].write
<1>1. /\ UNCHANGED <<done, presumed, issue, wire>> /\ Local /\ Over(r, "success")
      /\ Fault \/ UNCHANGED faults
      /\ Record(w, "executed") \/ UNCHANGED receipt
      /\ w \in ClientWrites
  BY DEF RecordExecuted, Local
<1>2. Rest
  BY <1>1, RestStays
<1>3. w \in Writes /\ w \notin RouteWrites
  BY <1>1 DEF WriteBackAssumption, Writes
<1>4. CASE UNCHANGED receipt
  BY <1>1, <1>2, <1>4, PlainOver DEF Local, Answers
<1>5. CASE Record(w, "executed")
  <2>1. /\ Extends(receipt, done, presumed, receipt', done', presumed')
        /\ Store(receipt', done', presumed', issue')
    BY <1>1, <1>3, <1>5, RecordExtends DEF Receipts
  <2>2. QED
    BY <1>1, <1>2, <2>1, PlainEnd DEF Answers
<1>6. QED
  BY <1>1, <1>4, <1>5

LEMMA FinishFailsStep ==
  ASSUME WriteBackAssumption, IInv, NEW r \in Requests, FinishFails(r) PROVE IInv'
<1> DEFINE w == req[r].write
           s == req[r].status
<1>1. Rest /\ UNCHANGED <<done, presumed, wire>> /\ Over(r, "error") /\ w \in RouteWrites
  BY RestStays DEF FinishFails, Local
<1>2. /\ req[r] \in Request /\ Good(req[r], receipt, done, presumed) /\ w \in Writes
  BY <1>1 DEF IInv, TypeOK, RequestsGood, Writes
<1>3. CASE UNCHANGED <<receipt, issue>>
  BY <1>1, <1>3, PlainOver DEF Answers
<1>4. CASE req[r].pc = "answered" /\ Record(w, s) /\ UNCHANGED issue
  <2>1. s \in Receipts /\ (s = "completed" => done[w] = "completed" \/ w \in presumed)
    BY <1>1, <1>2, <1>4 DEF Request, Good, Receipts
  <2>2. /\ Extends(receipt, done, presumed, receipt', done', presumed')
        /\ Store(receipt', done', presumed', issue')
    BY <1>1, <1>2, <1>4, <2>1, RecordExtends
  <2>3. QED
    BY <1>1, <2>2, PlainEnd DEF Answers
<1>5. CASE req[r].pc = "updating" /\ Show(w) /\ UNCHANGED receipt
  <2>1. (done[w] = "completed" \/ w \in presumed) /\ receipt[w] # "none"
    BY <1>2, <1>5 DEF Good
  <2>2. /\ Extends(receipt, done, presumed, receipt', done', presumed')
        /\ Store(receipt', done', presumed', issue')
    BY <1>1, <1>5, <2>1, ShowStores
  <2>3. QED
    BY <1>1, <2>2, PlainEnd DEF Answers
<1>6. QED
  BY <1>3, <1>4, <1>5 DEF FinishFails

\* Steps that touch neither tables nor requests.
LEMMA OutsideStep ==
  ASSUME WriteBackAssumption, IInv, SetMode \/ SetConnection \/ UNCHANGED vars PROVE IInv'
<1>1. UNCHANGED <<receipt, done, presumed, issue, req, wire>>
  BY DEF SetMode, SetConnection, vars
<1>2. Rest
  <2>1. observe \in BOOLEAN /\ connected \in BOOLEAN /\ moves \in 0 .. MaxMoves
        /\ faults \in 0 .. MaxFaults /\ MaxMoves \in Nat
    BY DEF IInv, TypeOK, WriteBackAssumption
  <2>2. observe' \in BOOLEAN /\ connected' \in BOOLEAN
    BY <2>1, Zenon DEF SetMode, SetConnection, vars
  <2>3. moves' \in 0 .. MaxMoves
    BY <2>1 DEF SetMode, SetConnection, vars, Move
  <2>4. faults' \in 0 .. MaxFaults
    BY <2>1 DEF SetMode, SetConnection, vars
  <2>5. QED
    BY <2>2, <2>3, <2>4 DEF Rest
<1>3. /\ Extends(receipt, done, presumed, receipt', done', presumed')
      /\ Store(receipt', done', presumed', issue')
  BY <1>1, StoreOfIInv DEF Extends, Store
<1>4. WireIsSent' /\ wire' \subseteq Requests \X Writes /\ req' \in [Requests -> Request]
  BY <1>1 DEF IInv, TypeOK, WireIsSent
<1>5. QED
  BY <1>1, <1>2, <1>3, <1>4, Frame

LEMMA NextKeeps == ASSUME WriteBackAssumption, IInv, [Next]_vars PROVE IInv'
<1>1. ASSUME NEW r \in Requests, RouteStep(r) PROVE IInv'
  BY <1>1, AskStep, CheckModeStep, CheckConnectionStep, LookupClientKeyStep, LookupKeyStep,
     AskFailsStep, RecordAnswerStep, UpdateIssueStep, FinishFailsStep DEF RouteStep
<1>2. ASSUME NEW r \in Requests, ClientStep(r) PROVE IInv'
  BY <1>2, AskStep, LookupReceiptStep, CheckApprovalStep, CheckSourceStep, RecordExecutedStep
  DEF ClientStep
<1>3. QED
  BY <1>1, <1>2, CallThrowsStep, GatewayExecutesStep, GatewayFinishesStep, OutsideStep DEF Next

LEMMA Init_IInv == ASSUME WriteBackAssumption, Init PROVE IInv
<1>1. NoRequest \in Request
  BY DEF NoRequest, Request
<1>2. TypeOK
  <2>1. observe \in BOOLEAN /\ connected \in BOOLEAN
    BY Zenon DEF Init
  <2>2. moves \in 0 .. MaxMoves /\ faults \in 0 .. MaxFaults
    BY DEF Init, WriteBackAssumption
  <2>3. /\ receipt \in [Writes -> {"none"} \cup Receipts]
        /\ done \in [Writes -> {"none"} \cup Statuses]
    BY DEF Init
  <2>4. issue \in RouteWrites \cup {NoWrite} /\ wire \subseteq Requests \X Writes /\ presumed \subseteq Writes
        /\ req \in [Requests -> Request]
    BY <1>1 DEF Init
  <2>5. QED
    BY <2>1, <2>2, <2>3, <2>4 DEF TypeOK
<1>3. \A r \in Requests : req[r].pc = "idle" /\ req[r].shown = "none" /\ req[r].answer = "none"
  BY DEF Init, NoRequest
<1>4. RequestsGood
  BY <1>3 DEF RequestsGood, Good, Asking, Calling
<1>5. WireIsSent
  BY DEF Init, WireIsSent
<1>6. RouteWrites \subseteq Writes /\ Held \subseteq Writes
  BY DEF Writes, WriteBackAssumption
<1>7. IssueFollowsGateway
  BY <1>6 DEF Init, IssueFollowsGateway
<1>8. AnswersAgree
  BY <1>3, <1>6 DEF Init, AnswersAgree
<1>9. QED
  BY <1>2, <1>4, <1>5, <1>7, <1>8 DEF IInv

\* The inductive invariant holds of every execution of the two write-back paths.
THEOREM InductiveInvariant == Spec => []IInv
<1>1. Init => IInv
  BY WriteBackAssumption, Init_IInv
<1>2. IInv /\ [Next]_vars => IInv'
  BY WriteBackAssumption, NextKeeps
<1>3. QED
  BY <1>1, <1>2, PTL DEF Spec

\* However many requests of a write race, are lost, come late or are retried, the local issue
\* shows only what the gateway completed or answered without a status, which the HTTP client
\* takes for completed, and a held operation never reaches the gateway.
THEOREM IssueIsTrue == Spec => []IssueFollowsGateway
<1>1. IInv => IssueFollowsGateway
  BY DEF IInv
<1>2. QED
  BY <1>1, InductiveInvariant, PTL

\* All answers of one key come from the receipt stored first, as it is or as the client puts
\* it; a completed receipt of the route is true or was presumed from an answer without a
\* status, and the gateway has handled what the route called a success.
THEOREM AnswersAreTrue == Spec => []AnswersAgree
<1>1. IInv => AnswersAgree
  BY DEF IInv
<1>2. QED
  BY <1>1, InductiveInvariant, PTL

\* What stays for ever: receipts, and what the gateway completed.
Final ==
  \A w \in Writes :
    /\ receipt[w] # "none" => receipt'[w] = receipt[w]
    /\ done[w] = "completed" => done'[w] = "completed"

\* A receipt is written once, and no retry, late call or second request of a write takes back
\* what the gateway completed.
THEOREM ReceiptsAreFinal == Spec => [][Final]_vars
<1>1. ASSUME IInv, Next PROVE Final
  <2> USE DEF Final, IInv, TypeOK
  <2>1. ASSUME NEW r \in Requests, RouteStep(r) PROVE Final
    BY <1>1, <2>1 DEF RouteStep, Ask, CheckMode, CheckConnection, LookupClientKey, LookupKey,
       AskFails, RecordAnswer, UpdateIssue, FinishFails, Record, Local
  <2>2. ASSUME NEW r \in Requests, ClientStep(r) PROVE Final
    BY <1>1, <2>2 DEF ClientStep, AskClient, LookupReceipt, CheckApproval, CheckSource,
       RecordExecuted, Record, Local
  <2>3. ASSUME NEW r \in Requests, NEW w \in Writes, GatewayExecutes(r, w) PROVE Final
    BY <1>1, <2>3 DEF GatewayExecutes
  <2>4. ASSUME NEW w \in Writes, GatewayFinishes(w) PROVE Final
    BY <1>1, <2>4 DEF GatewayFinishes
  <2>5. ASSUME NEW r \in Requests, CallThrows(r) PROVE Final
    BY <1>1, <2>5 DEF CallThrows, Local
  <2>6. CASE SetMode \/ SetConnection
    BY <2>6 DEF SetMode, SetConnection
  <2>7. QED
    BY <1>1, <2>1, <2>2, <2>3, <2>4, <2>5, <2>6 DEF Next
<1>2. IInv /\ [Next]_vars => [Final]_vars
  BY <1>1
<1>3. QED
  BY <1>2, InductiveInvariant, PTL DEF Spec
=============================================================================
