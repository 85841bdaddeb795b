---------------------------- MODULE ChatLiveProofs -----------------------------
(***************************************************************************)
(* Proofs about ChatLive for any numbers of messages, commits and faults   *)
(* and any sizes of a page, a replay, the stream and the view.             *)
(*                                                                         *)
(* The argument: the cursor moves only when a page is taken, and one fetch *)
(* is in flight at a time, so a page still begins at the cursor when it    *)
(* arrives (PageFits).  What is announced while the handler is not yet     *)
(* live is in the stream or was trimmed from it, so the replay after the   *)
(* subscription sends it, or was full before it, or the browser had it     *)
(* (StreamSound), and what is announced later reaches the live connection, *)
(* or the subscriber is marked to have missed it.                          *)
(***************************************************************************)
EXTENDS ChatLive, FiniteSetTheorems, TLAPS

FetchType == [stage : {"idle", "sent", "read"}, page : (1 .. MaxMsg + 1) \X (0 .. MaxMsg),
              online : BOOLEAN]

\* The events whose publication is not paid for.
Fresh == {e \in Events : outbox[e] \in {"absent", "pending", "leased"}}

-----------------------------------------------------------------------------
(* Sequences, numbers, sets.                                               *)

LEMMA Numbers ==
  ASSUME TypeOK
  PROVE  /\ MaxMsg \in Nat \ {0} /\ MaxCommits \in Nat \ {0} /\ Page \in Nat \ {0} /\ MaxFaults \in Nat
         /\ Keep \in Nat \ {0} /\ ReplayMax \in Nat \ {0}
         /\ msgs \in Nat /\ cursor \in Nat /\ faults \in Nat /\ log \in Nat /\ since \in Nat /\ lastId \in Nat
         /\ \A e \in Events : entry[e] \in Nat
         /\ Entries \subseteq Nat \ {0} /\ oldest \in Nat \ {0}
         /\ block \in Blocks /\ due \in Blocks /\ block.id \in Nat /\ due.id \in Nat
<1>1. /\ MaxMsg \in Nat \ {0} /\ MaxCommits \in Nat \ {0} /\ Page \in Nat \ {0} /\ MaxFaults \in Nat
      /\ Keep \in Nat \ {0} /\ ReplayMax \in Nat \ {0} /\ Entries \subseteq Nat \ {0}
  BY ChatAssumption DEF Entries
<1>2. {0} \cup Entries \subseteq Nat
  BY <1>1
<1>3. block \in Blocks /\ due \in Blocks
  BY DEF TypeOK, Blocks
<1>4. block.id \in Nat /\ due.id \in Nat
  BY <1>2, <1>3 DEF Blocks
<1>5. msgs \in Nat /\ cursor \in Nat /\ faults \in Nat
  BY <1>1 DEF TypeOK
<1>6. /\ log \in Nat /\ since \in Nat /\ lastId \in Nat /\ oldest \in Nat \ {0}
      /\ \A e \in Events : entry[e] \in Nat
  BY <1>1, <1>2 DEF TypeOK
<1>7. QED
  BY <1>1, <1>3, <1>4, <1>5, <1>6

\* A block of frames is one of the types with a known id.
LEMMA BlockTyped ==
  ASSUME NEW ty \in {"none", "chat", "ready", "degraded"}, NEW id \in {0} \cup Entries
  PROVE  [type |-> ty, id |-> id] \in Blocks
BY DEF Blocks

LEMMA Fetch ==
  ASSUME TypeOK
  PROVE  /\ fetch \in FetchType /\ fetch.stage \in {"idle", "sent", "read"}
         /\ fetch.page[1] \in 1 .. MaxMsg + 1 /\ fetch.page[2] \in 0 .. MaxMsg
         /\ fetch.online \in BOOLEAN
BY DEF TypeOK, FetchType

LEMMA FetchTyped ==
  ASSUME NEW st \in {"idle", "sent", "read"}, NEW lo \in 1 .. MaxMsg + 1, NEW hi \in 0 .. MaxMsg,
         NEW on \in BOOLEAN
  PROVE  [stage |-> st, page |-> <<lo, hi>>, online |-> on] \in FetchType
BY DEF FetchType

LEMMA NoPageTyped == NoFetch \in FetchType /\ \A on \in BOOLEAN : Begin(on) \in FetchType
<1>1. 1 \in 1 .. MaxMsg + 1 /\ 0 \in 0 .. MaxMsg
  BY ChatAssumption
<1>2. \A on \in BOOLEAN : Begin(on) \in FetchType
  BY <1>1, FetchTyped DEF NoPage, Begin
<1>3. NoFetch \in FetchType
  BY <1>1, FetchTyped DEF NoPage, NoFetch
<1>4. QED
  BY <1>2, <1>3

LEMMA FreshCount ==
  /\ IsFiniteSet(Fresh) /\ Cardinality(Fresh) \in Nat
  /\ IsFiniteSet(Fresh') /\ Cardinality(Fresh') \in Nat
<1>1. IsFiniteSet(Events)
  BY ChatAssumption, FS_Interval DEF Events
<1>2. Fresh \subseteq Events /\ Fresh' \subseteq Events
  BY DEF Fresh
<1>3. IsFiniteSet(Fresh) /\ IsFiniteSet(Fresh')
  BY <1>1, <1>2, FS_Subset
<1>4. QED
  BY <1>3, FS_CardinalityType

\* What the invariant says of the stream, with the unpaid events named.
LEMMA Stream ==
  StreamSound <=>
    /\ log + Cardinality(Fresh) <= MaxCommits + faults
    /\ \A e \in Events :
         /\ entry[e] <= log
         /\ outbox[e] \in {"streamed", "announced", "completed"} => entry[e] # 0
    /\ block.id <= log /\ due.id <= log /\ lastId <= log /\ since <= log
BY DEF StreamSound, Fresh

-----------------------------------------------------------------------------
(* Steps of the hook and of the route.                                     *)

\* A step that leaves the relay and the view alone.
LEMMA LocalStep ==
  ASSUME IInv, TypeOK', UNCHANGED <<relayVars, cursor, shown>>,
         faults' = faults \/ faults' = faults + 1, PageFits',
         block'.id <= log, due'.id <= log, lastId' <= log, since' <= log,
         Told'
  PROVE  IInv'
<1>1. Fresh' = Fresh /\ UNCHANGED <<log, entry, outbox>>
  BY DEF Fresh, relayVars
<1>2. StreamSound'
  <2>1. log + Cardinality(Fresh) <= MaxCommits + faults'
    BY Numbers, FreshCount, Stream DEF IInv
  <2>2. log' + Cardinality(Fresh)' <= MaxCommits + faults'
    BY <1>1, <2>1
  <2>3. QED
    BY <1>1, <2>2, Stream DEF IInv, StreamSound, Fresh
<1>3. ShownWithoutHoles'
  BY DEF IInv, ShownWithoutHoles
<1>4. QED
  BY <1>2, <1>3 DEF IInv

\* A fault is counted within its bound.
LEMMA FaultCounted ==
  ASSUME IInv, Fault
  PROVE  faults' = faults + 1 /\ faults' \in 0 .. MaxFaults
BY Numbers DEF IInv, Fault

LEMMA Refreshed ==
  ASSUME IInv, NEW on \in BOOLEAN, RefreshBy(on)
  PROVE  /\ woken' = msgs /\ woken' \in 0 .. MaxMsg /\ fetch' \in FetchType
         /\ fetch' = fetch \/ fetch'.stage = "sent"
<1>1. woken' = msgs /\ fetch' = IF fetch.stage = "idle" THEN Begin(on) ELSE fetch
  BY DEF RefreshBy
<1>2. fetch \in FetchType /\ msgs \in 0 .. MaxMsg
  BY Fetch DEF IInv, TypeOK
<1>3. Begin(on).stage = "sent"
  BY DEF Begin
<1>4. QED
  BY <1>1, <1>2, <1>3, NoPageTyped

\* The fetch in flight goes on, is dropped or begins anew.
LEMMA PageKept ==
  ASSUME IInv, UNCHANGED <<msgs, cursor>>, fetch' = fetch \/ fetch'.stage # "read"
  PROVE  PageFits'
BY DEF IInv, PageFits

LEMMA ToldKept ==
  ASSUME IInv, UNCHANGED <<outbox, entry, oldest, conn, since, sent, missed>> \/ conn' # "live"
  PROVE  Told'
BY DEF IInv, Told, Reached, LeftBehind

\* What the hook does with its fetches: it leaves the events alone.
LEMMA HookStep ==
  ASSUME IInv, UNCHANGED <<relayVars, connVars, wireVars, lastId, cursor, shown>>,
         faults' = faults \/ Fault, es' \in {"connecting", "open", "error", "closed"}, polling' \in BOOLEAN,
         woken' \in 0 .. MaxMsg, fetch' \in FetchType, PageFits'
  PROVE  IInv'
<1>1. faults' \in 0 .. MaxFaults /\ (faults' = faults \/ faults' = faults + 1)
  BY FaultCounted DEF IInv, TypeOK
<1>2. TypeOK'
  BY <1>1 DEF IInv, TypeOK, FetchType, relayVars, connVars, wireVars
<1>3. Told'
  BY ToldKept DEF relayVars, connVars
<1>4. block'.id <= log /\ due'.id <= log /\ lastId' <= log /\ since' <= log
  BY Stream DEF IInv, connVars, wireVars
<1>5. QED
  BY <1>1, <1>2, <1>3, <1>4, LocalStep

LEMMA ReadPageKeeps ==
  ASSUME IInv, ReadPage
  PROVE  IInv'
<1> DEFINE page == IF cursor = 0 THEN PageTail ELSE PageAfter(cursor)
<1>1. TypeOK /\ msgs \in 1 .. MaxMsg /\ cursor \in 0 .. msgs
  BY Numbers DEF IInv, TypeOK, PageFits
<1>2. PICK lo \in 1 .. MaxMsg + 1, hi \in 0 .. MaxMsg :
        page = <<lo, hi>> /\ hi <= msgs /\ (cursor = 0 \/ lo = cursor + 1)
  <2>1. CASE cursor = 0
    <3>1. PICK lo \in 1 .. MaxMsg + 1 : lo = IF msgs > Page THEN msgs - Page + 1 ELSE 1
      BY <1>1, Numbers
    <3>2. page = <<lo, msgs>> /\ msgs \in 0 .. MaxMsg /\ msgs <= msgs
      BY <1>1, <2>1, <3>1 DEF PageTail
    <3>3. QED
      BY <2>1, <3>2
  <2>2. CASE cursor # 0
    <3>1. PICK hi \in 0 .. MaxMsg : hi = (IF msgs > cursor + Page THEN cursor + Page ELSE msgs) /\ hi <= msgs
      BY <1>1, Numbers
    <3>2. page = <<cursor + 1, hi>> /\ cursor + 1 \in 1 .. MaxMsg + 1
      BY <1>1, <2>2, <3>1, Numbers DEF PageAfter
    <3>3. QED
      BY <3>1, <3>2
  <2>3. QED
    BY <2>1, <2>2
<1>3. fetch' = [fetch EXCEPT !.stage = "read", !.page = page]
      /\ UNCHANGED <<relayVars, connVars, wireVars, es, lastId, polling, cursor, shown, woken, faults>>
  BY DEF ReadPage
<1> HIDE DEF page
<1>4. PICK on \in BOOLEAN : fetch' = [stage |-> "read", page |-> <<lo, hi>>, online |-> on]
  BY <1>1, <1>2, <1>3, Fetch DEF FetchType
<1>5. fetch' \in FetchType
  BY <1>4, FetchTyped
<1>6. PageFits'
  BY <1>1, <1>2, <1>3, <1>4 DEF IInv, PageFits, relayVars
<1>7. QED
  BY <1>3, <1>5, <1>6, HookStep DEF IInv, TypeOK

\* The newest of a run of messages are a run with the same end, and every message that is
\* left out is older than Keep others.
LEMMA NewestOfRun ==
  ASSUME NEW first \in Nat \ {0}, NEW last \in Nat, first <= last, Keep \in Nat \ {0}
  PROVE  /\ Newest({}) = {}
         /\ \E new \in first .. last : Newest(first .. last) = new .. last
         /\ \A m \in (first .. last) \ Newest(first .. last) : last - m >= Keep
<1> DEFINE new == IF last - first < Keep THEN first ELSE last - Keep + 1
<1>1. \A m \in first .. last : Cardinality({x \in first .. last : x > m}) = last - m
  <2>1. TAKE m \in first .. last
  <2>2. {x \in first .. last : x > m} = (m + 1) .. last
    OBVIOUS
  <2>3. Cardinality((m + 1) .. last) = last - m
    <3>1. m + 1 \in Int /\ last \in Int
      OBVIOUS
    <3>2. Cardinality((m + 1) .. last) = IF m + 1 > last THEN 0 ELSE last - (m + 1) + 1
      BY <3>1, FS_Interval
    <3>3. QED
      BY <3>2
  <2>4. QED
    BY <2>2, <2>3
<1>2. Newest(first .. last) = {m \in first .. last : last - m < Keep}
  BY <1>1 DEF Newest
<1>3. new \in first .. last /\ {m \in first .. last : last - m < Keep} = new .. last
  OBVIOUS
<1>4. \A m \in (first .. last) \ Newest(first .. last) : last - m >= Keep
  BY <1>2
<1>5. Newest({}) = {}
  BY DEF Newest
<1>6. QED
  BY <1>2, <1>3, <1>4, <1>5

\* What an arriving page makes of a view without holes: a run that ends at the new cursor.
LEMMA ViewAfterPage ==
  ASSUME IInv, TakePage
  PROVE  /\ fetch' = NoFetch /\ shown' \subseteq Msgs
         /\ cursor' \in cursor .. msgs /\ ShownWithoutHoles'
         /\ \A m \in shown \ shown' : cursor' - m >= Keep
         /\ UNCHANGED <<relayVars, connVars, wireVars, es, lastId, polling, woken, faults>>
<1>1. PICK lo, hi :
        /\ lo = fetch.page[1] /\ hi = fetch.page[2] /\ lo \in 1 .. MaxMsg + 1 /\ hi \in 0 .. MaxMsg
        /\ hi <= msgs /\ (cursor = 0 \/ lo = cursor + 1)
  BY Fetch DEF IInv, PageFits, TakePage
<1>2. /\ shown' = Newest(shown \cup lo .. hi) /\ cursor' = (IF lo <= hi THEN hi ELSE cursor)
      /\ fetch' = NoFetch
      /\ UNCHANGED <<relayVars, connVars, wireVars, es, lastId, polling, woken, faults>>
  BY <1>1 DEF TakePage, CursorAfter
<1>3. /\ MaxMsg \in Nat /\ msgs \in 0 .. MaxMsg /\ cursor \in 0 .. MaxMsg /\ cursor <= msgs
      /\ shown \subseteq Msgs /\ Keep \in Nat \ {0}
  BY Numbers DEF IInv, TypeOK, PageFits
<1>4. cursor' \in cursor .. msgs
  BY <1>1, <1>2, <1>3
<1>5. CASE shown \cup lo .. hi = {}
  <2>1. shown = {} /\ lo > hi
    BY <1>1, <1>5
  <2>2. shown' = {} /\ cursor' = 0
    <3>1. cursor = 0
      BY <1>3, <2>1 DEF IInv, ShownWithoutHoles
    <3>2. shown' = {}
      BY <1>2, <1>5 DEF Newest
    <3>3. QED
      BY <1>1, <1>2, <2>1, <3>1, <3>2
  <2>3. QED
    BY <1>2, <1>4, <2>1, <2>2 DEF ShownWithoutHoles
<1>6. CASE shown \cup lo .. hi # {}
  <2>1. PICK first \in 1 .. cursor' : shown \cup lo .. hi = first .. cursor'
    <3>1. CASE lo > hi
      <4>1. shown \cup lo .. hi = shown /\ cursor' = cursor
        BY <1>1, <1>2, <3>1
      <4>2. QED
        BY <1>6, <4>1 DEF IInv, ShownWithoutHoles
    <3>2. CASE lo <= hi /\ cursor = 0
      <4>1. shown = {}
        BY <3>2 DEF IInv, ShownWithoutHoles
      <4>2. shown \cup lo .. hi = lo .. cursor' /\ lo \in 1 .. cursor'
        BY <1>1, <1>2, <3>2, <4>1
      <4>3. QED
        BY <4>2
    <3>3. CASE lo <= hi /\ cursor # 0
      <4>1. PICK first \in 1 .. cursor : shown = first .. cursor
        BY <3>3 DEF IInv, ShownWithoutHoles
      <4>2. shown \cup lo .. hi = first .. cursor' /\ first \in 1 .. cursor'
        BY <1>1, <1>2, <1>3, <3>3, <4>1
      <4>3. QED
        BY <4>2
    <3>4. QED
      BY <1>1, <3>1, <3>2, <3>3
  <2>2. /\ \E new \in first .. cursor' : shown' = new .. cursor'
        /\ \A m \in (first .. cursor') \ shown' : cursor' - m >= Keep
    <3>1. first \in Nat \ {0} /\ cursor' \in Nat /\ first <= cursor'
      BY <1>3, <1>4, <2>1
    <3>2. shown' = Newest(first .. cursor')
      BY <1>2, <2>1
    <3>3. QED
      BY <1>3, <3>1, <3>2, NewestOfRun
  <2>3. PICK new \in first .. cursor' : shown' = new .. cursor'
    BY <2>2
  <2>4. new \in 1 .. cursor' /\ shown' \subseteq Msgs
    BY <1>3, <1>4, <2>1, <2>3 DEF Msgs
  <2>5. ShownWithoutHoles'
    BY <2>3, <2>4 DEF ShownWithoutHoles
  <2>6. \A m \in shown \ shown' : cursor' - m >= Keep
    BY <2>1, <2>2
  <2>7. QED
    BY <1>2, <1>4, <2>4, <2>5, <2>6
<1>7. QED
  BY <1>5, <1>6

\* A page that arrives extends the view from its cursor.
LEMMA TakePageKeeps ==
  ASSUME IInv, TakePage
  PROVE  IInv'
<1>1. /\ fetch' = NoFetch /\ shown' \subseteq Msgs /\ cursor' \in cursor .. msgs /\ ShownWithoutHoles'
      /\ UNCHANGED <<relayVars, connVars, wireVars, es, lastId, polling, woken, faults>>
  BY ViewAfterPage
<1>2. cursor' \in 0 .. MaxMsg /\ cursor' <= msgs /\ NoFetch.stage # "read"
  BY <1>1, Numbers DEF IInv, TypeOK, NoFetch
<1>3. TypeOK'
  BY <1>1, <1>2, NoPageTyped DEF IInv, TypeOK, FetchType, relayVars, connVars, wireVars
<1>4. PageFits'
  BY <1>1, <1>2 DEF IInv, PageFits, relayVars
<1>5. StreamSound' /\ Told'
  BY <1>1 DEF IInv, StreamSound, Told, Reached, LeftBehind, relayVars, connVars, wireVars
<1>6. QED
  BY <1>1, <1>3, <1>4, <1>5 DEF IInv

\* The steps that only refresh, or lose a fetch.
LEMMA FetchKeeps ==
  ASSUME IInv, FetchFails \/ Poll \/ Online \/ Opens
  PROVE  IInv'
<1>1. CASE FetchFails
  <2>1. fetch' = NoFetch /\ Fault
        /\ UNCHANGED <<relayVars, connVars, wireVars, es, lastId, polling, cursor, shown, woken>>
    BY <1>1 DEF FetchFails
  <2>2. fetch' \in FetchType /\ PageFits'
    BY <2>1, NoPageTyped, PageKept DEF relayVars, NoFetch
  <2>3. QED
    BY <2>1, <2>2, HookStep DEF IInv, TypeOK
<1>2. CASE Poll \/ Online \/ Opens
  <2>1. /\ \E on \in BOOLEAN : RefreshBy(on)
        /\ UNCHANGED <<relayVars, connVars, wireVars, lastId, cursor, shown>>
        /\ faults' = faults \/ Fault
        /\ (es' = es /\ polling' = polling) \/ (es' = "open" /\ polling' = FALSE)
    BY <1>2 DEF Poll, Online, Opens, Refresh
  <2>2. es' \in {"connecting", "open", "error", "closed"} /\ polling' \in BOOLEAN
    BY <2>1 DEF IInv, TypeOK
  <2>3. woken' \in 0 .. MaxMsg /\ fetch' \in FetchType /\ PageFits'
    BY <2>1, Refreshed, PageKept DEF relayVars
  <2>4. QED
    BY <2>1, <2>2, <2>3, HookStep
<1>3. QED
  BY <1>1, <1>2

-----------------------------------------------------------------------------
(* Steps of the events route and of the EventSource.                       *)

LEMMA SubscribeKeeps ==
  ASSUME IInv, Subscribe \/ Reconnect
  PROVE  IInv'
<1>1. /\ UNCHANGED <<relayVars, sent, missed, wireVars, hookVars, faults>>
      /\ conn' \in {"subscribed", "opening"} /\ since' \in {since, lastId}
  BY DEF Subscribe, Reconnect
<1>2. TypeOK'
  BY <1>1 DEF IInv, TypeOK, relayVars, wireVars, hookVars
<1>3. Told'
  BY <1>1, ToldKept
<1>4. PageFits'
  BY <1>1, PageKept DEF relayVars, hookVars
<1>5. block'.id <= log /\ due'.id <= log /\ lastId' <= log /\ since' <= log
  BY <1>1, Stream DEF IInv, wireVars, hookVars
<1>6. QED
  BY <1>1, <1>2, <1>3, <1>4, <1>5, LocalStep DEF hookVars

\* The replay hands over the retained entries after the Last-Event-ID, up to its bound.
LEMMA ReplayReaches ==
  ASSUME IInv, Replay, NEW e \in Events
  PROVE  Reached(e)'
<1>1. /\ sent' = sent \cup FirstReplayed .. LastReplayed /\ UNCHANGED <<log, oldest, entry, since, missed>>
  BY DEF Replay, relayVars
<1>2. /\ log \in Nat /\ since \in Nat /\ since <= log /\ oldest \in Nat \ {0} /\ ReplayMax \in Nat \ {0}
      /\ entry[e] \in Nat /\ entry[e] <= log /\ oldest \in Entries /\ log \in {0} \cup Entries
  BY Numbers, Stream DEF IInv, TypeOK
<1>3. /\ FirstReplayed \in Nat /\ since < FirstReplayed
      /\ FirstReplayed = since + 1 \/ FirstReplayed <= oldest
      /\ FirstReplayed = since + 1 \/ FirstReplayed = oldest
  BY <1>2 DEF FirstReplayed
<1>4. CASE entry[e] < FirstReplayed
  <2>1. entry[e] <= since \/ entry[e] < oldest
    BY <1>2, <1>3, <1>4
  <2>2. QED
    BY <1>1, <2>1 DEF Reached
<1>5. CASE entry[e] >= FirstReplayed /\ entry[e] <= LastReplayed
  <2>1. LastReplayed \in Int
    BY <1>2, <1>3 DEF LastReplayed
  <2>2. entry[e] \in FirstReplayed .. LastReplayed
    BY <1>2, <1>3, <1>5, <2>1
  <2>3. QED
    BY <1>1, <2>2 DEF Reached
<1>6. CASE entry[e] >= FirstReplayed /\ ~(entry[e] <= LastReplayed)
  <2>1. LastReplayed = FirstReplayed + ReplayMax - 1 /\ FirstReplayed + ReplayMax <= entry[e]
    BY <1>2, <1>3, <1>6 DEF LastReplayed
  <2>2. FirstReplayed .. (FirstReplayed + ReplayMax - 1) \subseteq sent'
    BY <1>1, <2>1
  <2>3. FirstReplayed \in Entries
    BY <1>2, <1>3, <1>6, ChatAssumption DEF Entries
  <2>4. LeftBehind(e)'
    BY <1>1, <1>3, <2>1, <2>2, <2>3 DEF LeftBehind
  <2>5. QED
    BY <2>4 DEF Reached
<1>7. QED
  BY <1>2, <1>3, <1>4, <1>5, <1>6

LEMMA ReplayKeeps ==
  ASSUME IInv, Replay
  PROVE  IInv'
<1>1. /\ conn' = "live" /\ sent' = sent \cup FirstReplayed .. LastReplayed
      /\ block' = [type |-> "ready",
                   id |-> IF FirstReplayed <= LastReplayed THEN LastReplayed ELSE block.id]
      /\ UNCHANGED <<relayVars, since, missed, due, hookVars, faults>>
  BY DEF Replay
<1>2. /\ TypeOK /\ log \in Nat /\ since \in Nat /\ since <= log /\ oldest \in Nat \ {0}
      /\ ReplayMax \in Nat \ {0} /\ log \in {0} \cup Entries /\ Entries \subseteq Nat \ {0}
      /\ block.id \in {0} \cup Entries /\ block.id <= log /\ due.id <= log
  BY Numbers, Stream DEF IInv, TypeOK, Blocks
<1>3. FirstReplayed \in Nat \ {0} /\ LastReplayed \in Int /\ LastReplayed <= log
  BY <1>2 DEF FirstReplayed, LastReplayed
<1>4. FirstReplayed .. LastReplayed \subseteq Entries
  BY <1>2, <1>3, ChatAssumption DEF Entries
<1>5. PICK id \in {0} \cup Entries : block' = [type |-> "ready", id |-> id] /\ id <= log
  <2>1. CASE FirstReplayed <= LastReplayed
    <3>1. LastReplayed \in Entries
      BY <1>3, <1>4, <2>1
    <3>2. QED
      BY <1>1, <1>3, <2>1, <3>1
  <2>2. CASE ~(FirstReplayed <= LastReplayed)
    BY <1>1, <1>2, <2>2
  <2>3. QED
    BY <2>1, <2>2
<1>6. block' \in Blocks /\ block'.id <= log
  BY <1>5, BlockTyped
<1>7. TypeOK'
  BY <1>1, <1>4, <1>6 DEF IInv, TypeOK, Blocks, relayVars, hookVars
<1>8. Told'
  BY ReplayReaches DEF Told
<1>9. PageFits'
  BY <1>1, PageKept DEF relayVars, hookVars
<1>10. due'.id <= log /\ lastId' <= log /\ since' <= log
  BY <1>1, Stream DEF IInv, hookVars
<1>11. QED
  BY <1>1, <1>6, <1>7, <1>8, <1>9, <1>10, LocalStep DEF hookVars

LEMMA DegradeKeeps ==
  ASSUME IInv, Degrade
  PROVE  IInv'
<1>1. /\ conn' = "closing" /\ block' = [block EXCEPT !.type = "degraded"] /\ Fault
      /\ UNCHANGED <<relayVars, since, sent, missed, due, hookVars>>
  BY DEF Degrade
<1>2. faults' = faults + 1 /\ faults' \in 0 .. MaxFaults
  BY <1>1, FaultCounted
<1>3. block' \in Blocks /\ block'.id = block.id
  BY <1>1, Numbers DEF IInv, Blocks
<1>4. TypeOK'
  BY <1>1, <1>2, <1>3 DEF IInv, TypeOK, Blocks, relayVars, hookVars
<1>5. Told' /\ PageFits'
  BY <1>1, ToldKept, PageKept DEF relayVars, hookVars
<1>6. block'.id <= log /\ due'.id <= log /\ lastId' <= log /\ since' <= log
  BY <1>1, <1>3, Stream DEF IInv, hookVars
<1>7. QED
  BY <1>1, <1>2, <1>4, <1>5, <1>6, LocalStep DEF hookVars

\* A heartbeat ends the block, and what it ends is dispatched.
LEMMA HeartbeatKeeps ==
  ASSUME IInv, Heartbeat \/ Dispatch
  PROVE  IInv'
<1>1. /\ UNCHANGED <<relayVars, connVars, es, polling, cursor, shown, faults>>
      /\ \/ conn = "live" /\ due' = block /\ block' = NoBlock /\ UNCHANGED <<lastId, fetch, woken>>
         \/ /\ due' = NoBlock /\ block' = block /\ lastId' \in {lastId, due.id}
            /\ RefreshBy(FALSE) \/ UNCHANGED <<fetch, woken>>
  BY DEF Heartbeat, Dispatch, Refresh, hookVars
<1>2. /\ TypeOK /\ lastId <= log /\ block.id <= log /\ due.id <= log /\ 0 <= log
      /\ block \in Blocks /\ due \in Blocks /\ lastId \in {0} \cup Entries
      /\ NoBlock \in Blocks /\ NoBlock.id = 0 /\ due.id \in {0} \cup Entries
  BY Numbers, Stream, BlockTyped DEF IInv, TypeOK, Blocks, NoBlock
<1>3. /\ lastId' \in {0} \cup Entries /\ lastId' <= log
      /\ block' \in Blocks /\ block'.id <= log
  BY <1>1, <1>2
<1>4. due' \in Blocks /\ due'.id <= log
  BY <1>1, <1>2
<1>5. /\ woken' \in 0 .. MaxMsg /\ fetch' \in FetchType /\ (fetch' = fetch \/ fetch'.stage = "sent")
  <2>1. CASE UNCHANGED <<fetch, woken>>
    BY <2>1, <1>2, Fetch DEF TypeOK
  <2>2. CASE RefreshBy(FALSE)
    BY <2>2, Refreshed
  <2>3. QED
    BY <1>1, <2>1, <2>2
<1>6. TypeOK'
  BY <1>1, <1>2, <1>3, <1>4, <1>5 DEF TypeOK, FetchType, Blocks, relayVars, connVars
<1>7. PageFits'
  BY <1>1, <1>5, PageKept DEF relayVars
<1>8. Told'
  BY <1>1, ToldKept DEF relayVars, connVars
<1>9. since' <= log
  BY <1>1, Stream DEF IInv, connVars
<1>10. QED
  BY <1>1, <1>3, <1>4, <1>6, <1>7, <1>8, <1>9, LocalStep

LEMMA DisconnectKeeps ==
  ASSUME IInv, Closes \/ Disconnect \/ Refused
  PROVE  IInv'
<1>1. /\ conn' = "none" /\ sent' = {} /\ block' = NoBlock /\ due' = NoBlock
      /\ es' \in {"error", "closed"} /\ polling' = TRUE
      /\ UNCHANGED <<relayVars, since, missed, lastId, fetch, cursor, shown, woken>>
      /\ faults' = faults \/ Fault
  BY DEF Closes, Disconnect, Refused, Ended
<1>2. (faults' = faults \/ faults' = faults + 1) /\ faults' \in 0 .. MaxFaults
  BY <1>1, FaultCounted DEF IInv, TypeOK
<1>3. block' \in Blocks /\ due' \in Blocks /\ block'.id <= log /\ due'.id <= log
  BY <1>1, Numbers DEF IInv, Blocks, NoBlock
<1>4. TypeOK'
  BY <1>1, <1>2, <1>3 DEF IInv, TypeOK, Blocks, relayVars
<1>5. Told' /\ PageFits'
  BY <1>1, ToldKept, PageKept DEF relayVars
<1>6. lastId' <= log /\ since' <= log
  BY <1>1, Stream DEF IInv
<1>7. QED
  BY <1>1, <1>2, <1>3, <1>4, <1>5, <1>6, LocalStep

-----------------------------------------------------------------------------
(* Steps of the commit and of the relay.                                   *)

\* A step of one event: what it does to the number of unpaid events.
LEMMA FreshStep ==
  ASSUME TypeOK, NEW e \in Events, NEW to \in Stages, outbox' = [outbox EXCEPT ![e] = to]
  PROVE  /\ outbox' \in [Events -> Stages] /\ outbox'[e] = to
         /\ \A d \in Events : d # e => outbox'[d] = outbox[d]
         /\ to \in {"absent", "pending", "leased"} => Cardinality(Fresh') <= Cardinality(Fresh) + 1
         /\ outbox[e] \in {"absent", "pending", "leased"} => Cardinality(Fresh') <= Cardinality(Fresh)
         /\ outbox[e] \in {"absent", "pending", "leased"} /\ to \notin {"absent", "pending", "leased"} =>
              Cardinality(Fresh') = Cardinality(Fresh) - 1
         /\ to \notin {"absent", "pending", "leased"} => Cardinality(Fresh') <= Cardinality(Fresh)
<1>1. outbox \in [Events -> Stages]
  BY DEF TypeOK
<1>2. outbox' \in [Events -> Stages] /\ outbox'[e] = to /\ \A d \in Events : d # e => outbox'[d] = outbox[d]
  BY <1>1
<1>3. CASE to \in {"absent", "pending", "leased"}
  <2>1. Fresh' = Fresh \cup {e}
    BY <1>2, <1>3 DEF Fresh
  <2>2. e \in Fresh <=> outbox[e] \in {"absent", "pending", "leased"}
    BY DEF Fresh
  <2>3. Cardinality(Fresh') = IF e \in Fresh THEN Cardinality(Fresh) ELSE Cardinality(Fresh) + 1
    BY <2>1, FreshCount, FS_AddElement
  <2>4. QED
    BY <1>2, <1>3, <2>2, <2>3, FreshCount
<1>4. CASE to \notin {"absent", "pending", "leased"}
  <2>1. Fresh' = Fresh \ {e}
    BY <1>2, <1>4 DEF Fresh
  <2>2. e \in Fresh <=> outbox[e] \in {"absent", "pending", "leased"}
    BY DEF Fresh
  <2>3. Cardinality(Fresh') = IF e \in Fresh THEN Cardinality(Fresh) - 1 ELSE Cardinality(Fresh)
    BY <2>1, FreshCount, FS_RemoveElement
  <2>4. QED
    BY <1>2, <1>4, <2>2, <2>3, FreshCount
<1>5. QED
  BY <1>3, <1>4

LEMMA CommitKeeps ==
  ASSUME IInv, NEW n \in 1 .. 2, Commit(n)
  PROVE  IInv'
<1>1. PICK e \in Events : outbox[e] = "absent" /\ outbox' = [outbox EXCEPT ![e] = "pending"]
  BY DEF Commit
<1>2. /\ msgs' = msgs + n /\ msgs + n <= MaxMsg
      /\ UNCHANGED <<log, oldest, entry, connVars, wireVars, hookVars, faults>>
  BY DEF Commit
<1>3. TypeOK /\ "pending" \in Stages
  BY DEF IInv, Stages
<1>4. /\ outbox' \in [Events -> Stages] /\ outbox'[e] = "pending"
      /\ \A d \in Events : d # e => outbox'[d] = outbox[d]
      /\ Cardinality(Fresh') <= Cardinality(Fresh)
  BY <1>1, <1>3, FreshStep
<1>5. msgs \in Nat /\ msgs' \in 0 .. MaxMsg /\ msgs <= msgs'
  BY <1>2, <1>3, Numbers
<1>6. TypeOK'
  BY <1>2, <1>4, <1>5 DEF IInv, TypeOK, connVars, wireVars, hookVars
<1>7. ShownWithoutHoles'
  BY <1>2 DEF IInv, ShownWithoutHoles, hookVars
<1>8. PageFits'
  <2>1. fetch' = fetch /\ cursor' = cursor /\ cursor \in Nat /\ fetch.page[2] \in Nat
    BY <1>2, <1>3, Numbers, Fetch DEF hookVars
  <2>2. QED
    BY <1>5, <2>1 DEF IInv, PageFits
<1>9. StreamSound'
  <2>1. log + Cardinality(Fresh') <= MaxCommits + faults
    BY <1>3, <1>4, Numbers, FreshCount, Stream DEF IInv
  <2>2. UNCHANGED <<log, entry, block, due, lastId, since, faults>>
    BY <1>2 DEF connVars, wireVars, hookVars
  <2>3. \A d \in Events : outbox'[d] \in {"streamed", "announced", "completed"} => outbox'[d] = outbox[d]
    BY <1>4
  <2>4. log' + Cardinality(Fresh') <= MaxCommits + faults'
    BY <2>1, <2>2
  <2>5. QED
    BY <2>2, <2>3, <2>4, Stream DEF IInv, StreamSound, Fresh
<1>10. Told'
  BY <1>2, <1>4 DEF IInv, Told, Reached, LeftBehind, connVars
<1>11. QED
  BY <1>6, <1>7, <1>8, <1>9, <1>10 DEF IInv

\* The relay's steps leave the hook alone.
LEMMA RelayFrame ==
  ASSUME IInv, TypeOK', UNCHANGED <<msgs, lastId, since, fetch, cursor, shown>>, StreamSound', Told'
  PROVE  IInv'
BY DEF IInv, ShownWithoutHoles, PageFits

LEMMA ClaimCompleteKeeps ==
  ASSUME IInv, NEW e \in Events, Claim(e) \/ Complete(e)
  PROVE  IInv'
<1>1. PICK to \in {"leased", "completed"} :
        /\ outbox' = [outbox EXCEPT ![e] = to]
        /\ outbox[e] = IF to = "leased" THEN "pending" ELSE "announced"
        /\ UNCHANGED <<msgs, log, oldest, entry, connVars, wireVars, hookVars, faults>>
  BY DEF Claim, Complete, RelayStep
<1>2. TypeOK /\ to \in Stages
  BY DEF IInv, Stages
<1>3. /\ outbox' \in [Events -> Stages] /\ outbox'[e] = to
      /\ \A d \in Events : d # e => outbox'[d] = outbox[d]
      /\ Cardinality(Fresh') <= Cardinality(Fresh)
  BY <1>1, <1>2, FreshStep
<1>4. TypeOK'
  BY <1>1, <1>3 DEF IInv, TypeOK, connVars, wireVars, hookVars
<1>5. StreamSound'
  <2>1. log + Cardinality(Fresh') <= MaxCommits + faults
    BY <1>2, <1>3, Numbers, FreshCount, Stream DEF IInv
  <2>2. UNCHANGED <<log, entry, block, due, lastId, since, faults>>
    BY <1>1 DEF connVars, wireVars, hookVars
  <2>3. \A d \in Events : outbox'[d] \in {"streamed", "announced", "completed"} =>
          outbox[d] \in {"streamed", "announced", "completed"}
    BY <1>1, <1>3
  <2>4. log' + Cardinality(Fresh') <= MaxCommits + faults'
    BY <2>1, <2>2
  <2>5. QED
    BY <2>2, <2>3, <2>4, Stream DEF IInv, StreamSound, Fresh
<1>6. Told'
  BY <1>1, <1>3 DEF IInv, Told, Reached, LeftBehind, connVars
<1>7. QED
  BY <1>1, <1>4, <1>5, <1>6, RelayFrame DEF connVars, wireVars, hookVars

\* XADD: the new entry is the first one of a leased event, or was paid for by a fault.
LEMMA AddToStreamKeeps ==
  ASSUME IInv, NEW e \in Events, AddToStream(e)
  PROVE  IInv'
<1>1. /\ outbox[e] = "leased" /\ outbox' = [outbox EXCEPT ![e] = "streamed"]
      /\ log' = log + 1 /\ entry' = [entry EXCEPT ![e] = log + 1] /\ oldest' \in oldest .. log + 1
      /\ UNCHANGED <<msgs, connVars, wireVars, hookVars, faults>>
  BY DEF AddToStream, RelayStep, Trimmed
<1>2. TypeOK /\ "streamed" \in Stages
  BY DEF IInv, Stages
<1>3. /\ outbox' \in [Events -> Stages] /\ outbox'[e] = "streamed"
      /\ \A d \in Events : d # e => outbox'[d] = outbox[d]
      /\ Cardinality(Fresh') = Cardinality(Fresh) - 1
  BY <1>1, <1>2, FreshStep
<1>4. log' + Cardinality(Fresh') <= MaxCommits + faults'
  BY <1>1, <1>2, <1>3, Numbers, FreshCount, Stream DEF IInv
<1>5. log' \in Entries
  <2>1. faults' = faults /\ faults \in 0 .. MaxFaults
    BY <1>1, <1>2 DEF TypeOK
  <2>2. log \in Nat /\ MaxCommits \in Nat /\ MaxFaults \in Nat /\ Cardinality(Fresh') \in Nat
    BY <1>2, Numbers, FreshCount
  <2>3. log' \in Nat \ {0} /\ log' <= MaxCommits + MaxFaults
    BY <1>1, <1>4, <2>1, <2>2
  <2>4. QED
    BY <2>2, <2>3 DEF Entries
<1>6. /\ entry' \in [Events -> {0} \cup Entries] /\ entry'[e] = log'
      /\ \A d \in Events : d # e => entry'[d] = entry[d]
  BY <1>1, <1>2, <1>5 DEF TypeOK
<1>7. TypeOK'
  <2>1. oldest' \in Entries
    BY <1>1, <1>2, <1>5, Numbers, ChatAssumption DEF Entries
  <2>2. QED
    BY <1>1, <1>2, <1>3, <1>5, <1>6, <2>1 DEF TypeOK, connVars, wireVars, hookVars
<1>8. StreamSound'
  <2>1. UNCHANGED <<block, due, lastId, since>>
    BY <1>1 DEF connVars, wireVars, hookVars
  <2>2. \A d \in Events :
          /\ entry'[d] <= log'
          /\ outbox'[d] \in {"streamed", "announced", "completed"} => entry'[d] # 0
    BY <1>1, <1>2, <1>3, <1>6, Numbers, Stream DEF IInv
  <2>3. block'.id <= log' /\ due'.id <= log' /\ lastId' <= log' /\ since' <= log'
    <3>1. block.id \in Nat /\ due.id \in Nat /\ block.id <= log /\ due.id <= log
      BY <1>2, Numbers, Stream DEF IInv
    <3>2. lastId \in Nat /\ since \in Nat /\ lastId <= log /\ since <= log /\ log \in Nat
      BY <1>2, Numbers, Stream DEF IInv
    <3>3. QED
      BY <1>1, <2>1, <3>1, <3>2
  <2>4. QED
    BY <1>4, <2>2, <2>3 DEF StreamSound, Fresh
<1>9. Told'
  <2>1. SUFFICES ASSUME conn = "live", NEW d \in Events, outbox'[d] \in {"announced", "completed"}
                 PROVE  Reached(d)'
    BY <1>1 DEF Told, connVars
  <2>2. d # e /\ entry'[d] = entry[d] /\ Reached(d)
    BY <1>3, <1>6, <2>1 DEF IInv, Told
  <2>3. /\ oldest \in Nat /\ oldest' \in Nat /\ oldest <= oldest' /\ entry[d] \in Nat
        /\ Entries \subseteq Nat /\ UNCHANGED <<since, sent, missed>>
    BY <1>1, <1>2, Numbers DEF connVars
  <2>4. \A first \in Entries : first <= oldest => first <= oldest'
    BY <2>3
  <2>5. LeftBehind(d) => LeftBehind(d)'
    BY <2>2, <2>3, <2>4 DEF LeftBehind
  <2>6. entry[d] < oldest => entry[d] < oldest'
    BY <2>3
  <2>7. QED
    BY <2>2, <2>3, <2>5, <2>6 DEF Reached
<1>10. QED
  BY <1>1, <1>7, <1>8, <1>9, RelayFrame DEF connVars, wireVars, hookVars

\* PUBLISH: a subscribed connection gets the frame, or its subscriber missed it.
LEMMA AnnounceKeeps ==
  ASSUME IInv, NEW e \in Events, Announce(e)
  PROVE  IInv'
<1>1. /\ outbox[e] = "streamed" /\ outbox' = [outbox EXCEPT ![e] = "announced"]
      /\ UNCHANGED <<msgs, log, oldest, entry, conn, since, due, hookVars>>
  BY DEF Announce, RelayStep
<1>2. \/ conn \notin {"subscribed", "live"} /\ UNCHANGED <<sent, block, missed, faults>>
      \/ sent' = sent \cup {entry[e]} /\ block' = [type |-> "chat", id |-> entry[e]]
         /\ UNCHANGED <<missed, faults>>
      \/ Fault /\ missed' = missed \cup {entry[e]} /\ UNCHANGED <<sent, block>>
  BY DEF Announce
<1>3. TypeOK /\ "announced" \in Stages
  BY DEF IInv, Stages
<1>4. /\ outbox' \in [Events -> Stages] /\ outbox'[e] = "announced"
      /\ \A d \in Events : d # e => outbox'[d] = outbox[d]
      /\ Cardinality(Fresh') <= Cardinality(Fresh)
  BY <1>1, <1>3, FreshStep
<1>5. entry[e] \in Entries /\ entry[e] <= log
  <2>1. entry[e] # 0 /\ entry[e] <= log
    BY <1>1, Stream DEF IInv
  <2>2. entry[e] \in {0} \cup Entries
    BY <1>3 DEF TypeOK
  <2>3. QED
    BY <2>1, <2>2
<1>6. /\ sent' \subseteq Entries /\ missed' \subseteq Entries /\ faults' \in 0 .. MaxFaults
      /\ faults' = faults \/ faults' = faults + 1
  <2>1. sent \subseteq Entries /\ missed \subseteq Entries /\ faults \in 0 .. MaxFaults
    BY <1>3 DEF TypeOK
  <2>2. QED
    BY <1>2, <1>5, <2>1, FaultCounted
<1>7. block' \in Blocks /\ block'.id <= log
  <2>1. block \in Blocks /\ block.id <= log
    BY <1>3, Numbers, Stream DEF IInv
  <2>2. [type |-> "chat", id |-> entry[e]] \in Blocks
    BY <1>5, BlockTyped
  <2>3. QED
    BY <1>2, <1>5, <2>1, <2>2
<1>8. TypeOK'
  BY <1>1, <1>3, <1>4, <1>6, <1>7 DEF TypeOK, hookVars
<1>9. StreamSound'
  <2>1. log + Cardinality(Fresh') <= MaxCommits + faults'
    <3>1. log + Cardinality(Fresh) <= MaxCommits + faults
      BY Stream DEF IInv
    <3>2. log \in Nat /\ MaxCommits \in Nat /\ faults \in Nat /\ Cardinality(Fresh) \in Nat /\ Cardinality(Fresh') \in Nat
      BY <1>3, Numbers, FreshCount
    <3>3. QED
      BY <1>4, <1>6, <3>1, <3>2
  <2>2. UNCHANGED <<log, entry, due, lastId, since>>
    BY <1>1 DEF hookVars
  <2>3. \A d \in Events : outbox'[d] \in {"streamed", "announced", "completed"} =>
          outbox[d] \in {"streamed", "announced", "completed"}
    BY <1>1, <1>4
  <2>4. log' + Cardinality(Fresh') <= MaxCommits + faults'
    BY <2>1, <2>2
  <2>5. QED
    BY <1>7, <2>2, <2>3, <2>4, Stream DEF IInv, StreamSound, Fresh
<1>10. Told'
  <2>1. SUFFICES ASSUME conn = "live", NEW d \in Events, outbox'[d] \in {"announced", "completed"}
                 PROVE  Reached(d)'
    BY <1>1 DEF Told
  <2>2. /\ sent \subseteq sent' /\ missed \subseteq missed' /\ (entry[e] \in sent' \/ entry[e] \in missed')
        /\ UNCHANGED <<entry, since, oldest>>
    BY <1>1, <1>2, <2>1
  <2>3. CASE d = e
    BY <2>2, <2>3 DEF Reached
  <2>4. CASE d # e
    <3>1. Reached(d)
      BY <1>4, <2>1, <2>4 DEF IInv, Told
    <3>2. QED
      BY <2>2, <3>1 DEF Reached, LeftBehind
  <2>5. QED
    BY <2>3, <2>4
<1>11. QED
  BY <1>1, <1>8, <1>9, <1>10, RelayFrame DEF hookVars

LEMMA RelayFailsKeeps ==
  ASSUME IInv, NEW e \in Events, RelayFails(e)
  PROVE  IInv'
<1>1. /\ Fault /\ outbox' = [outbox EXCEPT ![e] = "pending"]
      /\ UNCHANGED <<msgs, log, oldest, entry, connVars, wireVars, hookVars>>
  BY DEF RelayFails
<1>2. TypeOK /\ "pending" \in Stages /\ faults' = faults + 1 /\ faults' \in 0 .. MaxFaults
  BY <1>1, FaultCounted DEF IInv, Stages
<1>3. /\ outbox' \in [Events -> Stages] /\ outbox'[e] = "pending"
      /\ \A d \in Events : d # e => outbox'[d] = outbox[d]
      /\ Cardinality(Fresh') <= Cardinality(Fresh) + 1
  BY <1>1, <1>2, FreshStep
<1>4. TypeOK'
  BY <1>1, <1>2, <1>3 DEF IInv, TypeOK, connVars, wireVars, hookVars
<1>5. StreamSound'
  <2>1. log + Cardinality(Fresh') <= MaxCommits + faults'
    <3>1. log + Cardinality(Fresh) <= MaxCommits + faults
      BY Stream DEF IInv
    <3>2. log \in Nat /\ MaxCommits \in Nat /\ faults \in Nat /\ Cardinality(Fresh) \in Nat /\ Cardinality(Fresh') \in Nat
      BY <1>2, Numbers, FreshCount
    <3>3. QED
      BY <1>2, <1>3, <3>1, <3>2
  <2>2. UNCHANGED <<log, entry, block, due, lastId, since>>
    BY <1>1 DEF connVars, wireVars, hookVars
  <2>3. \A d \in Events : outbox'[d] \in {"streamed", "announced", "completed"} => outbox'[d] = outbox[d]
    BY <1>3
  <2>4. log' + Cardinality(Fresh') <= MaxCommits + faults'
    BY <2>1, <2>2
  <2>5. QED
    BY <2>2, <2>3, <2>4, Stream DEF IInv, StreamSound, Fresh
<1>6. Told'
  BY <1>1, <1>3 DEF IInv, Told, Reached, LeftBehind, connVars
<1>7. QED
  BY <1>1, <1>4, <1>5, <1>6, RelayFrame DEF connVars, wireVars, hookVars

-----------------------------------------------------------------------------
(* The theorems.                                                           *)

LEMMA InitHolds == Init => IInv
<1> SUFFICES ASSUME Init PROVE IInv
  OBVIOUS
<1>1. TypeOK
  <2>1. fetch \in FetchType
    BY NoPageTyped DEF Init, Begin
  <2>2. block \in Blocks /\ due \in Blocks
    BY DEF Init, Blocks, NoBlock
  <2>3. outbox \in [Events -> Stages] /\ entry \in [Events -> {0} \cup Entries]
    BY DEF Init, Stages
  <2>4. msgs \in 0 .. MaxMsg /\ cursor \in 0 .. MaxMsg /\ woken \in 0 .. MaxMsg /\ faults \in 0 .. MaxFaults
    BY ChatAssumption DEF Init
  <2>5. /\ log \in {0} \cup Entries /\ since \in {0} \cup Entries /\ lastId \in {0} \cup Entries
        /\ sent \subseteq Entries /\ missed \subseteq Entries /\ shown \subseteq Msgs
        /\ conn \in {"none", "opening", "subscribed", "live", "closing"}
        /\ es \in {"connecting", "open", "error", "closed"} /\ oldest \in Entries
    BY ChatAssumption DEF Init, Entries
  <2>6. polling \in BOOLEAN
    BY DEF Init
  <2>7. QED
    BY <2>1, <2>2, <2>3, <2>4, <2>5, <2>6 DEF TypeOK, FetchType
<1>2. ShownWithoutHoles /\ Told /\ PageFits
  BY DEF Init, ShownWithoutHoles, Told, PageFits
<1>3. StreamSound
  <2>1. Fresh = Events
    BY DEF Init, Fresh
  <2>2. Cardinality(Events) = MaxCommits
    BY ChatAssumption, FS_Interval DEF Events
  <2>3. log + Cardinality(Fresh) <= MaxCommits + faults
    BY <2>1, <2>2, ChatAssumption DEF Init
  <2>4. QED
    BY <2>3, Stream, ChatAssumption DEF Init, NoBlock
<1>4. QED
  BY <1>1, <1>2, <1>3 DEF IInv

\* The inductive invariant of a live session: a page in flight fits the cursor, every entry
\* known to anyone is in the stream, a live connection was told of what is announced.
THEOREM InductiveInvariant == Spec => []IInv
<1>1. Init => IInv
  BY InitHolds
<1>2. IInv /\ [Next]_vars => IInv'
  <2> SUFFICES ASSUME IInv, [Next]_vars PROVE IInv'
    OBVIOUS
  <2>1. ASSUME NEW n \in 1 .. 2, Commit(n) PROVE IInv'
    BY <2>1, CommitKeeps
  <2>2. ASSUME NEW e \in Events, Relay(e) \/ RelayFails(e) PROVE IInv'
    BY <2>2, ClaimCompleteKeeps, AddToStreamKeeps, AnnounceKeeps, RelayFailsKeeps DEF Relay
  <2>3. CASE Route
    BY <2>3, SubscribeKeeps, ReplayKeeps, HeartbeatKeeps, DisconnectKeeps DEF Route
  <2>4. CASE Hook
    BY <2>4, ReadPageKeeps, TakePageKeeps DEF Hook
  <2>5. CASE Opens \/ Poll \/ FetchFails \/ Online
    BY <2>5, FetchKeeps
  <2>6. CASE Dispatch \/ Degrade \/ Disconnect \/ Refused
    BY <2>6, HeartbeatKeeps, DegradeKeeps, DisconnectKeeps
  <2>7. CASE UNCHANGED vars
    BY <2>7 DEF vars, relayVars, connVars, wireVars, hookVars, IInv, TypeOK, ShownWithoutHoles,
                PageFits, StreamSound, Told, Reached, LeftBehind
  <2>8. QED
    BY <2>1, <2>2, <2>3, <2>4, <2>5, <2>6, <2>7 DEF Next
<1>3. QED
  BY <1>1, <1>2, PTL DEF Spec

\* The state is well typed: the stream never holds more entries than the commits and the
\* faults account for.
THEOREM TypeCorrect == Spec => []TypeOK
<1>1. IInv => TypeOK
  BY DEF IInv
<1>2. QED
  BY <1>1, InductiveInvariant, PTL

\* The view has no hole below the hook's cursor, whatever frames are lost, repeated or late,
\* and whatever is committed while a page is under way: it is one run of messages that ends
\* at the cursor, also when the view is full and the oldest are dropped.
THEOREM NoHoles == Spec => []ShownWithoutHoles
<1>1. IInv => ShownWithoutHoles
  BY DEF IInv
<1>2. QED
  BY <1>1, InductiveInvariant, PTL

\* Nothing falls between the route's subscription and its replay: a completed event reached
\* a live connection, or the browser had it, or the subscriber missed it, or it was cut off by
\* the bound of the stream or of the replay.
THEOREM EveryEventReachesLive == Spec => []LiveGetsEveryEvent
<1>1. IInv => LiveGetsEveryEvent
  BY Stream DEF IInv, Told, LiveGetsEveryEvent
<1>2. QED
  BY <1>1, InductiveInvariant, PTL

\* The view moves on with the cursor: the cursor never goes back, nothing is shown that was
\* not committed, and only a view that holds Keep newer messages drops one.
ViewFollowsCursor ==
  /\ cursor <= cursor' /\ shown' \subseteq 1 .. msgs'
  /\ \A m \in shown \ shown' : cursor' - m >= Keep

\* A page that was read before another event, a reconnect or a failure takes nothing back; a
\* message leaves the view only when mergeChatSession keeps Keep newer ones instead.
THEOREM ViewMovesOn == Spec => [][ViewFollowsCursor]_vars
<1>1. IInv /\ IInv' /\ [Next]_vars => ViewFollowsCursor
  <2> SUFFICES ASSUME IInv, IInv', [Next]_vars PROVE ViewFollowsCursor
    OBVIOUS
  <2>1. /\ cursor \in Nat /\ msgs' \in Nat /\ cursor' \in Nat /\ cursor' <= msgs'
        /\ shown' = {} \/ \E first \in 1 .. cursor' : shown' = first .. cursor'
    BY Numbers DEF IInv, TypeOK, PageFits, ShownWithoutHoles
  <2>2. shown' \subseteq 1 .. msgs'
    BY <2>1
  <2>3. CASE TakePage
    <3>1. cursor' \in cursor .. msgs /\ \A m \in shown \ shown' : cursor' - m >= Keep
      BY <2>3, ViewAfterPage
    <3>2. cursor <= cursor'
      BY <3>1
    <3>3. QED
      BY <2>2, <3>1, <3>2 DEF ViewFollowsCursor
  <2>4. CASE UNCHANGED <<cursor, shown>>
    BY <2>1, <2>2, <2>4 DEF ViewFollowsCursor
  <2>5. ASSUME NEW e \in Events, Relay(e) \/ RelayFails(e) PROVE UNCHANGED <<cursor, shown>>
    BY <2>5 DEF Relay, Claim, AddToStream, Announce, Complete, RelayFails, hookVars
  <2>6. ASSUME NEW n \in 1 .. 2, Commit(n) PROVE UNCHANGED <<cursor, shown>>
    BY <2>6 DEF Commit, hookVars
  <2>7. CASE Route \/ ReadPage \/ Opens
    BY <2>4, <2>7 DEF Route, Subscribe, Replay, Heartbeat, Closes, Ended, Reconnect, ReadPage, Opens, hookVars
  <2>8. CASE Dispatch \/ Poll \/ FetchFails \/ Online \/ Degrade \/ Disconnect \/ Refused
    BY <2>4, <2>8 DEF Dispatch, Poll, FetchFails, Online, Degrade, Disconnect, Refused, Ended, hookVars
  <2>9. CASE UNCHANGED vars
    BY <2>4, <2>9 DEF vars, hookVars
  <2>10. QED
    BY <2>3, <2>4, <2>5, <2>6, <2>7, <2>8, <2>9 DEF Next, Hook
<1>2. QED
  BY <1>1, InductiveInvariant, PTL DEF Spec
=============================================================================
