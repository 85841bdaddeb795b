------------------------------- MODULE ChatLive --------------------------------
(***************************************************************************)
(* One live chat session: messages commit with an outbox event, the relay  *)
(* publishes the event to a Redis stream and channel, the events route     *)
(* forwards it to the browser, and the browser's hook fetches the messages *)
(* after its cursor from PostgreSQL (chat-repository, relay, realtime,     *)
(* the routes chat/events and chat/session, useChatRealtimeSession).       *)
(*                                                                         *)
(* Messages are numbered in the order (created_at, id) they are paged in,  *)
(* stream entries in XADD order.  The hook ignores what an event says, so  *)
(* an event is only a wake-up.  The route ends no frame with an empty line *)
(* (sseFrame), so the EventSource dispatches nothing before the blank line *)
(* of the next heartbeat, and what was written until then is one event, of *)
(* the last type and the last id in it.  The SQL of the outbox is not part *)
(* of the repository: claim leases an event, fail and an expired lease     *)
(* free it.                                                                *)
(***************************************************************************)
EXTENDS Integers, FiniteSets

CONSTANTS
  MaxMsg,     \* bound on the messages of the session
  MaxCommits, \* bound on the commits that carry them
  Page,       \* messages per fetch (limit=100)
  Keep,       \* messages the view keeps (500)
  ReplayMax,  \* entries one replay reads (100)
  StreamMax,  \* entries a trim of the stream leaves at least (1000)
  EarlyHeaders, \* the server may send a response's headers before its first frame
  MaxFaults   \* bound on lost connections, failed fetches and failed publications

ASSUME ChatAssumption ==
  /\ MaxMsg \in Nat \ {0} /\ MaxCommits \in Nat \ {0}
  /\ Page \in Nat \ {0} /\ Keep \in Nat /\ Page <= Keep
  /\ ReplayMax \in Nat \ {0} /\ StreamMax \in Nat \ {0}
  /\ EarlyHeaders \in BOOLEAN /\ MaxFaults \in Nat

VARIABLES
  msgs,       \* messages committed so far
  outbox,     \* outbox[e]: chat_outbox row of the e-th commit
  log,        \* entries added to the Redis stream so far
  oldest,     \* the first entry the stream still holds
  entry,      \* entry[e]: the latest stream entry of event e, 0 before the first
  conn,       \* the events route's connection: where its handler stands
  since,      \* the Last-Event-ID this connection replays from
  sent,       \* stream entries sent on this connection
  block,      \* the frames written since the last heartbeat: their last type and id
  due,        \* the frames that a heartbeat under way will dispatch
  es,         \* EventSource: not opened, open, waiting to reconnect, or closed for good
  lastId,     \* the last event id the EventSource dispatched
  polling,    \* the five-second fallback timer runs
  fetch,      \* the refresh in flight: its stage and the page it read
  cursor,     \* the hook's cursor, 0 before the first page
  shown,      \* messages merged into the view
  woken,      \* messages committed when the hook was last told to refresh
  missed,     \* entries whose channel message the web pod's subscriber missed
  faults

relayVars == <<msgs, outbox, log, oldest, entry>>
wireVars == <<block, due>>
connVars == <<conn, since, sent, missed>>
hookVars == <<es, lastId, polling, fetch, cursor, shown, woken>>
vars == <<relayVars, connVars, wireVars, hookVars, faults>>

Msgs == 1 .. MaxMsg
Events == 1 .. MaxCommits
Entries == 1 .. (MaxCommits + MaxFaults)
Stages == {"absent", "pending", "leased", "streamed", "announced", "completed"}
NoPage == <<1, 0>>

\* Frames that are dispatched as one event; the frames "ready" and "degraded" have no id.
Blocks == [type : {"none", "chat", "ready", "degraded"}, id : {0} \cup Entries]
NoBlock == [type |-> "none", id |-> 0]

TypeOK ==
  /\ msgs \in 0 .. MaxMsg
  /\ outbox \in [Events -> Stages]
  /\ log \in {0} \cup Entries /\ oldest \in Entries
  /\ entry \in [Events -> {0} \cup Entries]
  /\ conn \in {"none", "opening", "subscribed", "live", "closing"}
  /\ since \in {0} \cup Entries /\ lastId \in {0} \cup Entries
  /\ sent \subseteq Entries /\ missed \subseteq Entries
  /\ block \in Blocks /\ due \in Blocks
  /\ es \in {"connecting", "open", "error", "closed"} /\ polling \in BOOLEAN
  /\ fetch \in [stage : {"idle", "sent", "read"}, page : (1 .. MaxMsg + 1) \X (0 .. MaxMsg),
                online : BOOLEAN]
  /\ cursor \in 0 .. MaxMsg /\ shown \subseteq Msgs
  /\ woken \in 0 .. MaxMsg /\ faults \in 0 .. MaxFaults

\* The hook mounts on a session with its opening message, whose own event is over: a first
\* refresh is sent and the EventSource connects.
Init ==
  /\ msgs = 1 /\ outbox = [e \in Events |-> "absent"]
  /\ log = 0 /\ oldest = 1 /\ entry = [e \in Events |-> 0]
  /\ conn = "opening" /\ since = 0 /\ sent = {} /\ missed = {}
  /\ block = NoBlock /\ due = NoBlock
  /\ es = "connecting" /\ lastId = 0 /\ polling = FALSE
  /\ fetch = [stage |-> "sent", page |-> NoPage, online |-> FALSE]
  /\ cursor = 0 /\ shown = {} /\ woken = 1 /\ faults = 0

Fault == faults < MaxFaults /\ faults' = faults + 1

-----------------------------------------------------------------------------
(* Commit and relay.                                                       *)

\* sendMessage and appendRuntimeMessage: the session row is locked, one or two messages
\* and one outbox row commit together.
Commit(n) ==
  /\ msgs + n <= MaxMsg
  /\ msgs' = msgs + n
  /\ \E e \in Events :
       /\ outbox[e] = "absent" /\ \A d \in 1 .. e - 1 : outbox[d] # "absent"
       /\ outbox' = [outbox EXCEPT ![e] = "pending"]
  /\ UNCHANGED <<log, oldest, entry, connVars, wireVars, hookVars, faults>>

RelayStep(e, from, to) == outbox[e] = from /\ outbox' = [outbox EXCEPT ![e] = to]

Claim(e) ==
  /\ RelayStep(e, "pending", "leased")
  /\ UNCHANGED <<msgs, log, oldest, entry, connVars, wireVars, hookVars, faults>>

\* What MAXLEN ~ may trim when an entry is added.
Trimmed == {o \in oldest .. log + 1 : o = oldest \/ log + 2 - o >= StreamMax}

\* publish: XADD, which must answer with an entry id, then PUBLISH, then complete.
AddToStream(e) ==
  /\ RelayStep(e, "leased", "streamed")
  /\ log' = log + 1 /\ entry' = [entry EXCEPT ![e] = log + 1]
  /\ oldest' \in Trimmed
  /\ UNCHANGED <<msgs, connVars, wireVars, hookVars, faults>>

\* PUBLISH reaches the connections that are subscribed at this moment. As a fault the
\* subscriber of the web pod is reconnecting to Redis and misses it.
Announce(e) ==
  /\ RelayStep(e, "streamed", "announced")
  /\ IF conn \notin {"subscribed", "live"} THEN UNCHANGED <<sent, block, missed, faults>>
     ELSE \/ /\ sent' = sent \cup {entry[e]} /\ block' = [type |-> "chat", id |-> entry[e]]
             /\ UNCHANGED <<missed, faults>>
          \/ Fault /\ missed' = missed \cup {entry[e]} /\ UNCHANGED <<sent, block>>
  /\ UNCHANGED <<msgs, log, oldest, entry, conn, since, due, hookVars>>

Complete(e) ==
  /\ RelayStep(e, "announced", "completed")
  /\ UNCHANGED <<msgs, log, oldest, entry, connVars, wireVars, hookVars, faults>>

\* Publishing or completing throws and the event is failed; failing throws too and ends
\* the batch; or the relay is gone: the event is claimed again later.
RelayFails(e) ==
  /\ Fault
  /\ outbox[e] \in {"leased", "streamed", "announced"}
  /\ outbox' = [outbox EXCEPT ![e] = "pending"]
  /\ UNCHANGED <<msgs, log, oldest, entry, connVars, wireVars, hookVars>>

-----------------------------------------------------------------------------
(* The hook.                                                               *)

Begin(online) == [stage |-> "sent", page |-> NoPage, online |-> online]
NoFetch == [stage |-> "idle", page |-> NoPage, online |-> FALSE]

\* refresh(): one at a time, a call during another is dropped.
RefreshBy(online) ==
  /\ woken' = msgs
  /\ fetch' = IF fetch.stage = "idle" THEN Begin(online) ELSE fetch
Refresh == RefreshBy(FALSE)

\* Mutant: the page is taken to be full.
PageAfterFull(c) == <<c + 1, c + Page>>

\* The first Page messages after the cursor. (The cursor cuts created_at to milliseconds, so
\* the page may begin with messages that are shown already and are merged again.)
PageAfter(c) == <<c + 1, IF msgs > c + Page THEN c + Page ELSE msgs>>

\* Without a cursor, the most recent Page messages.
PageTail == <<IF msgs > Page THEN msgs - Page + 1 ELSE 1, msgs>>

\* GET chat/session runs one query.
ReadPage ==
  /\ fetch.stage = "sent"
  /\ fetch' = [fetch EXCEPT !.stage = "read",
                          !.page = IF cursor = 0 THEN PageTail ELSE PageAfter(cursor)]
  /\ UNCHANGED <<relayVars, connVars, wireVars, es, lastId, polling, cursor, shown, woken, faults>>

\* Mutant: the cursor is the session's newest message.
CursorAtNewest(lo, hi) == msgs

\* messages.at(-1) of the page, which stays on an empty page.
CursorAfter(lo, hi) == IF lo <= hi THEN hi ELSE cursor

\* mergeChatSession keeps the newest messages.
Newest(S) == {m \in S : Cardinality({x \in S : x > m}) < Keep}

\* The route's answer has no hasMoreMessages, so the loop never asks for another page.
TakePage ==
  /\ fetch.stage = "read"
  /\ fetch' = NoFetch
  /\ LET lo == fetch.page[1]  hi == fetch.page[2]
     IN /\ shown' = Newest(shown \cup lo .. hi)
        /\ cursor' = CursorAfter(lo, hi)
  /\ UNCHANGED <<relayVars, connVars, wireVars, es, lastId, polling, woken, faults>>

FetchFails ==
  /\ Fault
  /\ fetch.stage # "idle"
  /\ fetch' = NoFetch
  /\ UNCHANGED <<relayVars, connVars, wireVars, es, lastId, polling, cursor, shown, woken>>

Poll ==
  /\ polling
  /\ fetch.stage = "idle"
  /\ Refresh
  /\ UNCHANGED <<relayVars, connVars, wireVars, es, lastId, polling, cursor, shown, faults>>

\* The window's "online" event, after the network was away.
Online ==
  /\ Fault
  /\ RefreshBy(TRUE)
  /\ UNCHANGED <<relayVars, connVars, wireVars, es, lastId, polling, cursor, shown>>

-----------------------------------------------------------------------------
(* The events route and the EventSource.                                   *)

\* Mutant: onopen does not refresh.
OpensQuietly ==
  /\ conn # "none" /\ es # "open"
  /\ EarlyHeaders \/ block.type # "none" \/ conn \in {"live", "closing"}
  /\ es' = "open" /\ polling' = FALSE
  /\ UNCHANGED <<relayVars, connVars, wireVars, lastId, fetch, woken, cursor, shown, faults>>

\* The response's headers arrive, with the first frame or perhaps before the handler has
\* subscribed.
Opens ==
  /\ conn # "none" /\ es # "open"
  /\ EarlyHeaders \/ block.type # "none" \/ conn \in {"live", "closing"}
  /\ es' = "open" /\ polling' = FALSE
  /\ Refresh
  /\ UNCHANGED <<relayVars, connVars, wireVars, lastId, cursor, shown, faults>>

Subscribe ==
  /\ conn = "opening"
  /\ conn' = "subscribed"
  /\ UNCHANGED <<relayVars, since, sent, missed, wireVars, hookVars, faults>>

\* Mutant: nothing is replayed.
ReplayNothing ==
  /\ conn = "subscribed"
  /\ conn' = "live"
  /\ block' = [block EXCEPT !.type = "ready"]
  /\ UNCHANGED <<relayVars, since, sent, missed, due, hookVars, faults>>

\* The retained entries after the Last-Event-ID, the oldest first and ReplayMax at most.
FirstReplayed == IF since < oldest THEN oldest ELSE since + 1
LastReplayed == IF log >= FirstReplayed + ReplayMax THEN FirstReplayed + ReplayMax - 1 ELSE log

\* XRANGE after the subscription, and in one go its frames and "ready": what is announced in
\* between is sent twice, and "ready" ends the block of all frames so far.
Replay ==
  /\ conn = "subscribed"
  /\ conn' = "live"
  /\ sent' = sent \cup FirstReplayed .. LastReplayed
  /\ block' = [type |-> "ready", id |-> IF FirstReplayed <= LastReplayed THEN LastReplayed ELSE block.id]
  /\ UNCHANGED <<relayVars, since, missed, due, hookVars, faults>>

\* subscribe or replay throws: a last frame says so and the response is closed. No heartbeat
\* follows, so the frame is never dispatched.
Degrade ==
  /\ Fault
  /\ conn \in {"opening", "subscribed"}
  /\ conn' = "closing"
  /\ block' = [block EXCEPT !.type = "degraded"]
  /\ UNCHANGED <<relayVars, since, sent, missed, due, hookVars>>

\* The heartbeat, a comment and an empty line, fifteen seconds after "ready" and after the
\* heartbeat before. One with nothing to dispatch changes nothing.
Heartbeat ==
  /\ conn = "live" /\ block.type # "none" /\ due.type = "none"
  /\ due' = block /\ block' = NoBlock
  /\ UNCHANGED <<relayVars, connVars, hookVars, faults>>

\* The block arrives as one event: "chat" refreshes, nobody listens to "ready". A fetch is
\* aborted after ten seconds, so (frames taking less than five) one in flight here was begun
\* by an "online" event.
Dispatch ==
  /\ es = "open" /\ due.type # "none"
  /\ fetch.stage = "idle" \/ fetch.online
  /\ due' = NoBlock
  /\ lastId' = IF due.id = 0 THEN lastId ELSE due.id
  /\ IF due.type = "chat" THEN Refresh ELSE UNCHANGED <<fetch, woken>>
  /\ UNCHANGED <<relayVars, connVars, block, es, polling, cursor, shown, faults>>

\* What was not dispatched is discarded; the fallback timer starts.
Ended(state) ==
  /\ conn' = "none" /\ sent' = {} /\ block' = NoBlock /\ due' = NoBlock
  /\ es' = state /\ polling' = TRUE
  /\ UNCHANGED <<relayVars, since, missed, lastId, fetch, cursor, shown, woken>>

\* The closed response ends, or the connection is lost.
Closes == conn = "closing" /\ es = "open" /\ Ended("error") /\ UNCHANGED faults
Disconnect == Fault /\ conn # "none" /\ Ended("error")

\* The route answers with an error before the stream, and the EventSource gives up.
Refused == Fault /\ conn = "opening" /\ es # "open" /\ Ended("closed")

\* The EventSource reconnects by itself and sends the last id it dispatched.
Reconnect ==
  /\ conn = "none" /\ es = "error"
  /\ conn' = "opening" /\ since' = lastId
  /\ UNCHANGED <<relayVars, sent, missed, wireVars, hookVars, faults>>

-----------------------------------------------------------------------------
Relay(e) == Claim(e) \/ AddToStream(e) \/ Announce(e) \/ Complete(e)
Route == Subscribe \/ Replay \/ Heartbeat \/ Closes \/ Reconnect
Hook == ReadPage \/ TakePage

Next ==
  \/ \E n \in 1 .. 2 : Commit(n)
  \/ \E e \in Events : Relay(e) \/ RelayFails(e)
  \/ Route \/ Hook \/ Opens \/ Dispatch \/ Poll
  \/ FetchFails \/ Online \/ Degrade \/ Disconnect \/ Refused

Spec == Init /\ [][Next]_vars

\* The relay loops for ever, the route's handler and the fetch end, heartbeats are sent and
\* arrive, an EventSource reconnects, the fallback timer fires.
Fairness ==
  /\ \A e \in Events : WF_vars(Relay(e))
  /\ WF_vars(Route) /\ WF_vars(Hook) /\ WF_vars(Opens) /\ WF_vars(Dispatch) /\ WF_vars(Poll)

FairSpec == Spec /\ Fairness

-----------------------------------------------------------------------------
(* Properties.                                                             *)

\* The view never has a hole: what is shown is one run of messages that ends at the
\* cursor, so a fetch from the cursor loses nothing, whatever was dropped or repeated.
ShownWithoutHoles ==
  \/ shown = {} /\ cursor = 0
  \/ \E first \in 1 .. cursor : shown = first .. cursor

\* The replay of this connection was full before it came to event e: it sent ReplayMax entries
\* in a row from the first one the stream held.
LeftBehind(e) ==
  \E first \in Entries :
    /\ since < first /\ (first = since + 1 \/ first <= oldest)
    /\ first .. (first + ReplayMax - 1) \subseteq sent
    /\ first + ReplayMax <= entry[e]

\* An event was handed to the connection, by its channel or by the replay, or the browser had
\* it, or the subscriber missed it, or the stream or a full replay had no room for it.
Reached(e) ==
  \/ entry[e] <= since \/ entry[e] \in sent \/ entry[e] \in missed
  \/ entry[e] < oldest \/ LeftBehind(e)

\* Nothing falls between the subscription and the replay: a live connection was handed every
\* completed event, up to what the bounds of stream and replay cut off.
LiveGetsEveryEvent ==
  conn = "live" => \A e \in Events : outbox[e] = "completed" => entry[e] # 0 /\ Reached(e)

\* The hook is told to refresh after every commit, unless the subscriber missed the event,
\* and unless the commit came between the opening of a response and its "ready" frame, which
\* swallows what came before it: the refresh at the opening covers earlier commits, and
\* later ones have a "chat" frame of their own, or the next opening.
EveryMessageWakes ==
  \A e \in Events, m \in Msgs :
    outbox[e] = "pending" /\ msgs = m /\ (es = "open" => conn \in {"live", "closing"})
      ~> woken >= m \/ entry[e] \in missed

\* "Postgres cursor recovery remains authoritative": whatever happens to the events, a
\* committed message is in the end covered by the hook's cursor.
EveryMessageShown == \A m \in Msgs : msgs >= m ~> cursor >= m

-----------------------------------------------------------------------------
(* The inductive invariant.                                                *)

\* The page in flight begins where the cursor stands, or the view is empty, and it shows
\* what was committed.
PageFits ==
  /\ 1 <= msgs /\ cursor <= msgs
  /\ fetch.stage = "read" =>
       /\ cursor = 0 \/ fetch.page[1] = cursor + 1
       /\ fetch.page[2] <= msgs

\* The stream: an entry is paid for by the first publication of an event or by a fault,
\* every entry anyone knows is in the stream.
StreamSound ==
  /\ log + Cardinality({e \in Events : outbox[e] \in {"absent", "pending", "leased"}})
       <= MaxCommits + faults
  /\ \A e \in Events :
       /\ entry[e] <= log
       /\ outbox[e] \in {"streamed", "announced", "completed"} => entry[e] # 0
  /\ block.id <= log /\ due.id <= log /\ lastId <= log /\ since <= log

\* A live connection was told of every announced event.
Told ==
  conn = "live" =>
    \A e \in Events : outbox[e] \in {"announced", "completed"} => Reached(e)

IInv == TypeOK /\ ShownWithoutHoles /\ PageFits /\ StreamSound /\ Told
=============================================================================
