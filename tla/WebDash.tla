------------------------------ MODULE WebDash -------------------------------
(***************************************************************************)
(* The web dashboard (proxy/webdash.py): the dashboard's events, the       *)
(* sockets they are broadcast to, and the page each browser builds from    *)
(* them.  The addon's hooks, the listener and tornado's handlers run on    *)
(* one event loop, so all messages of one record_* call are written        *)
(* together, and a snapshot is taken and sent in one step.                 *)
(*                                                                         *)
(* What only draws (the topology, the map, the detail rows) is left out.   *)
(***************************************************************************)
EXTENDS Dashboard, Engine, FiniteSets, SequencesExt

CONSTANTS
  Browsers,
  Uses,            (* what the engine may have to decide about              *)
  MaxLog,          (* MAX_LOG_LINES, and MAX_LOG of the page                *)
  SliderPositions, (* what the page's threshold slider can be dragged to    *)
  MaxEvents,       (* bound: calls of record_* and log                      *)
  MaxOpens,        (* bound: sockets a browser opens                        *)
  MaxDisturbances  (* bound: restarts of the proxy and drags of the sliders *)

ASSUME WebAssumption ==
  /\ None \notin Nat
  /\ \A use \in Uses : use.story \in Tokens
  /\ MaxLog \in Nat \ {0}
  /\ SliderPositions \subseteq Nat
  /\ \A n \in {MaxEvents, MaxOpens, MaxDisturbances} : n \in Nat

VARIABLES
  log_lines,   (* Dashboard._log_lines, oldest first                        *)
  clients,     (* _WebSocketHandler.clients: sockets <<browser, number>>    *)
  opened,      (* [Browsers -> Nat]: sockets the browser has opened; the    *)
               (* last one is its current one                               *)
  online,      (* [Browsers -> BOOLEAN]: whether that one is up             *)
  channel,     (* [Browsers -> Seq(message)]: what is on its way to it      *)
  page,        (* [Browsers -> page]                                        *)
  told,        (* history: the tokens something has been recorded about     *)
  spent        (* [events, disturbances]: for the bounds                    *)

serverVars == <<dashboardVars, log_lines, clients>>
browserVars == <<opened, online, channel, page>>
webVars == <<serverVars, browserVars, told, spent>>
-----------------------------------------------------------------------------
(***************************************************************************)
(* The page: a table of rows with the outcome each shows, log lines,       *)
(* counters, the threshold of the slider, and the timelines of the tokens, *)
(* which are never cleared.                                                *)
(***************************************************************************)
NoCounts == [total |-> 0, passed |-> 0, blocked |-> 0]

EmptyPage ==
  [table |-> <<>>, log |-> <<>>, counts |-> NoCounts, rate_limited |-> 0,
   simulatedThreshold |-> None, storiesById |-> [s \in Tokens |-> <<>>]]

(* A bug: the score alone decides, as if no row had a hard reason.         *)
SimulateByRisk(row, threshold) ==
  IF row.risk = None THEN row.outcome
  ELSE IF row.risk >= threshold THEN "BLOCK" ELSE "PASS"

(* What a row would have been under another threshold.                     *)
SimulateOutcome(row, threshold) ==
  IF row.risk = None THEN row.outcome
  ELSE IF row.outcome = "BLOCK" /\ row.reason # "risk threshold exceeded"
    THEN "BLOCK"
  ELSE IF row.risk >= threshold THEN "BLOCK" ELSE "PASS"

ApplyThreshold(row, threshold) ==
  [data |-> row,
   decision |-> IF threshold = None THEN row.outcome
                                    ELSE SimulateOutcome(row, threshold)]

Newest(seq, n) == IF Len(seq) > n THEN SubSeq(seq, Len(seq) - n + 1, Len(seq)) ELSE seq

(* Every row has a handshake to unfold and so two children in the table,   *)
(* which is cut to 2 * MAX_ROWS of them.                                   *)
AddRow(pg, row) ==
  [pg EXCEPT !.table =
     Newest(Append(@, ApplyThreshold(row, pg.simulatedThreshold)), MaxRows)]

AddStoryEvent(pg, story, event) ==
  IF story = None THEN pg
                  ELSE [pg EXCEPT !.storiesById[story] = Append(@, event)]

AddLog(pg, line) == [pg EXCEPT !.log = Newest(Append(@, line), MaxLog)]

IssuanceEvent(story) == [type |-> "issuance", story_id |-> story]

AddIssuance(pg, story) == AddStoryEvent(pg, story, IssuanceEvent(story))

AddRowToStory(pg, row) == AddStoryEvent(pg, row.story_id, row)

(* A bug: the decisions of a snapshot come before its issuances.           *)
ToldFromRows(pg, msg) ==
  FoldLeft(AddIssuance, FoldLeft(AddRowToStory, pg, msg.rows), msg.issuances)

ToldFrom(pg, msg) ==
  FoldLeft(AddRowToStory, FoldLeft(AddIssuance, pg, msg.issuances), msg.rows)

(* A snapshot clears the table and the log and resets the slider; the      *)
(* timelines are added to.                                                 *)
ShowSnapshot(pg, msg) ==
  LET cleared == [pg EXCEPT !.table = <<>>, !.log = <<>>,
                            !.simulatedThreshold = msg.risk_threshold]
      full == ToldFrom(FoldLeft(AddRow, cleared, msg.rows), msg)
  IN  [FoldLeft(AddLog, full, msg.log_lines)
         EXCEPT !.counts = msg.counts, !.rate_limited = msg.rate_limited]

(* ws.onmessage; a "challenge_issued" is not shown.                        *)
OnMessage(pg, msg) ==
  CASE msg.type = "snapshot" -> ShowSnapshot(pg, msg)
    [] msg.type = "row" -> AddRowToStory(AddRow(pg, msg.row), msg.row)
    [] msg.type = "issuance" -> AddIssuance(pg, msg.story_id)
    [] msg.type = "rate_limited" -> [pg EXCEPT !.rate_limited = msg.total]
    [] msg.type = "log" -> AddLog(pg, msg.line)
    [] msg.type = "counts" -> [pg EXCEPT !.counts = msg.counts]
    [] OTHER -> pg
-----------------------------------------------------------------------------
(***************************************************************************)
(* The dashboard's side: what it records, it broadcasts.                   *)
(***************************************************************************)
ShownCounts(c) == [total |-> c.total, passed |-> c.passed, blocked |-> c.blocked]

Snapshot ==
  [type |-> "snapshot", rows |-> rows, log_lines |-> log_lines,
   counts |-> ShownCounts(counts), risk_threshold |-> RiskThreshold,
   issuances |-> issuances, rate_limited |-> counts.rate_limited]

Current(b) == <<b, opened[b]>>

Reaches(b) == online[b] /\ Current(b) \in clients

Stale == {s \in clients : s # Current(s[1]) \/ ~online[s[1]]}

(* A write to a socket whose other end is gone raises, and drops it from   *)
(* the set, or is lost.                                                    *)
Broadcast(story, messages) ==
  /\ channel' = [b \in Browsers |->
                   IF Reaches(b) THEN channel[b] \o messages ELSE channel[b]]
  /\ \E raising \in SUBSET Stale : clients' = clients \ raising
  /\ spent.events < MaxEvents
  /\ spent' = [spent EXCEPT !.events = @ + 1]
  /\ told' = told \cup ({story} \ {None})
  /\ UNCHANGED <<opened, online, page>>

LogMessages(lines) ==
  [i \in DOMAIN lines |-> [type |-> "log", line |-> lines[i]]]

(* Dashboard.log, after what the record_* call has sent itself.            *)
BroadcastAndLog(story, messages, lines) ==
  /\ log_lines' = Newest(log_lines \o lines, MaxLog)
  /\ Broadcast(story, messages \o LogMessages(lines))

RowMessages(row) ==
  <<[type |-> "counts", counts |-> ShownCounts(counts')],
    [type |-> "row", row |-> row]>>

DecisionOn(use) ==
  Evaluate(use.binding, use.ja4, use.dpop, use.source_ip, use.ja4h)

(* The second line is the difference of the JA4s, when there is one.       *)
ShowDecision(use) ==
  LET d == DecisionOn(use)
      row == Row(d.outcome, d.reason, d.risk, use.story)
  IN  /\ RecordDecision(d.outcome, d.reason, d.risk, use.story)
      /\ \E lines \in {<<d.reason>>, <<d.reason, "JA4 diff">>} :
           /\ Len(lines) = 2 => d.reason = "JA4 mismatch"
           /\ BroadcastAndLog(use.story, RowMessages(row), lines)

ShowRawBlock(reason, story) ==
  /\ RecordRawBlock(reason, story)
  /\ BroadcastAndLog(story, RowMessages(Row("BLOCK", reason, None, story)),
                     <<reason>>)

(* A token is new when it is issued.                                       *)
ShowIssuance(story) ==
  /\ story \notin told
  /\ RecordIssuance(story)
  /\ Broadcast(story, <<[type |-> "issuance", story_id |-> story]>>)
  /\ UNCHANGED log_lines

ShowRateLimited ==
  /\ RecordRateLimited
  /\ BroadcastAndLog(None,
                     <<[type |-> "rate_limited", total |-> counts'.rate_limited]>>,
                     <<"RATE LIMITED">>)

ShowChallengeIssued ==
  /\ RecordChallengeIssued
  /\ BroadcastAndLog(None, <<[type |-> "challenge_issued"]>>,
                     <<"CHALLENGE issued">>)

(* record_challenge_passed, a revocation, a ClientHello: a line and no more*)
ShowLine(line) ==
  /\ BroadcastAndLog(None, <<>>, <<line>>)
  /\ UNCHANGED dashboardVars
-----------------------------------------------------------------------------
(***************************************************************************)
(* Sockets and browsers.                                                   *)
(***************************************************************************)

(* A bug: the first messages are those of the next event.                  *)
OpenWithoutSnapshot(b) ==
  /\ ~online[b]
  /\ opened' = [opened EXCEPT ![b] = @ + 1]
  /\ online' = [online EXCEPT ![b] = TRUE]
  /\ clients' = clients \cup {Current(b)'}
  /\ UNCHANGED <<dashboardVars, log_lines, channel, page, told, spent>>

(* connect() of the page and open() of the handler.                        *)
Open(b) ==
  /\ ~online[b]
  /\ opened' = [opened EXCEPT ![b] = @ + 1]
  /\ online' = [online EXCEPT ![b] = TRUE]
  /\ clients' = clients \cup {Current(b)'}
  /\ channel' = [channel EXCEPT ![b] = <<Snapshot>>]
  /\ UNCHANGED <<dashboardVars, log_lines, page, told, spent>>

(* A bug: the handler is remembered by the browser it serves.              *)
OnCloseOfBrowser(s) ==
  /\ s \in Stale
  /\ clients' = {other \in clients : other[1] # s[1]}
  /\ UNCHANGED <<dashboardVars, log_lines, browserVars, told, spent>>

(* on_close: the server notices, perhaps after the page is back.           *)
OnClose(s) ==
  /\ s \in Stale
  /\ clients' = clients \ {s}
  /\ UNCHANGED <<dashboardVars, log_lines, browserVars, told, spent>>

Deliver(b) ==
  /\ online[b] /\ channel[b] # <<>>
  /\ page' = [page EXCEPT ![b] = OnMessage(@, Head(channel[b]))]
  /\ channel' = [channel EXCEPT ![b] = Tail(@)]
  /\ UNCHANGED <<serverVars, opened, online, told, spent>>

(* The connection breaks, with what was still on its way; ws.onclose.      *)
Break(b) ==
  /\ online[b]
  /\ opened[b] < MaxOpens
  /\ online' = [online EXCEPT ![b] = FALSE]
  /\ channel' = [channel EXCEPT ![b] = <<>>]
  /\ UNCHANGED <<serverVars, opened, page, told, spent>>

(* The slider is disabled until the first snapshot.                        *)
Drag(b, threshold) ==
  /\ page[b].simulatedThreshold \notin {None, threshold}
  /\ spent.disturbances < MaxDisturbances
  /\ spent' = [spent EXCEPT !.disturbances = @ + 1]
  /\ page' = [page EXCEPT
       ![b].simulatedThreshold = threshold,
       ![b].table = [i \in DOMAIN @ |-> ApplyThreshold(@[i].data, threshold)]]
  /\ UNCHANGED <<serverVars, opened, online, channel, told>>

ProxyRestarts ==
  /\ spent.disturbances < MaxDisturbances
  /\ \A b \in Browsers : opened[b] < MaxOpens
  /\ spent' = [spent EXCEPT !.disturbances = @ + 1]
  /\ rows' = <<>> /\ issuances' = <<>> /\ log_lines' = <<>>
  /\ counts' = [c \in DOMAIN counts |-> 0]
  /\ clients' = {}
  /\ online' = [b \in Browsers |-> FALSE]
  /\ channel' = [b \in Browsers |-> <<>>]
  /\ UNCHANGED <<opened, page, told>>
-----------------------------------------------------------------------------
WebInit ==
  /\ DashboardInit
  /\ log_lines = <<>>
  /\ clients = {}
  /\ opened = [b \in Browsers |-> 0]
  /\ online = [b \in Browsers |-> FALSE]
  /\ channel = [b \in Browsers |-> <<>>]
  /\ page = [b \in Browsers |-> EmptyPage]
  /\ told = {}
  /\ spent = [events |-> 0, disturbances |-> 0]

WebNext ==
  \/ \E use \in Uses : ShowDecision(use)
  \/ \E story \in Optional(Tokens) : ShowRawBlock("missing DPoP proof", story)
  \/ \E story \in Tokens : ShowIssuance(story)
  \/ ShowRateLimited
  \/ ShowChallengeIssued
  \/ ShowLine("tls_clienthello")
  \/ \E s \in clients : OnClose(s)
  \/ \E b \in Browsers :
       \/ Open(b)
       \/ Deliver(b)
       \/ Break(b)
       \/ \E threshold \in SliderPositions : Drag(b, threshold)
  \/ ProxyRestarts

(* A page retries a second after each onclose, and TCP delivers what was   *)
(* written to a connection that stays up.                                  *)
WebFairness ==
  \A b \in Browsers : WF_webVars(Open(b)) /\ WF_webVars(Deliver(b))

WebSpec == WebInit /\ [][WebNext]_webVars /\ WebFairness
-----------------------------------------------------------------------------
(***************************************************************************)
(* Properties.                                                             *)
(***************************************************************************)
Data(table) == [i \in DOMAIN table |-> table[i].data]

(* What the page will be when all that was sent has arrived.               *)
PageToBe(b) == FoldLeft(OnMessage, page[b], channel[b])

Agrees(pg) ==
  /\ Data(pg.table) = rows
  /\ pg.log = log_lines
  /\ pg.counts = ShownCounts(counts)
  /\ pg.rate_limited = counts.rate_limited

(* Whatever broke before, a page that is connected is only behind: when it *)
(* has read what was sent to it, its table, log and counters are those of  *)
(* the dashboard; nothing is missing and nothing is there twice.           *)
CaughtUpAgrees == \A b \in Browsers : online[b] => Agrees(PageToBe(b))

(* Once the connections stop breaking, the page is the dashboard's for     *)
(* good.                                                                   *)
BrowserCatchesUp ==
  \A b \in Browsers : <>[](online[b] /\ channel[b] = <<>> /\ Agrees(page[b]))

IsRow(event) == "outcome" \in DOMAIN event

(* The decisions on a token in the table, by their places.                 *)
RowsAbout(s) == {i \in DOMAIN rows : rows[i].story_id = s}

RowEvents(story) == {i \in DOMAIN story : IsRow(story[i])}

(* The last rows of the timeline are the token's rows of the table, in     *)
(* their order: placeOf says where they are.                               *)
EndsWithRows(story, s) ==
  \E placeOf \in [RowsAbout(s) -> RowEvents(story)] :
    \A i \in RowsAbout(s) :
      /\ story[placeOf[i]] = rows[i]
      /\ \A j \in RowsAbout(s) : i < j => placeOf[i] < placeOf[j]
      /\ \A place \in RowEvents(story) :
           place > placeOf[i] => \E j \in RowsAbout(s) : placeOf[j] = place

(* The timeline of a token on a caught-up page tells its story: it begins  *)
(* with the issuance while the dashboard still has it, repeats it at most  *)
(* once per connection, and ends with the decisions in the table.          *)
StoryIsTold ==
  \A b \in Browsers, s \in Tokens :
    online[b] =>
      LET story == PageToBe(b).storiesById[s]
      IN  /\ Contains(issuances, s) =>
               story # <<>> /\ story[1] = IssuanceEvent(s)
          /\ Cardinality(DOMAIN story \ RowEvents(story)) <= opened[b]
          /\ EndsWithRows(story, s)

WithThreshold(threshold) == INSTANCE Engine WITH RiskThreshold <- threshold

(* A cell of the table shows what the engine would have decided under the  *)
(* slider's threshold, about any use that could have led to that row.      *)
CellsFollowSlider ==
  \A b \in Browsers :
    \A i \in DOMAIN page[b].table :
      LET cell == page[b].table[i]
      IN  /\ cell.data.risk = None => cell.decision = "BLOCK"
          /\ \A use \in Uses :
               DecisionOn(use) = [outcome |-> cell.data.outcome,
                                  reason |-> cell.data.reason,
                                  risk |-> cell.data.risk] =>
                 cell.decision =
                   WithThreshold(page[b].simulatedThreshold)!Evaluate(
                     use.binding, use.ja4, use.dpop, use.source_ip,
                     use.ja4h).outcome
=============================================================================
