------------------------------ MODULE LiveView -------------------------------
(***************************************************************************)
(* A log line's way to the reader: the engine's store, the live tail of the *)
(* page's connection (server/src/services/liveTail.js), the page's searches *)
(* and live batches (web/src/App.jsx) and the table that shows and expands  *)
(* them (web/src/components/LogViewer.jsx), through lost connections and    *)
(* reloads of the page.                                                     *)
(*                                                                          *)
(* WebClient has the socket's states and handlers, of which its OneLifeline *)
(* leaves one connection or one on its way; LiveTail has the tail's timer   *)
(* and counts, of which distinct messages that stay in the window leave a   *)
(* set.  Severities, highlighting and scrolling are left out.               *)
(***************************************************************************)
EXTENDS Integers, Sequences, FiniteSets, Functions

CONSTANTS
  MaxRecords,    \* bound on log records; their messages are distinct, and all of
                 \* them are within both windows
  Queries,       \* texts of the query bar
  EmptyQuery,    \* the empty text
  DefaultQuery,  \* the query of a page whose URL has none ("timeout")
  Finds,         \* Finds[q]: records that match the first term of q
  Keeps,         \* Keeps[q]: records that pass the label selectors of q
  LiveMaxLines,  \* LIVE_MAX_LINES (5000)
  MaxSearches,   \* bound on the searches of a page
  MaxActs        \* bound on lost connections and on edits, toggles, clicks and reloads

Records == 1 .. MaxRecords

ASSUME LiveViewAssumption ==
  /\ MaxRecords \in Nat
  /\ {EmptyQuery, DefaultQuery} \subseteq Queries /\ EmptyQuery # DefaultQuery
  /\ Finds \in [Queries -> SUBSET Records] /\ Keeps \in [Queries -> SUBSET Records]
  /\ LiveMaxLines \in Nat \ {0}
  /\ MaxSearches \in Nat \ {0} /\ MaxActs \in Nat

VARIABLES
  stored,        \* the number of records a search can find, 1 .. stored
  seen,          \* the messages the connection's tail has sent
  wire,          \* sent and not received
  link,          \* "off"; "waiting", to connect or for the timer to; "up"
  tailQuery,     \* the query when the tail was switched on
  query, isLive, isLoading,
  logs,          \* rows: [rec, from |-> its search, or 0 if live, at |-> when
                 \* a live one was received, id]
  buffer,        \* bufferRef.current
  newLogCount,
  newCount,      \* newCountRef.current
  searches,      \* runQuery calls of this page: [query, floor], floor the records
                 \* it cannot miss; <<>> when it was answered
  expandedIds,
  ms,            \* Date.now() of the last line received
  clicked,       \* history: rows clicked an odd number of times
  raced,         \* history: a batch was shown while a search was out since
                 \* newLogCount was reset
  wiped,         \* history: records taken off the table by an "answer" without them
                 \* or by an "error": <<record, cause>>
  tails,         \* history: connections of this page
  acts           \* what MaxActs bounds, so far

pageVars == <<query, isLive, isLoading, logs, buffer, newLogCount, newCount, searches>>
tableVars == <<expandedIds, clicked>>
linkVars == <<seen, wire, link, tailQuery, tails>>
lineVars == <<ms, raced, wiped>>

vars == <<stored, linkVars, pageVars, tableVars, lineVars, acts>>

Found(q) == Finds[q] \cap 1 .. stored
Out == {n \in DOMAIN searches : searches[n] # <<>>}
Live(row) == row.from = 0

Act == acts < MaxActs /\ acts' = acts + 1

----------------------------------------------------------------------------

(* The page after mounting, from the query and the switch of its URL.       *)
Init ==
  /\ stored = 0
  /\ query \in Queries \ {EmptyQuery} /\ isLive \in BOOLEAN
  /\ isLoading = TRUE
  /\ logs = <<>> /\ buffer = <<>>
  /\ newLogCount = 0 /\ newCount = 0
  /\ searches = <<[query |-> query, floor |-> {}]>>
  /\ expandedIds = {}
  /\ seen = {} /\ wire = <<>> /\ tails = 0
  /\ link = IF isLive THEN "waiting" ELSE "off"
  /\ tailQuery = query
  /\ ms = 0
  /\ clicked = {} /\ raced = FALSE /\ wiped = {}
  /\ acts = 0

(*************************** engine, tail and network **********************)

Store ==
  /\ stored < MaxRecords
  /\ stored' = stored + 1
  /\ UNCHANGED <<linkVars, pageVars, tableVars, lineVars, acts>>

(* Mutated form: what was stored before is no news to the new tail.         *)
ConnectSkipsBacklog ==
  /\ link = "waiting" /\ buffer = <<>>
  /\ link' = "up"
  /\ seen' = Found(tailQuery)
  /\ tails' = tails + 1
  /\ ms' = ms + 1
  /\ UNCHANGED <<stored, wire, tailQuery, pageVars, tableVars, raced, wiped, acts>>

(* The handshake ends well; the server makes a tail that has seen nothing.  *)
(* It takes longer than a millisecond.  The buffer is empty by then: it is  *)
(* when the tail is switched on, and the timer that connects again (1000    *)
(* ms) is armed behind the last line and outlasts the interval (350 ms).    *)
Connect ==
  /\ link = "waiting" /\ buffer = <<>>
  /\ link' = "up"
  /\ tails' = tails + 1
  /\ ms' = ms + 1
  /\ UNCHANGED <<stored, seen, wire, tailQuery, pageVars, tableVars, raced, wiped, acts>>

(* The connection is gone, with its tail and all it carried.                *)
Disconnect(l) == link' = l /\ wire' = <<>> /\ seen' = {}

(* The connection is lost, and a timer is armed that connects again.        *)
Lose ==
  /\ link = "up"
  /\ Act
  /\ Disconnect("waiting")
  /\ UNCHANGED <<stored, tailQuery, tails, pageVars, tableVars, lineVars>>

(* An answer lists its records in the order they were stored.               *)
InOrder(S) ==
  LET places == 1 .. Cardinality(S)
  IN CHOOSE s \in [places -> S] : \A i, j \in places : i < j => s[i] < s[j]

Unseen == Found(tailQuery) \ seen

(* Mutated form: only what the last answer held counts as seen.             *)
PollForgets ==
  /\ link = "up" /\ Unseen # {}
  /\ wire' = wire \o InOrder(Unseen)
  /\ seen' = Unseen
  /\ UNCHANGED <<stored, link, tailQuery, tails, pageVars, tableVars, lineVars, acts>>

(* A poll and its answer: what the tail has not seen is sent.               *)
Poll ==
  /\ link = "up" /\ Unseen # {}
  /\ wire' = wire \o InOrder(Unseen)
  /\ seen' = seen \cup Unseen
  /\ UNCHANGED <<stored, link, tailQuery, tails, pageVars, tableVars, lineVars, acts>>

(* Mutated form: a line is identified by its place in the buffer.           *)
ReceivePositioned ==
  /\ wire # <<>>
  /\ wire' = Tail(wire)
  /\ ms' \in {ms, ms + 1}
  /\ buffer' = Append(buffer, [rec |-> Head(wire), from |-> 0, at |-> ms', id |-> <<"live", Len(buffer)>>])
  /\ UNCHANGED <<stored, seen, link, tailQuery, tails, query, isLive, isLoading, logs, newLogCount,
                 newCount, searches, tableVars, raced, wiped, acts>>

(* onmessage: a row with an identifier of its millisecond, into the buffer. *)
Receive ==
  /\ wire # <<>>
  /\ wire' = Tail(wire)
  /\ ms' \in {ms, ms + 1}
  /\ buffer' = Append(buffer, [rec |-> Head(wire), from |-> 0, at |-> ms', id |-> <<"live", ms'>>])
  /\ UNCHANGED <<stored, seen, link, tailQuery, tails, query, isLive, isLoading, logs, newLogCount,
                 newCount, searches, tableVars, raced, wiped, acts>>

(*************************** the page **************************************)

(* The interval: the buffer goes on top of the table.                       *)
Flush ==
  /\ isLive /\ buffer # <<>>
  /\ newCount' = newCount + Len(buffer)
  /\ newLogCount' = newCount'
  /\ LET merged == buffer \o logs
     IN logs' = SubSeq(merged, 1, IF Len(merged) < LiveMaxLines THEN Len(merged) ELSE LiveMaxLines)
  /\ buffer' = <<>>
  /\ raced' = (raced \/ Out # {})
  /\ UNCHANGED <<stored, linkVars, query, isLive, isLoading, searches, tableVars, ms, wiped, acts>>

(* Mutated form: the count behind the state is not reset.                   *)
RunQueryKeepsCount ==
  /\ Len(searches) < MaxSearches
  /\ searches' = Append(searches, [query |-> query, floor |-> Found(query)])
  /\ isLoading' = TRUE
  /\ newLogCount' = 0 /\ newCount' = newCount
  /\ raced' = FALSE

(* runQuery up to its await.                                                *)
RunQuery ==
  /\ Len(searches) < MaxSearches
  /\ searches' = Append(searches, [query |-> query, floor |-> Found(query)])
  /\ isLoading' = TRUE
  /\ newLogCount' = 0 /\ newCount' = 0
  /\ raced' = FALSE

(* The rows of an answer: identified by their place, then filtered.         *)
Rows(n, s) ==
  LET kept == InOrder({i \in DOMAIN s : s[i] \in Keeps[searches[n].query]})
  IN [j \in DOMAIN kept |->
        [rec |-> s[kept[j]], from |-> n, at |-> 0, id |-> <<"found", kept[j]>>]]

(* The table becomes a search's rows; history: what that took off it.      *)
Replace(rows, cause) ==
  /\ logs' = rows
  /\ wiped' = wiped \cup (({row.rec : row \in Range(logs)} \ {row.rec : row \in Range(rows)}) \X {cause})

(* runQuery after its await: the answer to any search that is out replaces  *)
(* the table; an error empties it.                                          *)
Settle(n) ==
  /\ n \in Out
  /\ \/ Replace(<<>>, "error")
     \/ \E found \in SUBSET Found(searches[n].query) :
          searches[n].floor \subseteq found /\ Replace(Rows(n, InOrder(found)), "answer")
  /\ isLoading' = FALSE
  /\ searches' = [searches EXCEPT ![n] = <<>>]
  /\ UNCHANGED <<stored, linkVars, query, isLive, buffer, newLogCount, newCount, tableVars, ms, raced, acts>>

(* What LogViewer draws: no row while the page is loading; else every row,  *)
(* the first ones marked as new, and with its fields when it is expanded.   *)
Table ==
  IF isLoading THEN <<>>
  ELSE [i \in DOMAIN logs |-> [rec |-> logs[i].rec,
                               isNew |-> i <= newLogCount,
                               isExpanded |-> logs[i].id \in expandedIds]]

(*************************** the user **************************************)

Type ==
  /\ Act
  /\ query' \in Queries \ {query}
  /\ UNCHANGED <<stored, linkVars, isLive, isLoading, logs, buffer, newLogCount, newCount, searches,
                 tableVars, lineVars>>

PressEnter ==
  /\ RunQuery
  /\ UNCHANGED <<stored, linkVars, query, isLive, logs, buffer, tableVars, ms, wiped, acts>>

(* isLive changes: the live effect runs, or is cleaned up.                  *)
Switch ==
  /\ Act
  /\ isLive' = ~isLive
  /\ buffer' = <<>>
  /\ Disconnect(IF isLive THEN "off" ELSE "waiting")
  /\ tailQuery' = IF isLive THEN tailQuery ELSE query
  /\ UNCHANGED <<stored, tails, query, logs, tableVars, ms, wiped>>

(* The space bar.                                                           *)
PressSpace ==
  /\ Switch
  /\ IF isLive THEN UNCHANGED <<newLogCount, newCount, raced>>
               ELSE newLogCount' = 0 /\ newCount' = 0 /\ raced' = FALSE
  /\ UNCHANGED <<isLoading, searches>>

(* The switch of the query bar searches, too.                               *)
ClickPill == Switch /\ RunQuery

(* A click on a row, which shows or hides its fields.                       *)
Click(i) ==
  /\ i \in DOMAIN Table
  /\ Act
  /\ LET row == logs[i]
         Toggle(S, x) == IF x \in S THEN S \ {x} ELSE S \cup {x}
     IN expandedIds' = Toggle(expandedIds, row.id) /\ clicked' = Toggle(clicked, row)
  /\ UNCHANGED <<stored, linkVars, pageVars, lineVars>>

(* The page is reloaded: query and switch survive in its URL.               *)
Reload ==
  /\ Act
  /\ query' = IF query = EmptyQuery THEN DefaultQuery ELSE query
  /\ isLoading' = TRUE
  /\ logs' = <<>> /\ buffer' = <<>>
  /\ newLogCount' = 0 /\ newCount' = 0
  /\ searches' = <<[query |-> query', floor |-> Found(query')]>>
  /\ expandedIds' = {}
  /\ Disconnect(IF isLive THEN "waiting" ELSE "off")
  /\ tails' = 0
  /\ tailQuery' = query'
  /\ clicked' = {} /\ raced' = FALSE /\ wiped' = {}
  /\ UNCHANGED <<stored, isLive, ms>>

----------------------------------------------------------------------------

Next ==
  \/ Store \/ Connect \/ Lose \/ Poll \/ Receive
  \/ Flush \/ (\E n \in DOMAIN searches : Settle(n))
  \/ Type \/ PressEnter \/ PressSpace \/ ClickPill \/ (\E i \in DOMAIN logs : Click(i)) \/ Reload

(* The browser connects again until it succeeds, the tail polls (LiveTail), *)
(* what a connection carries arrives, timers fire and searches are          *)
(* answered.  The user owes nothing.                                        *)
Spec ==
  /\ Init /\ [][Next]_vars
  /\ WF_vars(Connect) /\ WF_vars(Poll) /\ WF_vars(Receive) /\ WF_vars(Flush)
  /\ \A n \in 1 .. MaxSearches : WF_vars(Settle(n))

----------------------------------------------------------------------------
(* Properties *)

Visible(r) == \E i \in DOMAIN Table : Table[i].rec = r

(* README.md:263: another matching log is ingested while the live tail is   *)
(* on, and its message appears without refreshing the page.  The code shows *)
(* it in a table that a search under way hides, and replaces the table by   *)
(* the search's answer, which was made before.                              *)
Appears == \A r \in Records :
  (r <= stored /\ isLive /\ query = tailQuery /\ r \in Finds[query] \cap Keeps[query])
    ~> (Visible(r) \/ ~isLive \/ query # tailQuery \/ <<r, "error">> \in wiped)

(* This is the one way the code has to lose a line: a matching record       *)
(* appears unless a search's outcome took it off the table.  A connection   *)
(* lost with lines under way, a reload of the page, or a batch that meets a *)
(* full table do not.                                                       *)
AppearsOrWiped == \A r \in Records :
  (r <= stored /\ isLive /\ r \in Finds[tailQuery])
    ~> (Visible(r) \/ ~isLive \/ r \notin Finds[tailQuery] \/ \E w \in wiped : w[1] = r)

(* Rows marked as new (LogViewer.jsx:334) are live lines, unless they were  *)
(* counted while a search was out whose answer then replaced them.          *)
MarkedAreLive ==
  raced \/ \A i \in DOMAIN Table : Table[i].isNew => Live(logs[i])

(* A line that is sent again is sent by another connection's tail.          *)
OncePerConnection == \A r \in Records :
  Cardinality({i \in DOMAIN (buffer \o logs) : LET row == (buffer \o logs)[i]
                                             IN Live(row) /\ row.rec = r}) <= tails

(* A live line that came alone in its millisecond is expanded as the user   *)
(* left it, wherever batches, searches and reconnections have moved it.     *)
LiveRowsKeepExpansion ==
  \A i \in DOMAIN Table :
    (Live(logs[i]) /\ \A other \in Range(logs) \cup clicked : other.at = logs[i].at => other = logs[i])
      => (Table[i].isExpanded <=> logs[i] \in clicked)

(* LogViewer.jsx:388: "Click row to expand".  The code expands whatever row *)
(* has the identifier of the row clicked: lines of one millisecond, and the *)
(* rows that later searches put in its place.                               *)
ClickExpandsRow ==
  \A i \in DOMAIN Table : Table[i].isExpanded <=> logs[i] \in clicked

=============================================================================
