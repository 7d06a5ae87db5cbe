------------------------------ MODULE WebClient ------------------------------
(***************************************************************************)
(* The React client (web/src/App.jsx and the controls of QueryBar.jsx):     *)
(* searches whose answers come in any order, and the live tail's socket     *)
(* with its reconnect timer, its buffer and the cleanup of its effect.      *)
(*                                                                          *)
(* Event handlers, effects and callbacks run to completion; a click or a    *)
(* key press renders and runs the effects it causes before any other event. *)
(* What the server sends is abstracted: a search finds rows, finds none, or *)
(* fails, and stands for all its rows by one; a live line is a number.      *)
(***************************************************************************)
EXTENDS Naturals, Sequences

CONSTANTS
  Queries,       \* texts of the query bar
  Ranges,        \* the time ranges of the menu
  Sockets,       \* WebSocket objects; a closed one may stand for a new one
  NoSocket,      \* null
  LiveMaxLines,  \* LIVE_MAX_LINES (5000)
  MaxSearches,   \* bound on searches
  MaxEffects,    \* bound on how often the live tail is switched on
  MaxLines       \* bound on live lines

ASSUME WebClientAssumption ==
  /\ NoSocket \notin Sockets
  /\ LiveMaxLines \in Nat \ {0}
  /\ MaxSearches \in Nat \ {0}
  /\ MaxEffects \in Nat \ {0}
  /\ MaxLines \in Nat

VARIABLES
  query, timeRange, isLive, isLoading, queryError, logs, newLogCount, socketState,
  socketRef,    \* socketRef.current
  buffer,       \* bufferRef.current: live lines not shown yet
  newCount,     \* newCountRef.current
  searches,     \* runQuery calls so far
  asked,        \* history: the query and the time range of the last search
  outcome,      \* search -> "none", "out", "found" or "empty" (nothing, or an error)
  conn,         \* socket -> state, the effect that made it, handlers replaced
  effect,       \* the last run of the live effect
  stopped,      \* runs of the effect whose cleanup has run
  timer,        \* runs of the effect whose reconnect timer is armed
  lines,        \* history: live lines received, each the run of the effect it was for
  label         \* a click on the slider has still to reach its checkbox:
                \* <<isLive when it began>>, or <<>>

searchVars == <<isLoading, searches, asked, outcome>>
countVars == <<newLogCount, newCount>>
barVars == <<query, timeRange>>
liveVars == <<isLive, socketState, socketRef, buffer, conn, effect, stopped, timer>>

vars == <<barVars, isLive, isLoading, queryError, logs, countVars, socketState, socketRef, buffer,
          searches, asked, outcome, conn, effect, stopped, timer, lines, label>>

Searches == 1 .. MaxSearches

Rows == ({"found"} \X Searches) \cup ({"live"} \X (1 .. MaxLines))

----------------------------------------------------------------------------

(* The page after mounting: the initial query is out and, should the URL    *)
(* ask for it, the live tail is connecting.                                 *)
Init ==
  /\ query \in Queries /\ timeRange \in Ranges
  /\ isLoading = TRUE /\ queryError = FALSE
  /\ logs = <<>>
  /\ newLogCount = 0 /\ newCount = 0
  /\ searches = 1
  /\ asked = <<query, timeRange>>
  /\ outcome = [n \in Searches |-> IF n = 1 THEN "out" ELSE "none"]
  /\ buffer = <<>> /\ stopped = {} /\ timer = {}
  /\ \/ /\ isLive = FALSE /\ socketState = "off" /\ socketRef = NoSocket /\ effect = 0
        /\ conn = [s \in Sockets |-> [state |-> "closed", effect |-> 0, muted |-> FALSE]]
     \/ /\ isLive = TRUE /\ socketState = "connecting" /\ socketRef \in Sockets /\ effect = 1
        /\ conn = [s \in Sockets |->
                     [state |-> IF s = socketRef THEN "connecting" ELSE "closed",
                      effect |-> IF s = socketRef THEN 1 ELSE 0, muted |-> FALSE]]
  /\ lines = <<>> /\ label = <<>>

(*************************** searches **************************************)

(* runQuery up to its await.                                                *)
RunQuery(q, range) ==
  /\ searches < MaxSearches
  /\ searches' = searches + 1
  /\ asked' = <<q, range>>
  /\ outcome' = [outcome EXCEPT ![searches + 1] = "out"]
  /\ isLoading' = TRUE
  /\ queryError' = FALSE
  /\ newLogCount' = 0 /\ newCount' = 0

(* runQuery after its await, and its finally: the answer of any search that *)
(* is out, filtered by the labels of its query, replaces what is shown, and *)
(* an error empties it.                                                     *)
Settle(n) ==
  /\ outcome[n] = "out"
  /\ \E o \in {"found", "empty"}, failed \in BOOLEAN :
       /\ failed => o = "empty"
       /\ outcome' = [outcome EXCEPT ![n] = o]
       /\ logs' = IF o = "found" THEN <<<<"found", n>>>> ELSE <<>>
       /\ queryError' = (queryError \/ failed)
  /\ isLoading' = FALSE
  /\ UNCHANGED <<barVars, countVars, liveVars, searches, asked, lines, label>>

(*************************** the live effect *******************************)

(* connect: a socket whose handlers belong to run e of the effect.          *)
Connect(s, e) ==
  /\ conn[s].state = "closed"
  /\ conn' = [conn EXCEPT ![s] = [state |-> "connecting", effect |-> e, muted |-> FALSE]]
  /\ socketRef' = s
  /\ socketState' = "connecting"

(* isLive becomes true and the effect runs.                                 *)
SwitchOn ==
  /\ ~isLive
  /\ effect < MaxEffects
  /\ isLive' = TRUE
  /\ effect' = effect + 1
  /\ newLogCount' = 0 /\ newCount' = 0
  /\ buffer' = <<>>
  /\ \E s \in Sockets : Connect(s, effect + 1)
  /\ UNCHANGED <<stopped, timer>>

(* close() of the socket in use: one that is still connecting is told to    *)
(* close as soon as it opens, and its other handlers are taken away.        *)
Closing(c) ==
  IF c.state = "connecting" THEN [c EXCEPT !.muted = TRUE]
  ELSE IF c.state = "open" THEN [c EXCEPT !.state = "closing"]
  ELSE c

(* Mutated form: the cleanup does not touch the reconnect timer.            *)
SwitchOffTimer ==
  /\ isLive
  /\ isLive' = FALSE
  /\ stopped' = stopped \cup {effect}
  /\ conn' = [s \in Sockets |-> IF s = socketRef THEN Closing(conn[s]) ELSE conn[s]]
  /\ socketRef' = NoSocket
  /\ buffer' = <<>>
  /\ socketState' = "off"
  /\ UNCHANGED <<effect, timer>>

(* Mutated form: the cleanup leaves the buffer as it is.                    *)
SwitchOffBuffer ==
  /\ isLive
  /\ isLive' = FALSE
  /\ stopped' = stopped \cup {effect}
  /\ timer' = timer \ {effect}
  /\ conn' = [s \in Sockets |-> IF s = socketRef THEN Closing(conn[s]) ELSE conn[s]]
  /\ socketRef' = NoSocket
  /\ socketState' = "off"
  /\ UNCHANGED <<effect, buffer>>

(* isLive becomes false: the effect's cleanup, and its run with nothing     *)
(* left to close.                                                           *)
SwitchOff ==
  /\ isLive
  /\ isLive' = FALSE
  /\ stopped' = stopped \cup {effect}
  /\ timer' = timer \ {effect}
  /\ conn' = [s \in Sockets |-> IF s = socketRef THEN Closing(conn[s]) ELSE conn[s]]
  /\ socketRef' = NoSocket
  /\ buffer' = <<>>
  /\ socketState' = "off"
  /\ UNCHANGED effect

(* Mutated form: the handshake's end is reported by a muted socket too.     *)
WsOpenAlways(s) ==
  /\ conn[s].state = "connecting"
  /\ conn' = [conn EXCEPT ![s].state = "open"]
  /\ socketState' = "connected"
  /\ UNCHANGED <<barVars, countVars, searchVars, queryError, logs, isLive, socketRef, buffer, effect,
                 stopped, timer, lines, label>>

(* onopen.                                                                  *)
WsOpen(s) ==
  /\ conn[s].state = "connecting"
  /\ \/ /\ conn[s].muted
        /\ conn' = [conn EXCEPT ![s].state = "closing"]
        /\ UNCHANGED socketState
     \/ /\ ~conn[s].muted
        /\ conn' = [conn EXCEPT ![s].state = "open"]
        /\ socketState' = "connected"
  /\ UNCHANGED <<barVars, countVars, searchVars, queryError, logs, isLive, socketRef, buffer, effect,
                 stopped, timer, lines, label>>

(* onmessage; a browser delivers messages of an open socket only.           *)
WsMessage(s) ==
  /\ conn[s].state = "open"
  /\ \/ /\ Len(lines) < MaxLines
        /\ lines' = Append(lines, conn[s].effect)
        /\ buffer' = Append(buffer, Len(lines) + 1)
        /\ UNCHANGED <<socketState, queryError>>
     \/ /\ socketState' \in {"connecting", "connected"}
        /\ UNCHANGED <<lines, buffer, queryError>>
     \/ /\ socketState' = "error"
        /\ queryError' = TRUE
        /\ UNCHANGED <<lines, buffer>>
  /\ UNCHANGED <<barVars, countVars, searchVars, logs, isLive, socketRef, conn, effect, stopped, timer,
                 label>>

(* Mutated form: the socket that is in use closes for good.                 *)
WsCloseForGood(s) ==
  /\ conn[s].state # "closed"
  /\ conn' = [conn EXCEPT ![s] = [state |-> "closed", effect |-> 0, muted |-> FALSE]]
  /\ socketRef' = IF socketRef = s THEN NoSocket ELSE socketRef
  /\ UNCHANGED <<barVars, countVars, searchVars, queryError, logs, isLive, socketState, buffer, effect,
                 stopped, timer, lines, label>>

(* The connection is gone: onerror, should it have failed, then onclose,    *)
(* which arms the reconnect timer unless its effect was cleaned up.         *)
WsClose(s) ==
  /\ conn[s].state # "closed"
  /\ conn' = [conn EXCEPT ![s] = [state |-> "closed", effect |-> 0, muted |-> FALSE]]
  /\ socketState' \in {socketState} \cup {x \in {"error"} : ~conn[s].muted}
  /\ socketRef' = IF socketRef = s THEN NoSocket ELSE socketRef
  /\ timer' = timer \cup ({conn[s].effect} \ stopped)
  /\ UNCHANGED <<barVars, countVars, searchVars, queryError, logs, isLive, buffer, effect, stopped,
                 lines, label>>

(* The reconnect timer fires.                                               *)
Reconnect(e) ==
  /\ e \in timer
  /\ timer' = timer \ {e}
  /\ \/ /\ e \in stopped
        /\ UNCHANGED <<conn, socketRef, socketState>>
     \/ /\ e \notin stopped
        /\ \E s \in Sockets : Connect(s, e)
  /\ UNCHANGED <<barVars, countVars, searchVars, queryError, logs, isLive, buffer, effect, stopped,
                 lines, label>>

(* Mutated form: what is shown grows without bound.                         *)
FlushBufferUncut ==
  /\ isLive
  /\ buffer # <<>>
  /\ newCount' = newCount + Len(buffer)
  /\ newLogCount' = newCount'
  /\ logs' = [i \in 1 .. Len(buffer) |-> <<"live", buffer[i]>>] \o logs
  /\ buffer' = <<>>
  /\ UNCHANGED <<barVars, searchVars, queryError, isLive, socketState, socketRef, conn, effect,
                 stopped, timer, lines, label>>

(* The interval that moves the buffer into view, newest batch first.        *)
FlushBuffer ==
  /\ isLive
  /\ buffer # <<>>
  /\ newCount' = newCount + Len(buffer)
  /\ newLogCount' = newCount'
  /\ LET merged == [i \in 1 .. Len(buffer) |-> <<"live", buffer[i]>>] \o logs
     IN logs' = SubSeq(merged, 1, IF Len(merged) < LiveMaxLines THEN Len(merged) ELSE LiveMaxLines)
  /\ buffer' = <<>>
  /\ UNCHANGED <<barVars, searchVars, queryError, isLive, socketState, socketRef, conn, effect,
                 stopped, timer, lines, label>>

(*************************** the user **************************************)

Type ==
  /\ query' \in Queries \ {query}
  /\ UNCHANGED <<timeRange, isLoading, queryError, logs, countVars, liveVars, searches, asked,
                 outcome, lines, label>>

(* Enter in the query bar, which a search under way does not disable, or    *)
(* the button.                                                              *)
PressEnter ==
  /\ RunQuery(query, timeRange)
  /\ UNCHANGED <<barVars, logs, liveVars, lines, label>>

ChooseRange(m) ==
  /\ timeRange' = m
  /\ RunQuery(query, m)
  /\ UNCHANGED <<query, logs, liveVars, lines, label>>

(* The space bar, outside of any input.                                     *)
PressSpace ==
  /\ SwitchOn \/ (SwitchOff /\ UNCHANGED countVars)
  /\ UNCHANGED <<barVars, searchVars, queryError, logs, lines, label>>

(* onLiveToggle.                                                            *)
Toggle ==
  /\ SwitchOn \/ SwitchOff
  /\ RunQuery(query, timeRange)
  /\ UNCHANGED <<barVars, logs, lines>>

(* A click beside the slider, or the space bar on its checkbox.             *)
ClickPill == Toggle /\ UNCHANGED label

(* A click on the slider bubbles to the pill around it (the bounds must     *)
(* leave room for what follows),                                            *)
ClickSlider ==
  /\ searches + 1 < MaxSearches /\ effect < MaxEffects
  /\ Toggle
  /\ label' = <<isLive>>

(* and then, as the slider is in a label, clicks the checkbox.              *)
LabelClicks == label # <<>> /\ Toggle /\ label' = <<>>

DismissError ==
  /\ queryError
  /\ queryError' = FALSE
  /\ UNCHANGED <<barVars, searchVars, logs, countVars, liveVars, lines, label>>

User ==
  \/ Type \/ PressEnter \/ PressSpace \/ ClickPill \/ ClickSlider \/ DismissError
  \/ \E m \in Ranges : ChooseRange(m)

----------------------------------------------------------------------------

Events ==
  \/ \E n \in Searches : Settle(n)
  \/ \E s \in Sockets : WsOpen(s) \/ WsMessage(s) \/ WsClose(s)
  \/ \E e \in timer : Reconnect(e)
  \/ FlushBuffer

(* A click has to reach all it clicks before anything else happens.         *)
Next == LabelClicks \/ (label = <<>> /\ (User \/ Events))

Quiet == label = <<>>
HandshakeEnds(s) == Quiet /\ conn[s].state = "connecting" /\ (WsOpen(s) \/ WsClose(s))
CloseEnds(s) == Quiet /\ conn[s].state = "closing" /\ WsClose(s)

(* A fetch and a handshake come to an end, well or not, and timers fire; a  *)
(* connection that is open owes nothing.                                    *)
Fairness ==
  /\ WF_vars(LabelClicks)
  /\ \A n \in Searches : WF_vars(Quiet /\ Settle(n))
  /\ \A s \in Sockets : WF_vars(HandshakeEnds(s)) /\ WF_vars(CloseEnds(s))
  /\ \A e \in 1 .. MaxEffects : WF_vars(Quiet /\ Reconnect(e))
  /\ WF_vars(Quiet /\ FlushBuffer)

Spec == Init /\ [][Next]_vars /\ Fairness

----------------------------------------------------------------------------
(* Properties *)

(* Shape of the client's state; what is shown is bounded.                   *)
TypeOK ==
  /\ query \in Queries /\ timeRange \in Ranges
  /\ isLive \in BOOLEAN /\ isLoading \in BOOLEAN /\ queryError \in BOOLEAN
  /\ logs \in Seq(Rows) /\ Len(logs) <= LiveMaxLines
  /\ newLogCount \in Nat /\ newCount \in Nat
  /\ socketState \in {"off", "connecting", "connected", "error"}
  /\ socketRef \in Sockets \cup {NoSocket}
  /\ buffer \in Seq(1 .. MaxLines)
  /\ searches \in Searches
  /\ asked \in Queries \X Ranges
  /\ outcome \in [Searches -> {"none", "out", "found", "empty"}]
  /\ conn \in [Sockets -> [state : {"connecting", "open", "closing", "closed"},
                           effect : 0 .. MaxEffects, muted : BOOLEAN]]
  /\ effect \in 0 .. MaxEffects
  /\ stopped \subseteq 0 .. MaxEffects /\ timer \subseteq 0 .. MaxEffects
  /\ lines \in Seq(0 .. MaxEffects)
  /\ label \in Seq(BOOLEAN)

(* The connection is neither gone nor on its way out.                       *)
InUse(s) == conn[s].state \in {"connecting", "open"} /\ ~conn[s].muted

(* README.md:263, the socket is closed and re-established cleanly, however  *)
(* fast the tail is switched: while it is on it has one socket, or a timer  *)
(* that makes one, and never both; while it is off it has neither; and      *)
(* every other socket is on its way out.                                    *)
OneLifeline ==
  /\ \A s \in Sockets : InUse(s) <=> s = socketRef
  /\ timer \subseteq {effect}
  /\ isLive <=> (socketRef # NoSocket \/ timer # {})
  /\ socketRef # NoSocket => timer = {} /\ conn[socketRef].effect = effect

(* Lines of a tail that was switched off never show up in the next one, for *)
(* the buffer is shared by all of them but its sockets are not.             *)
BufferFresh ==
  buffer # <<>> => isLive /\ \A i \in 1 .. Len(buffer) : lines[buffer[i]] = effect

(* README.md:27, the browser reconnects after transport failures.           *)
Reconnects == (isLive /\ socketRef = NoSocket) ~> (socketRef # NoSocket \/ ~isLive)

(* The socket of a tail that was switched off does get closed, also when    *)
(* it was still connecting.                                                 *)
SocketsClose ==
  \A s \in Sockets : (conn[s].state # "closed" /\ ~InUse(s)) ~> conn[s].state = "closed"

(* LogViewer.jsx:269 says that no logs were found for the current query and *)
(* time range.  It may say so only if the last search, should it have been  *)
(* for these and have been answered, found none.  The code shows the answer *)
(* that came last, whichever search it belongs to.                          *)
NoLogsMeansNone ==
  (~isLoading /\ logs = <<>> /\ asked = <<query, timeRange>>)
    => outcome[searches] # "found"

(* QueryBar.jsx's tooltip on the switch: toggle live tailing.  A click on   *)
(* the slider toggles it twice.                                             *)
SwitchToggles == [][label # <<>> /\ label' = <<>> => isLive' # label[1]]_vars

=============================================================================
