----------------------------- MODULE NodeServer ------------------------------
(***************************************************************************)
(* The Node server (server/src/server.js, controllers/queryController.js,   *)
(* services/logClient.js): connections that ask for searches or become      *)
(* WebSockets with a live tail each, one gRPC client they all use, and the  *)
(* shutdown, which closes that client when the last connection is gone.     *)
(*                                                                          *)
(* Callbacks of Node run to completion, so each is an action.  When the TCP *)
(* connection of a WebSocket is gone its readyState changes before any      *)
(* timer fires (libuv runs the closing callbacks first), but its close      *)
(* event may come later: state "dropped".  A signal comes at most once of   *)
(* each kind: a second one finds no handler and ends the process.           *)
(***************************************************************************)
EXTENDS Integers

CONSTANTS
  Conns,         \* TCP connections; one that has ended is not used again
  Requests,      \* searches: what start, end and limit of a request parse to
  Absent,        \* a parameter that is not given
  NaN,           \* a parameter that does not parse
  Now,           \* Date.now()
  Lookback,      \* LOOKBACK_MS of liveTail.js
  DefaultLimit,  \* limit of a request without one (100)
  MaxLimit       \* the largest limit (5000), also LIMIT of liveTail.js

ASSUME NodeServerAssumption ==
  /\ Absent # NaN
  /\ Requests \subseteq [start : Int \cup {Absent, NaN}, end : Int \cup {Absent, NaN},
                         limit : Int \cup {Absent, NaN}]
  /\ Lookback \in Nat /\ Now \in Nat /\ Now >= Lookback
  /\ MaxLimit \in Nat /\ DefaultLimit \in 1 .. MaxLimit

VARIABLES
  conn,          \* "none"; "new", nothing sent yet; "search", a request under way; "idle", kept
                 \* alive after one; WebSocket "open", "closing", "dropped"; "gone"
  call,          \* the connection's call: "none", "asked" or "cancelled"
  timer,         \* connections whose tail's timer is armed
  stopped,       \* connections whose tail was stopped
  handlers,      \* signals process.once still listens for
  listening,     \* the server accepts connections
  clientClosed,  \* closeClient has run
  asked,         \* the window and limit of the last Query
  late           \* history: connections that became WebSockets after a shutdown began

vars == <<conn, call, timer, stopped, handlers, listening, clientClosed, asked, late>>
tailVars == <<call, timer, stopped>>
signalVars == <<handlers, listening>>

Signals == {"SIGINT", "SIGTERM"}

----------------------------------------------------------------------------

(* The module is loaded: the client exists, the server listens.             *)
Init ==
  /\ conn = [c \in Conns |-> "none"]
  /\ call = [c \in Conns |-> "none"]
  /\ timer = {} /\ stopped = {}
  /\ handlers = Signals
  /\ listening = TRUE
  /\ clientClosed = FALSE
  /\ asked = [start |-> 0, end |-> 0, limit |-> 1]
  /\ late = {}

(* The server is closed once it does not listen and has no connection, and  *)
(* the callback of server.close runs.                                       *)
CloseClientIfDrained ==
  clientClosed' = \/ clientClosed
                  \/ ~listening' /\ \A c \in Conns : conn'[c] \in {"none", "dropped", "gone"}

(*************************** searches **************************************)

StartMs(q) == IF q.start = Absent THEN 0 ELSE q.start
EndMs(q) == IF q.end = Absent THEN Now ELSE q.end
Limit(q) == IF q.limit = Absent THEN DefaultLimit ELSE q.limit

(* The validation of handleSearch.                                          *)
Valid(q) ==
  /\ NaN \notin {StartMs(q), EndMs(q), Limit(q)}
  /\ StartMs(q) >= 0
  /\ EndMs(q) >= StartMs(q)
  /\ Limit(q) \in 1 .. MaxLimit

Connect(c) ==
  /\ listening
  /\ conn[c] = "none"
  /\ conn' = [conn EXCEPT ![c] = "new"]
  /\ UNCHANGED <<tailVars, signalVars, clientClosed, asked, late>>

(* handleSearch: a 400, or a question to the engine.                        *)
HandleSearch(c) ==
  /\ conn[c] \in {"new", "idle"}
  /\ \E q \in Requests :
       IF Valid(q)
       THEN /\ conn' = [conn EXCEPT ![c] = "search"]
            /\ call' = [call EXCEPT ![c] = "asked"]
            /\ asked' = [start |-> StartMs(q), end |-> EndMs(q), limit |-> Limit(q)]
       ELSE conn' = [conn EXCEPT ![c] = "idle"] /\ UNCHANGED <<call, asked>>
  /\ UNCHANGED <<timer, stopped, signalVars, clientClosed, late>>

(* The callback of handleSearch: 200 or 502, to a browser that may be gone. *)
SearchAnswered(c) ==
  /\ call[c] = "asked"
  /\ conn[c] = "search" \/ (conn[c] = "gone" /\ c \notin stopped)
  /\ call' = [call EXCEPT ![c] = "none"]
  /\ conn' = [conn EXCEPT ![c] = IF @ = "search" THEN "idle" ELSE "gone"]
  /\ UNCHANGED <<timer, stopped, signalVars, clientClosed, asked, late>>

(* The browser closes a connection that is no WebSocket, or the server ends *)
(* one it kept alive.                                                       *)
HttpEnds(c) ==
  /\ conn[c] \in {"new", "idle", "search"}
  /\ conn' = [conn EXCEPT ![c] = "gone"]
  /\ UNCHANGED <<tailVars, signalVars, asked, late>>
  /\ CloseClientIfDrained

(*************************** live tails ************************************)

(* The upgrade event and, for /ws/logs, the connection event: a live tail   *)
(* that polls at once.  Other paths have their socket destroyed.            *)
Upgrade(c) ==
  /\ conn[c] \in {"new", "idle"}
  /\ \/ /\ conn' = [conn EXCEPT ![c] = "open"]
        /\ timer' = timer \cup {c}
        /\ late' = IF listening THEN late ELSE late \cup {c}
     \/ /\ conn' = [conn EXCEPT ![c] = "gone"]
        /\ UNCHANGED <<timer, late>>
  /\ UNCHANGED <<call, stopped, signalVars, asked>>
  /\ CloseClientIfDrained

(* stop of liveTail.js; a second call does nothing.                         *)
Stop(c) ==
  /\ stopped' = stopped \cup {c}
  /\ timer' = timer \ {c}
  /\ call' = [call EXCEPT ![c] = IF @ = "none" THEN "none" ELSE "cancelled"]

(* Mutated form: poll does not look at the socket.                          *)
PollBlindly(c) ==
  /\ c \in timer
  /\ timer' = timer \ {c}
  /\ call' = [call EXCEPT ![c] = "asked"]
  /\ asked' = [start |-> Now - Lookback, end |-> Now, limit |-> MaxLimit]
  /\ UNCHANGED <<conn, stopped, signalVars, clientClosed, late>>

(* The tail's timer fires: poll.                                            *)
Poll(c) ==
  /\ c \in timer
  /\ \/ /\ conn[c] = "open"
        /\ timer' = timer \ {c}
        /\ call' = [call EXCEPT ![c] = "asked"]
        /\ asked' = [start |-> Now - Lookback, end |-> Now, limit |-> MaxLimit]
        /\ UNCHANGED stopped
     \/ /\ conn[c] # "open"
        /\ Stop(c)
        /\ UNCHANGED asked
  /\ UNCHANGED <<conn, signalVars, clientClosed, late>>

(* The callback of poll: with an answer or an error it arms the timer.      *)
TailAnswered(c) ==
  /\ call[c] = "asked"
  /\ conn[c] \in {"open", "closing", "dropped"}
  /\ call' = [call EXCEPT ![c] = "none"]
  /\ timer' = timer \cup {c}
  /\ UNCHANGED <<conn, stopped, signalVars, clientClosed, asked, late>>

(* The callback of a call that was cancelled.                               *)
CallEnds(c) ==
  /\ call[c] = "cancelled"
  /\ call' = [call EXCEPT ![c] = "none"]
  /\ UNCHANGED <<conn, timer, stopped, signalVars, clientClosed, asked, late>>

(* The browser starts the closing handshake, or breaks the protocol: the    *)
(* error event.                                                             *)
WsClosing(c) ==
  /\ conn[c] = "open"
  /\ conn' = [conn EXCEPT ![c] = "closing"]
  /\ UNCHANGED tailVars \/ Stop(c)
  /\ UNCHANGED <<signalVars, clientClosed, asked, late>>

(* The TCP connection of a WebSocket is gone: handshake done, timed out, or *)
(* the browser is.                                                          *)
WsDrops(c) ==
  /\ conn[c] \in {"open", "closing"}
  /\ conn' = [conn EXCEPT ![c] = "dropped"]
  /\ UNCHANGED <<tailVars, signalVars, asked, late>>
  /\ CloseClientIfDrained

(* Mutated form: nobody listens for the close event.                        *)
WsCloseUnheard(c) ==
  /\ conn[c] = "dropped"
  /\ conn' = [conn EXCEPT ![c] = "gone"]
  /\ UNCHANGED <<tailVars, signalVars, clientClosed, asked, late>>

(* The close event.                                                         *)
WsClosed(c) ==
  /\ conn[c] = "dropped"
  /\ conn' = [conn EXCEPT ![c] = "gone"]
  /\ IF c \in stopped THEN UNCHANGED tailVars ELSE Stop(c)
  /\ UNCHANGED <<signalVars, clientClosed, asked, late>>

(*************************** shutdown **************************************)

(* Mutated form: the client is closed without waiting for connections.      *)
ShutdownAtOnce(s) ==
  /\ s \in handlers
  /\ handlers' = handlers \ {s}
  /\ listening' = FALSE
  /\ conn' = [c \in Conns |-> IF conn[c] = "open" THEN "closing" ELSE conn[c]]
  /\ clientClosed' = TRUE
  /\ UNCHANGED <<tailVars, asked, late>>

(* Mutated form: WebSockets are left open.                                  *)
ShutdownHttpOnly(s) ==
  /\ s \in handlers
  /\ handlers' = handlers \ {s}
  /\ listening' = FALSE
  /\ UNCHANGED conn
  /\ UNCHANGED <<tailVars, asked, late>>
  /\ CloseClientIfDrained

(* shutdown, for the first signal of its kind: WebSockets are told to       *)
(* close, the server takes no more connections, and the client waits.       *)
Shutdown(s) ==
  /\ s \in handlers
  /\ handlers' = handlers \ {s}
  /\ listening' = FALSE
  /\ conn' = [c \in Conns |-> IF conn[c] = "open" THEN "closing" ELSE conn[c]]
  /\ UNCHANGED <<tailVars, asked, late>>
  /\ CloseClientIfDrained

----------------------------------------------------------------------------

Next ==
  \/ \E c \in Conns :
       \/ Connect(c) \/ HandleSearch(c) \/ SearchAnswered(c) \/ HttpEnds(c)
       \/ Upgrade(c) \/ Poll(c) \/ TailAnswered(c) \/ CallEnds(c)
       \/ WsClosing(c) \/ WsDrops(c) \/ WsClosed(c)
  \/ \E s \in Signals : Shutdown(s)

KeepAliveEnds(c) == conn[c] = "idle" /\ HttpEnds(c)
HandshakeEnds(c) == conn[c] = "closing" /\ WsDrops(c)

(* Timers fire and events are delivered; a connection kept alive is closed  *)
(* by the server in the end, and so is a WebSocket whose closing handshake  *)
(* does not end (ws: 30 s).  Nothing is assumed of browsers, signals, or an *)
(* engine that was asked: no call has a deadline.                           *)
Fairness ==
  \A c \in Conns :
    /\ WF_vars(Poll(c)) /\ WF_vars(CallEnds(c)) /\ WF_vars(WsClosed(c))
    /\ WF_vars(KeepAliveEnds(c)) /\ WF_vars(HandshakeEnds(c))

Spec == Init /\ [][Next]_vars /\ Fairness

----------------------------------------------------------------------------
(* Properties *)

(* What QueryEngine and KeySchema expect of a request: the window is in     *)
(* order and not negative, the limit is one.                                *)
WellFormed(a) == 0 <= a.start /\ a.start <= a.end /\ a.limit \in 1 .. MaxLimit

(* Nothing is asked of a gRPC client that was closed, which would throw in  *)
(* a timer's callback, nor a question the engine is not made for: whatever  *)
(* tails and requests do while the server shuts down.                       *)
AskedProperly ==
  [][\A c \in Conns : call[c] = "none" /\ call'[c] = "asked" => ~clientClosed /\ WellFormed(asked')]_vars

(* A tail does not outlive its socket: when the close event was handled no  *)
(* timer is armed and no call is out but one that was cancelled, so nothing *)
(* keeps the process from ending.                                           *)
NoOrphanTail ==
  \A c \in Conns :
    /\ c \in timer => conn[c] \in {"open", "closing", "dropped"}
    /\ c \in stopped => c \notin timer /\ call[c] # "asked"

(* A connection that does not send anything, or a WebSocket opened too late *)
(* to be told to close.                                                     *)
HeldOpen == \E c \in Conns : conn[c] = "new" \/ (conn[c] = "open" /\ c \in late)

Searching == \E c \in Conns : conn[c] = "search"

(* server.js:40-44: a shutdown that began comes to closing the client, but  *)
(* for a connection that a browser holds open for ever, a browser that      *)
(* keeps searching, or an engine that does not answer a search.             *)
ShutdownHeldUpOnly == <>~listening => (<>clientClosed \/ <>[]HeldOpen \/ []<>Searching)

(* Connections that have, or had, a live tail.                              *)
HasTail(c) == conn[c] \in {"open", "closing", "dropped"} \/ c \in stopped

(* Every connection's tail is a loop as TailLoop has it, also through       *)
(* shutdowns, errors and lost connections; until its upgrade a connection   *)
(* stands for a loop that is yet to start.                                  *)
Loop(c) == INSTANCE TailLoop WITH
  ws <- IF ~HasTail(c) \/ conn[c] = "open" THEN "open"
        ELSE IF conn[c] = "gone" THEN "closed" ELSE "closing",
  stopped <- c \in stopped,
  timer <- HasTail(c) => c \in timer,
  call <- IF ~HasTail(c) THEN "none" ELSE IF call[c] = "asked" THEN "out" ELSE call[c]

TailsAreLoops ==
  /\ \A c \in Conns : Loop(c)!Init
  /\ [][\A c \in Conns : [Loop(c)!Next]_(Loop(c)!vars)]_vars

=============================================================================
