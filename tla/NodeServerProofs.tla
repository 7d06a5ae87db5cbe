-------------------------- MODULE NodeServerProofs ---------------------------
(***************************************************************************)
(* No tail of the Node server outlives its socket, and the gRPC client is   *)
(* closed only when nobody is left to ask it anything.                      *)
(***************************************************************************)
EXTENDS NodeServer, TLAPS

Shape ==
  /\ conn \in [Conns -> {"none", "new", "search", "idle", "open", "closing", "dropped", "gone"}]
  /\ call \in [Conns -> {"none", "asked", "cancelled"}]
  /\ listening \in BOOLEAN /\ clientClosed \in BOOLEAN

(* A connection whose tail was stopped is a WebSocket on its way out, so it *)
(* neither polls nor searches any more.                                     *)
StoppedLeaves == \A c \in Conns : c \in stopped => conn[c] \in {"closing", "dropped", "gone"}

(* The client is closed last, and nobody comes after it was.                *)
Drained == ~listening /\ \A c \in Conns : conn[c] \in {"none", "dropped", "gone"}

ServerInv == Shape /\ NoOrphanTail /\ StoppedLeaves /\ (clientClosed => Drained)

LEMMA ServerInit == Init => ServerInv
BY DEF Init, ServerInv, Shape, NoOrphanTail, StoppedLeaves

(* A step that closes the client when it drains the server keeps the client *)
(* open while it is not, as long as it opens no connection.                 *)
LEMMA ClosesWhenDrained ==
  ASSUME ServerInv, CloseClientIfDrained, Shape',
         clientClosed => ~listening' /\ \A c \in Conns : conn'[c] \in {"none", "dropped", "gone"}
  PROVE  clientClosed' => Drained'
BY DEF CloseClientIfDrained, Drained

LEMMA StopKeepsTails ==
  ASSUME ServerInv, NEW c \in Conns, Stop(c),
         \A d \in Conns \ {c} : conn'[d] = conn[d],
         conn'[c] \in {"closing", "dropped", "gone"}
  PROVE  NoOrphanTail' /\ StoppedLeaves' /\ call' \in [Conns -> {"none", "asked", "cancelled"}]
<1>1. call' \in [Conns -> {"none", "asked", "cancelled"}]
  BY DEF Stop, ServerInv, Shape
<1>2. call'[c] # "asked" /\ \A d \in Conns \ {c} : call'[d] = call[d]
  BY DEF Stop, ServerInv, Shape
<1>3. timer' = timer \ {c} /\ stopped' = stopped \cup {c}
  BY DEF Stop
<1> QED BY <1>1, <1>2, <1>3 DEF ServerInv, NoOrphanTail, StoppedLeaves

LEMMA ConnectKeeps ==
  ASSUME ServerInv, NEW c \in Conns, Connect(c)
  PROVE  ServerInv'
<1> USE DEF ServerInv, Shape
<1>1. conn' = [conn EXCEPT ![c] = "new"] /\ conn[c] = "none" /\ listening
  BY DEF Connect
<1>2. UNCHANGED <<call, timer, stopped, listening, clientClosed>>
  BY DEF Connect, tailVars, signalVars
<1> QED BY <1>1, <1>2 DEF NoOrphanTail, StoppedLeaves, Drained

LEMMA HandleSearchKeeps ==
  ASSUME ServerInv, NEW c \in Conns, HandleSearch(c)
  PROVE  ServerInv'
<1> USE DEF ServerInv, Shape
<1>1. conn[c] \in {"new", "idle"} /\ UNCHANGED <<timer, stopped, listening, clientClosed>>
  BY DEF HandleSearch, signalVars
<1>2. PICK q \in Requests :
        IF Valid(q) THEN /\ conn' = [conn EXCEPT ![c] = "search"]
                         /\ call' = [call EXCEPT ![c] = "asked"]
                    ELSE conn' = [conn EXCEPT ![c] = "idle"] /\ UNCHANGED call
  BY DEF HandleSearch
<1>3. c \notin timer /\ c \notin stopped /\ ~clientClosed
  BY <1>1 DEF NoOrphanTail, StoppedLeaves, Drained
<1>4. Shape' /\ \A d \in Conns \ {c} : conn'[d] = conn[d] /\ call'[d] = call[d]
  BY <1>1, <1>2
<1> QED BY <1>1, <1>3, <1>4 DEF NoOrphanTail, StoppedLeaves

LEMMA UpgradeKeeps ==
  ASSUME ServerInv, NEW c \in Conns, Upgrade(c)
  PROVE  ServerInv'
<1> USE DEF ServerInv, Shape
<1>1. /\ conn[c] \in {"new", "idle"} /\ UNCHANGED <<call, stopped, listening>> /\ CloseClientIfDrained
      /\ \/ conn' = [conn EXCEPT ![c] = "open"] /\ timer' = timer \cup {c}
         \/ conn' = [conn EXCEPT ![c] = "gone"] /\ timer' = timer
  BY DEF Upgrade, signalVars
<1>2. c \notin timer /\ c \notin stopped /\ ~clientClosed
  BY <1>1 DEF NoOrphanTail, StoppedLeaves, Drained
<1>3. Shape' /\ \A d \in Conns \ {c} : conn'[d] = conn[d] /\ (d \in timer' => d \in timer)
  BY <1>1 DEF CloseClientIfDrained
<1>4. clientClosed' => Drained'
  BY <1>1, <1>2, <1>3, ClosesWhenDrained
<1>5. NoOrphanTail' /\ StoppedLeaves'
  BY <1>1, <1>2, <1>3 DEF NoOrphanTail, StoppedLeaves
<1> QED BY <1>3, <1>4, <1>5

LEMMA PollKeeps ==
  ASSUME ServerInv, NEW c \in Conns, Poll(c)
  PROVE  ServerInv'
<1> USE DEF ServerInv, Shape
<1>1. c \in timer /\ UNCHANGED <<conn, listening, clientClosed>>
  BY DEF Poll, signalVars
<1>2. CASE conn[c] = "open" /\ timer' = timer \ {c} /\ call' = [call EXCEPT ![c] = "asked"]
           /\ UNCHANGED stopped
  <2>1. c \notin stopped /\ \A d \in Conns \ {c} : call'[d] = call[d]
    BY <1>1, <1>2 DEF NoOrphanTail
  <2> QED BY <1>1, <1>2, <2>1 DEF NoOrphanTail, StoppedLeaves, Drained
<1>3. CASE conn[c] # "open" /\ Stop(c)
  <2>1. conn'[c] \in {"closing", "dropped"}
    BY <1>1, <1>3 DEF NoOrphanTail
  <2> QED BY <1>1, <1>3, <2>1, StopKeepsTails DEF Drained
<1> QED BY <1>2, <1>3 DEF Poll

LEMMA TailAnsweredKeeps ==
  ASSUME ServerInv, NEW c \in Conns, TailAnswered(c)
  PROVE  ServerInv'
<1> USE DEF ServerInv, Shape
<1>1. /\ call[c] = "asked" /\ conn[c] \in {"open", "closing", "dropped"}
      /\ call' = [call EXCEPT ![c] = "none"] /\ timer' = timer \cup {c}
      /\ UNCHANGED <<conn, stopped, listening, clientClosed>>
  BY DEF TailAnswered, signalVars
<1>2. c \notin stopped
  BY <1>1 DEF NoOrphanTail
<1> QED BY <1>1, <1>2 DEF NoOrphanTail, StoppedLeaves, Drained

(* Steps that end a call, or a search.                                      *)
LEMMA CallEndsKeeps ==
  ASSUME ServerInv, NEW c \in Conns, SearchAnswered(c) \/ CallEnds(c)
  PROVE  ServerInv'
<1> USE DEF ServerInv, Shape
<1>1. /\ call' = [call EXCEPT ![c] = "none"]
      /\ UNCHANGED <<timer, stopped, listening, clientClosed>>
  BY DEF SearchAnswered, CallEnds, signalVars
<1>2. \/ UNCHANGED conn
      \/ conn[c] = "search" /\ conn' = [conn EXCEPT ![c] = "idle"]
  BY DEF SearchAnswered, CallEnds
<1> QED BY <1>1, <1>2 DEF NoOrphanTail, StoppedLeaves, Drained

(* Steps that take a connection one step closer to its end.                 *)
LEMMA EndsKeep ==
  ASSUME ServerInv, NEW c \in Conns, HttpEnds(c) \/ WsDrops(c)
  PROVE  ServerInv'
<1> USE DEF ServerInv, Shape
<1>1. CASE HttpEnds(c)
  <2>1. /\ conn[c] \in {"new", "idle", "search"} /\ conn' = [conn EXCEPT ![c] = "gone"]
        /\ UNCHANGED <<call, timer, stopped, listening>> /\ CloseClientIfDrained
    BY <1>1 DEF HttpEnds, tailVars, signalVars
  <2>2. Shape'
    BY <2>1 DEF CloseClientIfDrained
  <2>3. clientClosed' => Drained'
    BY <2>1, <2>2, ClosesWhenDrained DEF Drained
  <2> QED BY <2>1, <2>2, <2>3 DEF NoOrphanTail, StoppedLeaves
<1>2. CASE WsDrops(c)
  <2>1. /\ conn[c] \in {"open", "closing"} /\ conn' = [conn EXCEPT ![c] = "dropped"]
        /\ UNCHANGED <<call, timer, stopped, listening>> /\ CloseClientIfDrained
    BY <1>2 DEF WsDrops, tailVars, signalVars
  <2>2. Shape'
    BY <2>1 DEF CloseClientIfDrained
  <2>3. clientClosed' => Drained'
    BY <2>1, <2>2, ClosesWhenDrained DEF Drained
  <2> QED BY <2>1, <2>2, <2>3 DEF NoOrphanTail, StoppedLeaves
<1> QED BY <1>1, <1>2

LEMMA WsClosingKeeps ==
  ASSUME ServerInv, NEW c \in Conns, WsClosing(c)
  PROVE  ServerInv'
<1> USE DEF ServerInv, Shape
<1>1. /\ conn[c] = "open" /\ conn' = [conn EXCEPT ![c] = "closing"]
      /\ UNCHANGED <<listening, clientClosed>>
  BY DEF WsClosing, signalVars
<1>2. ~clientClosed
  BY <1>1 DEF Drained
<1>3. CASE UNCHANGED tailVars
  BY <1>1, <1>2, <1>3 DEF tailVars, NoOrphanTail, StoppedLeaves
<1>4. CASE Stop(c)
  BY <1>1, <1>2, <1>4, StopKeepsTails
<1> QED BY <1>3, <1>4 DEF WsClosing

LEMMA WsClosedKeeps ==
  ASSUME ServerInv, NEW c \in Conns, WsClosed(c)
  PROVE  ServerInv'
<1> USE DEF ServerInv, Shape
<1>1. /\ conn[c] = "dropped" /\ conn' = [conn EXCEPT ![c] = "gone"]
      /\ UNCHANGED <<listening, clientClosed>>
  BY DEF WsClosed, signalVars
<1>2. clientClosed' => Drained'
  BY <1>1 DEF Drained
<1>3. CASE c \in stopped
  <2>1. UNCHANGED <<call, timer, stopped>>
    BY <1>3 DEF WsClosed, tailVars
  <2> QED BY <1>1, <1>2, <1>3, <2>1 DEF NoOrphanTail, StoppedLeaves
<1>4. CASE c \notin stopped
  <2>1. Stop(c)
    BY <1>4 DEF WsClosed
  <2> QED BY <1>1, <1>2, <2>1, StopKeepsTails
<1> QED BY <1>3, <1>4

LEMMA ShutdownKeeps ==
  ASSUME ServerInv, NEW s \in Signals, Shutdown(s)
  PROVE  ServerInv'
<1> USE DEF ServerInv, Shape
<1>1. /\ listening' = FALSE /\ CloseClientIfDrained /\ UNCHANGED <<call, timer, stopped>>
      /\ conn' = [c \in Conns |-> IF conn[c] = "open" THEN "closing" ELSE conn[c]]
  BY DEF Shutdown, tailVars
<1>2. Shape'
  BY <1>1 DEF CloseClientIfDrained
<1>3. clientClosed' => Drained'
  BY <1>1, <1>2, ClosesWhenDrained DEF Drained
<1> QED BY <1>1, <1>2, <1>3 DEF NoOrphanTail, StoppedLeaves

LEMMA ServerStep ==
  ASSUME ServerInv, [Next]_vars
  PROVE  ServerInv'
<1>1. CASE UNCHANGED vars
  BY <1>1 DEF vars, ServerInv, Shape, NoOrphanTail, StoppedLeaves, Drained
<1> QED
  BY <1>1, ConnectKeeps, HandleSearchKeeps, UpgradeKeeps, PollKeeps, TailAnsweredKeeps, CallEndsKeeps,
     EndsKeep, WsClosingKeeps, WsClosedKeeps, ShutdownKeeps DEF Next

LEMMA ServerInvariant == Spec => []ServerInv
<1>1. ServerInv /\ [Next]_vars => ServerInv'
  BY ServerStep
<1> QED BY ServerInit, <1>1, PTL DEF Spec

(* server.js:32-33 and liveTail.js:17-25: nothing of a tail is left when    *)
(* its connection is gone, for any number of connections.                   *)
THEOREM NoOrphanTailCorrect == Spec => []NoOrphanTail
<1>1. ServerInv => NoOrphanTail
  BY DEF ServerInv
<1> QED BY <1>1, ServerInvariant, PTL

----------------------------------------------------------------------------
(* What is asked, and of whom *)

LEMMA ValidIsWellFormed ==
  ASSUME NEW q \in Requests, Valid(q)
  PROVE  WellFormed([start |-> StartMs(q), end |-> EndMs(q), limit |-> Limit(q)])
<1>1. /\ q.start \in Int \cup {Absent, NaN} /\ q.end \in Int \cup {Absent, NaN}
      /\ q.limit \in Int \cup {Absent, NaN}
  BY NodeServerAssumption
<1>2. StartMs(q) \in Int /\ EndMs(q) \in Int
  BY <1>1, NodeServerAssumption DEF Valid, StartMs, EndMs
<1> QED BY <1>2 DEF Valid, WellFormed

(* The client is closed after everybody who could ask it anything is gone,  *)
(* and all that is asked is well formed.                                    *)
THEOREM AskedProperlyCorrect == Spec => AskedProperly
<1> DEFINE Proper(c) == call[c] = "none" /\ call'[c] = "asked" => ~clientClosed /\ WellFormed(asked')
<1>1. ServerInv /\ [Next]_vars => [\A c \in Conns : Proper(c)]_vars
  <2> SUFFICES ASSUME ServerInv, [Next]_vars, NEW c \in Conns, call[c] = "none", call'[c] = "asked"
               PROVE  ~clientClosed /\ WellFormed(asked')
    OBVIOUS
  <2> USE DEF ServerInv, Shape
  <2>1. HandleSearch(c) \/ Poll(c)
    <3>1. CASE UNCHANGED vars
      BY <3>1 DEF vars
    <3>2. ASSUME NEW s \in Signals, Shutdown(s) PROVE FALSE
      BY <3>2 DEF Shutdown, tailVars
    <3>3. ASSUME NEW d \in Conns,
                 \/ Connect(d) \/ SearchAnswered(d) \/ HttpEnds(d) \/ Upgrade(d)
                 \/ TailAnswered(d) \/ CallEnds(d) \/ WsClosing(d) \/ WsDrops(d) \/ WsClosed(d)
          PROVE  FALSE
      BY <3>3 DEF Connect, SearchAnswered, HttpEnds, Upgrade, TailAnswered, CallEnds, WsClosing, WsDrops,
                  WsClosed, Stop, tailVars
    <3>4. ASSUME NEW d \in Conns \ {c}, HandleSearch(d) \/ Poll(d) PROVE FALSE
      BY <3>4 DEF HandleSearch, Poll, Stop
    <3> QED BY <3>1, <3>2, <3>3, <3>4 DEF Next
  <2>2. CASE HandleSearch(c)
    <3>1. ~clientClosed
      BY <2>2 DEF HandleSearch, Drained
    <3>2. PICK q \in Requests : /\ Valid(q)
                                /\ asked' = [start |-> StartMs(q), end |-> EndMs(q), limit |-> Limit(q)]
      BY <2>2 DEF HandleSearch
    <3> QED BY <3>1, <3>2, ValidIsWellFormed
  <2>3. CASE Poll(c)
    <3>1. conn[c] = "open" /\ asked' = [start |-> Now - Lookback, end |-> Now, limit |-> MaxLimit]
      BY <2>3 DEF Poll, Stop
    <3>2. ~clientClosed
      BY <3>1 DEF Drained
    <3>3. WellFormed(asked')
      BY <3>1, NodeServerAssumption DEF WellFormed
    <3> QED BY <3>2, <3>3
  <2> QED BY <2>1, <2>2, <2>3
<1> QED BY <1>1, ServerInvariant, PTL DEF Spec, AskedProperly

----------------------------------------------------------------------------
(* The tails are loops *)

(* A connection without a request or a tail has no call, and only a tail's  *)
(* stop cancels one.                                                        *)
CallsBelong ==
  \A c \in Conns : /\ conn[c] \in {"none", "new", "idle"} => call[c] = "none"
                   /\ call[c] = "cancelled" => c \in stopped

LEMMA CallsInit == Init => CallsBelong
BY DEF Init, CallsBelong

LEMMA CallsStep ==
  ASSUME ServerInv, CallsBelong, [Next]_vars
  PROVE  CallsBelong'
<1> USE DEF ServerInv, Shape, CallsBelong
<1>1. CASE UNCHANGED vars
  BY <1>1 DEF vars
<1>2. ASSUME NEW s \in Signals, Shutdown(s) PROVE CallsBelong'
  BY <1>2 DEF Shutdown, tailVars
<1>3. ASSUME NEW c \in Conns, HandleSearch(c) PROVE CallsBelong'
  BY <1>3 DEF HandleSearch
<1>4. ASSUME NEW c \in Conns, Poll(c) PROVE CallsBelong'
  BY <1>4 DEF Poll, Stop, NoOrphanTail
<1>5. ASSUME NEW c \in Conns, Connect(c) \/ SearchAnswered(c) \/ HttpEnds(c) \/ Upgrade(c)
      PROVE  CallsBelong'
  BY <1>5 DEF Connect, SearchAnswered, HttpEnds, Upgrade, tailVars
<1>6. ASSUME NEW c \in Conns, TailAnswered(c) \/ CallEnds(c) \/ WsDrops(c)
      PROVE  CallsBelong'
  BY <1>6 DEF TailAnswered, CallEnds, WsDrops, tailVars
<1>7. ASSUME NEW c \in Conns, WsClosing(c) \/ WsClosed(c)
      PROVE  CallsBelong'
  BY <1>7 DEF WsClosing, WsClosed, Stop, tailVars
<1> QED BY <1>1, <1>2, <1>3, <1>4, <1>5, <1>6, <1>7 DEF Next

(* What happens to a connection is a step of its loop.                      *)
LEMMA OwnStep ==
  ASSUME ServerInv, CallsBelong, NEW c \in Conns,
         \/ Connect(c) \/ HandleSearch(c) \/ SearchAnswered(c) \/ HttpEnds(c)
         \/ Upgrade(c) \/ Poll(c) \/ TailAnswered(c) \/ CallEnds(c)
         \/ WsClosing(c) \/ WsDrops(c) \/ WsClosed(c)
  PROVE  [Loop(c)!Next]_(Loop(c)!vars)
<1> USE DEF ServerInv, Shape, NoOrphanTail, StoppedLeaves, CallsBelong, HasTail
<1>1. CASE Connect(c) \/ HandleSearch(c) \/ SearchAnswered(c) \/ HttpEnds(c)
  BY <1>1 DEF Connect, HandleSearch, SearchAnswered, HttpEnds, tailVars, Loop!vars
<1>2. CASE Upgrade(c)
  BY <1>2 DEF Upgrade, Loop!vars
<1>3. CASE Poll(c)
  BY <1>3 DEF Poll, Stop, Loop!Next, Loop!Poll, Loop!PollStops, Loop!Stop
<1>4. CASE TailAnswered(c) \/ CallEnds(c)
  BY <1>4 DEF TailAnswered, CallEnds, Loop!Next, Loop!Callback
<1>5. CASE WsClosing(c)
  BY <1>5 DEF WsClosing, Stop, tailVars, Loop!Next, Loop!Closing, Loop!Stop
<1>6. CASE WsDrops(c)
  BY <1>6 DEF WsDrops, tailVars, Loop!Next, Loop!Closing, Loop!vars
<1>7. CASE WsClosed(c)
  BY <1>7 DEF WsClosed, Stop, tailVars, Loop!Next, Loop!Closed, Loop!Stop
<1> QED BY <1>1, <1>2, <1>3, <1>4, <1>5, <1>6, <1>7

(* It is none of the other connections' business.                           *)
LEMMA OthersStutter ==
  ASSUME ServerInv, NEW c \in Conns, NEW d \in Conns \ {c},
         \/ Connect(d) \/ HandleSearch(d) \/ SearchAnswered(d) \/ HttpEnds(d)
         \/ Upgrade(d) \/ Poll(d) \/ TailAnswered(d) \/ CallEnds(d)
         \/ WsClosing(d) \/ WsDrops(d) \/ WsClosed(d)
  PROVE  UNCHANGED Loop(c)!vars
<1> USE DEF ServerInv, Shape
<1>1. conn'[c] = conn[c] /\ call'[c] = call[c] /\ (c \in timer' <=> c \in timer)
      /\ (c \in stopped' <=> c \in stopped)
  <2>1. CASE Connect(d) \/ HandleSearch(d) \/ SearchAnswered(d) \/ HttpEnds(d)
    BY <2>1 DEF Connect, HandleSearch, SearchAnswered, HttpEnds, tailVars
  <2>2. CASE Upgrade(d) \/ Poll(d)
    BY <2>2 DEF Upgrade, Poll, Stop
  <2>3. CASE TailAnswered(d) \/ CallEnds(d)
    BY <2>3 DEF TailAnswered, CallEnds
  <2>4. CASE WsClosing(d) \/ WsDrops(d) \/ WsClosed(d)
    BY <2>4 DEF WsClosing, WsDrops, WsClosed, Stop, tailVars
  <2> QED BY <2>1, <2>2, <2>3, <2>4
<1> QED BY <1>1 DEF Loop!vars, HasTail

LEMMA ShutdownStep ==
  ASSUME ServerInv, NEW c \in Conns, NEW s \in Signals, Shutdown(s)
  PROVE  [Loop(c)!Next]_(Loop(c)!vars)
<1> USE DEF ServerInv, Shape
<1>1. UNCHANGED <<call, timer, stopped>> /\ conn'[c] = IF conn[c] = "open" THEN "closing" ELSE conn[c]
  BY DEF Shutdown, tailVars
<1>2. CASE conn[c] = "open"
  BY <1>1, <1>2 DEF HasTail, Loop!Next, Loop!Closing
<1>3. CASE conn[c] # "open"
  BY <1>1, <1>3 DEF HasTail, Loop!vars
<1> QED BY <1>2, <1>3

(* server.js:26-34: every connection's tail does what TailLoop promises, in *)
(* a server of any number of connections, while others come, go, search and *)
(* fail, and while the server shuts down.                                   *)
THEOREM TailsAreLoopsCorrect == Spec => TailsAreLoops
<1>1. Init => \A c \in Conns : Loop(c)!Init
  <2> SUFFICES ASSUME Init, NEW c \in Conns
               PROVE  Loop(c)!Init
    OBVIOUS
  <2>1. ~HasTail(c) /\ c \notin stopped
    BY DEF Init, HasTail
  <2> QED BY <2>1 DEF Loop!Init
<1>2. ServerInv /\ CallsBelong /\ [Next]_vars
        => [\A c \in Conns : [Loop(c)!Next]_(Loop(c)!vars)]_vars
  <2> SUFFICES ASSUME ServerInv, CallsBelong, [Next]_vars, vars' # vars, NEW c \in Conns
               PROVE  [Loop(c)!Next]_(Loop(c)!vars)
    OBVIOUS
  <2>1. PICK d \in Conns :
          \/ Connect(d) \/ HandleSearch(d) \/ SearchAnswered(d) \/ HttpEnds(d)
          \/ Upgrade(d) \/ Poll(d) \/ TailAnswered(d) \/ CallEnds(d)
          \/ WsClosing(d) \/ WsDrops(d) \/ WsClosed(d)
          \/ \E s \in Signals : Shutdown(s)
    BY DEF Next
  <2> QED BY <2>1, OwnStep, OthersStutter, ShutdownStep
<1>3. ServerInv /\ CallsBelong /\ [Next]_vars => CallsBelong'
  BY CallsStep
<1> QED BY <1>1, <1>2, <1>3, CallsInit, ServerInvariant, PTL DEF Spec, TailsAreLoops

=============================================================================
