--------------------------- MODULE WebClientProofs ---------------------------
(***************************************************************************)
(* The live tail of the web client keeps one lifeline, its buffer holds     *)
(* lines of the running tail only, and the state keeps its shape.           *)
(***************************************************************************)
EXTENDS WebClient, TLAPS

Conn == [state : {"connecting", "open", "closing", "closed"}, effect : 0 .. MaxEffects,
         muted : BOOLEAN]

(* The part of the state's shape that the argument needs.                   *)
LiveShape ==
  /\ isLive \in BOOLEAN
  /\ socketRef \in Sockets \cup {NoSocket}
  /\ conn \in [Sockets -> Conn]
  /\ effect \in 0 .. MaxEffects
  /\ isLive => effect > 0

(* Every run of the effect but the one of a tail that is on was cleaned up. *)
CleanedUp == stopped = 1 .. (IF isLive THEN effect - 1 ELSE effect)

(* A connection was made by some run of the effect, and is in use exactly   *)
(* when that run was not cleaned up.                                        *)
Owned ==
  \A s \in Sockets :
    /\ conn[s].state = "open" => ~conn[s].muted
    /\ conn[s].state # "closed" => /\ conn[s].effect \in 1 .. effect
                                   /\ conn[s].effect \in stopped <=> ~InUse(s)

LifeInv == LiveShape /\ CleanedUp /\ Owned /\ OneLifeline

LEMMA LifeInit == Init => LifeInv
<1> SUFFICES ASSUME Init
             PROVE  LifeInv
  OBVIOUS
<1> USE WebClientAssumption DEF LiveShape, CleanedUp, Owned, OneLifeline, InUse, Conn
<1>1. CASE isLive = FALSE
  <2>1. /\ socketRef = NoSocket /\ effect = 0 /\ stopped = {} /\ timer = {}
        /\ conn = [s \in Sockets |-> [state |-> "closed", effect |-> 0, muted |-> FALSE]]
    BY <1>1 DEF Init
  <2>2. LiveShape
    <3>1. conn \in [Sockets -> Conn] /\ effect \in 0 .. MaxEffects
      BY <2>1
    <3> QED BY <1>1, <2>1, <3>1
  <2>3. CleanedUp
    BY <1>1, <2>1
  <2>4. Owned /\ OneLifeline
    BY <1>1, <2>1
  <2> QED BY <2>2, <2>3, <2>4 DEF LifeInv
<1>2. CASE isLive = TRUE
  <2>1. /\ socketRef \in Sockets /\ effect = 1 /\ stopped = {} /\ timer = {}
        /\ conn = [s \in Sockets |->
                 [state |-> IF s = socketRef THEN "connecting" ELSE "closed",
                  effect |-> IF s = socketRef THEN 1 ELSE 0, muted |-> FALSE]]
    BY <1>2 DEF Init
  <2>2. LiveShape
    BY <1>2, <2>1
  <2>3. CleanedUp
    BY <1>2, <2>1
  <2>4. Owned /\ OneLifeline
    BY <1>2, <2>1
  <2> QED BY <2>2, <2>3, <2>4 DEF LifeInv
<1> QED BY <1>1, <1>2 DEF Init

(* Steps that leave the tail's part of the state alone.                     *)
LEMMA LifeFrame ==
  ASSUME LifeInv, UNCHANGED <<isLive, socketRef, conn, effect, stopped, timer>>
  PROVE  LifeInv'
BY DEF LifeInv, LiveShape, CleanedUp, Owned, OneLifeline, InUse

LEMMA SwitchOnKeepsLife ==
  ASSUME LifeInv, SwitchOn
  PROVE  LifeInv'
<1> USE WebClientAssumption DEF LifeInv
<1>1. PICK s \in Sockets : Connect(s, effect + 1)
  BY DEF SwitchOn
<1>2. /\ ~isLive /\ effect < MaxEffects /\ isLive' = TRUE /\ effect' = effect + 1
      /\ stopped' = stopped /\ timer' = timer
  BY DEF SwitchOn
<1>3. /\ conn[s].state = "closed" /\ socketRef' = s
      /\ conn' = [conn EXCEPT ![s] = [state |-> "connecting", effect |-> effect + 1, muted |-> FALSE]]
  BY <1>1 DEF Connect
<1>4. socketRef = NoSocket /\ timer = {} /\ \A r \in Sockets : ~InUse(r)
  BY <1>2 DEF OneLifeline
<1>5. LiveShape'
  BY <1>2, <1>3 DEF LiveShape, Conn
<1>6. CleanedUp'
  BY <1>2 DEF CleanedUp, LiveShape
<1>7. \A r \in Sockets \ {s} : conn'[r] = conn[r]
  BY <1>3 DEF LiveShape
<1>8. conn'[s] = [state |-> "connecting", effect |-> effect + 1, muted |-> FALSE]
  BY <1>3 DEF LiveShape
<1>9. Owned'
  <2> SUFFICES ASSUME NEW r \in Sockets
               PROVE  /\ conn'[r].state = "open" => ~conn'[r].muted
                      /\ conn'[r].state # "closed" => /\ conn'[r].effect \in 1 .. effect'
                                                      /\ conn'[r].effect \in stopped' <=> ~InUse(r)'
    BY DEF Owned, InUse
  <2>1. CASE r = s
    <3>1. InUse(r)' /\ effect + 1 \notin stopped
      BY <1>2, <1>8, <2>1 DEF InUse, CleanedUp, LiveShape
    <3> QED BY <1>2, <1>8, <2>1, <3>1 DEF LiveShape
  <2>2. CASE r # s
    BY <1>2, <1>7, <2>2 DEF InUse, Owned, LiveShape
  <2> QED BY <2>1, <2>2
<1>10. OneLifeline'
  BY <1>2, <1>3, <1>4, <1>7, <1>8 DEF OneLifeline, InUse, LiveShape
<1> QED BY <1>5, <1>6, <1>9, <1>10

LEMMA SwitchOffKeepsLife ==
  ASSUME LifeInv, SwitchOff
  PROVE  LifeInv'
<1> USE WebClientAssumption DEF LifeInv
<1>1. /\ isLive /\ isLive' = FALSE /\ stopped' = stopped \cup {effect} /\ timer' = timer \ {effect}
      /\ conn' = [s \in Sockets |-> IF s = socketRef THEN Closing(conn[s]) ELSE conn[s]]
      /\ socketRef' = NoSocket /\ effect' = effect
  BY DEF SwitchOff
<1>2. timer' = {}
  BY <1>1 DEF OneLifeline
<1>3. LiveShape'
  <2>1. \A s \in Sockets : Closing(conn[s]) \in Conn
    BY DEF LiveShape, Conn, Closing
  <2> QED BY <1>1, <2>1 DEF LiveShape
<1>4. CleanedUp'
  BY <1>1 DEF CleanedUp, LiveShape
<1>5. \A s \in Sockets : ~InUse(s)'
  <2> TAKE s \in Sockets
  <2>1. CASE s = socketRef
    <3>1. conn'[s] = Closing(conn[s])
      BY <1>1, <2>1
    <3>2. conn[s] \in Conn /\ InUse(s)
      BY <2>1 DEF LiveShape, OneLifeline
    <3> QED BY <3>1, <3>2 DEF Closing, InUse, Conn
  <2>2. CASE s # socketRef
    BY <1>1, <2>2 DEF InUse, OneLifeline
  <2> QED BY <2>1, <2>2
<1>6. Owned'
  <2> SUFFICES ASSUME NEW s \in Sockets
               PROVE  /\ conn'[s].state = "open" => ~conn'[s].muted
                      /\ conn'[s].state # "closed" => /\ conn'[s].effect \in 1 .. effect
                                                      /\ conn'[s].effect \in stopped'
    BY <1>1, <1>5 DEF Owned
  <2>1. CASE s = socketRef
    <3>1. conn'[s] = Closing(conn[s]) /\ conn[s] \in Conn /\ InUse(s) /\ conn[s].effect = effect
      BY <1>1, <2>1 DEF LiveShape, OneLifeline
    <3> QED BY <1>1, <3>1 DEF Closing, InUse, Conn, Owned, LiveShape
  <2>2. CASE s # socketRef
    <3>1. conn'[s] = conn[s] /\ ~InUse(s)
      BY <1>1, <2>2 DEF OneLifeline
    <3> QED BY <1>1, <3>1 DEF Owned
  <2> QED BY <2>1, <2>2
<1>7. OneLifeline'
  BY <1>1, <1>2, <1>5 DEF OneLifeline
<1> QED BY <1>3, <1>4, <1>6, <1>7

LEMMA OpenKeepsLife ==
  ASSUME LifeInv, NEW s \in Sockets, WsOpen(s)
  PROVE  LifeInv'
<1> USE WebClientAssumption DEF LifeInv
<1>1. /\ conn[s].state = "connecting"
      /\ UNCHANGED <<isLive, socketRef, effect, stopped, timer>>
      /\ conn' = [conn EXCEPT ![s].state = IF conn[s].muted THEN "closing" ELSE "open"]
  BY DEF WsOpen
<1>2. conn[s] \in Conn /\ conn' \in [Sockets -> Conn]
  BY <1>1 DEF LiveShape, Conn
<1>3. /\ conn'[s].state = IF conn[s].muted THEN "closing" ELSE "open"
      /\ conn'[s].effect = conn[s].effect /\ conn'[s].muted = conn[s].muted
      /\ \A r \in Sockets \ {s} : conn'[r] = conn[r]
  BY <1>1, <1>2 DEF LiveShape, Conn
<1>4. \A r \in Sockets : InUse(r)' <=> InUse(r)
  BY <1>1, <1>2, <1>3 DEF InUse, Conn
<1>5. LiveShape' /\ CleanedUp'
  BY <1>1, <1>2 DEF LiveShape, CleanedUp
<1>6. Owned'
  BY <1>1, <1>3, <1>4 DEF Owned
<1>7. OneLifeline'
  BY <1>1, <1>3, <1>4 DEF OneLifeline
<1> QED BY <1>5, <1>6, <1>7

LEMMA CloseKeepsLife ==
  ASSUME LifeInv, NEW s \in Sockets, WsClose(s)
  PROVE  LifeInv'
<1> USE WebClientAssumption DEF LifeInv
<1>1. /\ conn[s].state # "closed"
      /\ UNCHANGED <<isLive, effect, stopped>>
      /\ conn' = [conn EXCEPT ![s] = [state |-> "closed", effect |-> 0, muted |-> FALSE]]
      /\ socketRef' = IF socketRef = s THEN NoSocket ELSE socketRef
      /\ timer' = timer \cup ({conn[s].effect} \ stopped)
  BY DEF WsClose
<1>2. LiveShape' /\ CleanedUp'
  BY <1>1 DEF LiveShape, CleanedUp, Conn
<1>3. /\ conn'[s] = [state |-> "closed", effect |-> 0, muted |-> FALSE]
      /\ \A r \in Sockets \ {s} : conn'[r] = conn[r]
  BY <1>1 DEF LiveShape
<1>4. ~InUse(s)' /\ \A r \in Sockets \ {s} : InUse(r)' <=> InUse(r)
  BY <1>3 DEF InUse
<1>5. Owned'
  BY <1>1, <1>3, <1>4 DEF Owned
<1>6. CASE s = socketRef
  <2>1. InUse(s) /\ conn[s].effect = effect /\ isLive /\ timer = {}
    BY <1>6 DEF OneLifeline
  <2>2. timer' = {effect} /\ socketRef' = NoSocket
    BY <1>1, <1>6, <2>1 DEF Owned
  <2> QED BY <1>1, <1>2, <1>4, <1>5, <1>6, <2>1, <2>2 DEF OneLifeline
<1>7. CASE s # socketRef
  <2>1. timer' = timer /\ socketRef' = socketRef
    BY <1>1, <1>7 DEF OneLifeline, Owned
  <2> QED BY <1>1, <1>2, <1>3, <1>4, <1>5, <1>7, <2>1 DEF OneLifeline, LiveShape
<1> QED BY <1>6, <1>7

LEMMA ReconnectKeepsLife ==
  ASSUME LifeInv, NEW e \in timer, Reconnect(e)
  PROVE  LifeInv'
<1> USE WebClientAssumption DEF LifeInv
<1>1. e = effect /\ timer = {effect} /\ timer' = {} /\ isLive /\ socketRef = NoSocket
  BY DEF OneLifeline, Reconnect
<1>2. effect \notin stopped
  BY <1>1 DEF CleanedUp, LiveShape
<1>3. /\ UNCHANGED <<isLive, effect, stopped>>
      /\ \E s \in Sockets : Connect(s, effect)
  BY <1>1, <1>2 DEF Reconnect
<1>4. PICK s \in Sockets : Connect(s, effect)
  BY <1>3
<1>5. /\ conn[s].state = "closed" /\ socketRef' = s
      /\ conn' = [conn EXCEPT ![s] = [state |-> "connecting", effect |-> effect, muted |-> FALSE]]
  BY <1>4 DEF Connect
<1>6. /\ conn'[s] = [state |-> "connecting", effect |-> effect, muted |-> FALSE]
      /\ \A r \in Sockets \ {s} : conn'[r] = conn[r]
  BY <1>5 DEF LiveShape
<1>7. InUse(s)' /\ \A r \in Sockets \ {s} : ~InUse(r)'
  BY <1>1, <1>6 DEF InUse, OneLifeline
<1>8. effect \in 0 .. MaxEffects
  BY DEF LiveShape
<1>9. LiveShape' /\ CleanedUp'
  BY <1>3, <1>5, <1>8 DEF LiveShape, CleanedUp, Conn
<1>10. Owned'
  BY <1>1, <1>2, <1>3, <1>6, <1>7 DEF Owned, InUse, LiveShape
<1>11. OneLifeline'
  BY <1>1, <1>3, <1>5, <1>6, <1>7 DEF OneLifeline
<1> QED BY <1>9, <1>10, <1>11

LEMMA LifeNext == LifeInv /\ [Next]_vars => LifeInv'
<1> SUFFICES ASSUME LifeInv, [Next]_vars
             PROVE  LifeInv'
  OBVIOUS
<1>1. ASSUME SwitchOn \/ SwitchOff PROVE LifeInv'
  BY <1>1, SwitchOnKeepsLife, SwitchOffKeepsLife
<1>2. CASE LabelClicks
  BY <1>1, <1>2 DEF LabelClicks, Toggle
<1>3. CASE User
  <2>1. CASE PressSpace \/ ClickPill \/ ClickSlider
    BY <1>1, <2>1 DEF PressSpace, ClickPill, ClickSlider, Toggle
  <2>2. CASE Type \/ PressEnter \/ DismissError \/ \E m \in Ranges : ChooseRange(m)
    BY <2>2, LifeFrame DEF Type, PressEnter, DismissError, ChooseRange, liveVars
  <2> QED BY <1>3, <2>1, <2>2 DEF User
<1>4. CASE Events
  <2>1. CASE \E n \in Searches : Settle(n)
    BY <2>1, LifeFrame DEF Settle, liveVars
  <2>2. CASE \E s \in Sockets : WsOpen(s)
    BY <2>2, OpenKeepsLife
  <2>3. CASE \E s \in Sockets : WsMessage(s)
    BY <2>3, LifeFrame DEF WsMessage
  <2>4. CASE \E s \in Sockets : WsClose(s)
    BY <2>4, CloseKeepsLife
  <2>5. CASE \E e \in timer : Reconnect(e)
    BY <2>5, ReconnectKeepsLife
  <2>6. CASE FlushBuffer
    BY <2>6, LifeFrame DEF FlushBuffer
  <2> QED BY <1>4, <2>1, <2>2, <2>3, <2>4, <2>5, <2>6 DEF Events
<1>5. CASE UNCHANGED vars
  BY <1>5, LifeFrame DEF vars
<1> QED BY <1>2, <1>3, <1>4, <1>5 DEF Next

(* However fast the live tail is switched and whenever its connection       *)
(* breaks, it has one socket or one reconnect timer while it is on and      *)
(* neither while it is off (App.jsx:133-207).                               *)
THEOREM OneLifelineCorrect == Spec => []OneLifeline
<1>1. LifeInv => OneLifeline
  BY DEF LifeInv
<1> QED BY <1>1, LifeInit, LifeNext, PTL DEF Spec

-----------------------------------------------------------------------------
(* The buffer *)

(* The buffer names lines that were received.                               *)
BufferShape ==
  /\ lines \in Seq(Nat)
  /\ buffer \in Seq(1 .. Len(lines))

BufferInv == LifeInv /\ BufferShape /\ BufferFresh

LEMMA BufferFrame ==
  ASSUME BufferInv, UNCHANGED <<lines, buffer, isLive, effect>>
  PROVE  BufferShape' /\ BufferFresh'
BY DEF BufferInv, BufferShape, BufferFresh

LEMMA BufferEmptied ==
  ASSUME BufferInv, lines' = lines, buffer' = <<>>
  PROVE  BufferShape' /\ BufferFresh'
BY DEF BufferInv, BufferShape, BufferFresh

LEMMA MessageKeepsBuffer ==
  ASSUME BufferInv, NEW s \in Sockets, WsMessage(s)
  PROVE  BufferShape' /\ BufferFresh'
<1>1. isLive' = isLive /\ effect' = effect
  BY DEF WsMessage
<1>2. CASE lines' = lines /\ buffer' = buffer
  BY <1>1, <1>2, BufferFrame
<1>3. CASE /\ lines' = Append(lines, conn[s].effect)
           /\ buffer' = Append(buffer, Len(lines) + 1)
  <2>1. isLive /\ conn[s].effect = effect /\ effect \in Nat
    <3>1. InUse(s)
      BY DEF WsMessage, BufferInv, LifeInv, Owned, InUse
    <3> QED BY <3>1, WebClientAssumption DEF BufferInv, LifeInv, LiveShape, OneLifeline
  <2> DEFINE line == conn[s].effect
  <2>2. line \in Nat /\ line = effect
    BY <1>1, <2>1
  <2> HIDE DEF line
  <2>3. /\ lines' \in Seq(Nat) /\ Len(lines') = Len(lines) + 1
        /\ lines'[Len(lines) + 1] = line
        /\ \A k \in 1 .. Len(lines) : lines'[k] = lines[k]
    BY <1>3, <2>2 DEF BufferInv, BufferShape, line
  <2>4. buffer \in Seq(1 .. Len(lines')) /\ Len(lines) + 1 \in 1 .. Len(lines')
    BY <2>3 DEF BufferInv, BufferShape
  <2>5. /\ buffer' \in Seq(1 .. Len(lines')) /\ Len(buffer') = Len(buffer) + 1
        /\ buffer'[Len(buffer) + 1] = Len(lines) + 1
        /\ \A i \in 1 .. Len(buffer) : buffer'[i] = buffer[i]
    BY <1>3, <2>4
  <2>6. \A i \in 1 .. Len(buffer') : lines'[buffer'[i]] = effect
    <3> TAKE i \in 1 .. Len(buffer')
    <3>1. CASE i = Len(buffer) + 1
      BY <2>2, <2>3, <2>5, <3>1
    <3>2. CASE i \in 1 .. Len(buffer)
      <4>1. buffer[i] \in 1 .. Len(lines) /\ buffer # <<>>
        BY <3>2 DEF BufferInv, BufferShape
      <4>2. lines[buffer[i]] = effect
        BY <3>2, <4>1 DEF BufferInv, BufferFresh
      <4> QED BY <2>3, <2>5, <3>2, <4>1, <4>2
    <3>3. Len(buffer) \in Nat
      BY DEF BufferInv, BufferShape
    <3> QED BY <2>5, <3>1, <3>2, <3>3
  <2>7. BufferShape'
    BY <1>1, <2>3, <2>5 DEF BufferShape
  <2> QED BY <1>1, <2>1, <2>6, <2>7 DEF BufferFresh
<1> QED BY <1>2, <1>3 DEF WsMessage

LEMMA BufferNext == BufferInv /\ [Next]_vars => BufferInv'
<1> SUFFICES ASSUME BufferInv, [Next]_vars
             PROVE  BufferInv'
  OBVIOUS
<1>0. LifeInv'
  BY LifeNext DEF BufferInv
<1>1. ASSUME (SwitchOn \/ SwitchOff), lines' = lines
      PROVE  BufferShape' /\ BufferFresh'
  BY <1>1, BufferEmptied DEF SwitchOn, SwitchOff
<1>2. CASE LabelClicks
  BY <1>1, <1>2, <1>0 DEF LabelClicks, Toggle, BufferInv
<1>3. CASE User
  <2>1. CASE PressSpace
    BY <1>1, <1>0, <2>1 DEF PressSpace, BufferInv
  <2>2. CASE ClickPill \/ ClickSlider
    BY <1>1, <1>0, <2>2 DEF ClickPill, ClickSlider, Toggle, BufferInv
  <2>3. CASE Type \/ PressEnter \/ DismissError \/ \E m \in Ranges : ChooseRange(m)
    <3>1. UNCHANGED <<lines, buffer, isLive, effect>>
      BY <2>3 DEF Type, PressEnter, DismissError, ChooseRange, liveVars
    <3> QED BY <1>0, <3>1, BufferFrame DEF BufferInv
  <2> QED BY <1>3, <2>1, <2>2, <2>3 DEF User
<1>4. CASE Events
  <2>1. CASE \E s \in Sockets : WsMessage(s)
    BY <1>0, <2>1, MessageKeepsBuffer DEF BufferInv
  <2>2. CASE FlushBuffer
    BY <1>0, <2>2, BufferEmptied DEF FlushBuffer, BufferInv
  <2>3. CASE \/ \E n \in Searches : Settle(n)
             \/ \E s \in Sockets : WsOpen(s) \/ WsClose(s)
             \/ \E e \in timer : Reconnect(e)
    <3>1. UNCHANGED <<lines, buffer, isLive, effect>>
      BY <2>3 DEF Settle, WsOpen, WsClose, Reconnect, liveVars
    <3> QED BY <1>0, <3>1, BufferFrame DEF BufferInv
  <2> QED BY <1>4, <2>1, <2>2, <2>3 DEF Events
<1>5. CASE UNCHANGED vars
  BY <1>0, <1>5, BufferFrame DEF vars, BufferInv
<1> QED BY <1>2, <1>3, <1>4, <1>5 DEF Next

(* A line of a tail that was switched off never shows up in the next one,   *)
(* although all of them share bufferRef (App.jsx:136, 164, 203).            *)
THEOREM BufferFreshCorrect == Spec => []BufferFresh
<1>1. Init => BufferInv
  BY LifeInit DEF Init, BufferInv, BufferShape, BufferFresh
<1>2. BufferInv => BufferFresh
  BY DEF BufferInv
<1> QED BY <1>1, <1>2, BufferNext, PTL DEF Spec

-----------------------------------------------------------------------------
(* The shape of the whole state, in the parts that steps change together.   *)

SearchShape ==
  /\ query \in Queries /\ timeRange \in Ranges
  /\ isLoading \in BOOLEAN /\ queryError \in BOOLEAN
  /\ newLogCount \in Nat /\ newCount \in Nat
  /\ searches \in Searches
  /\ asked \in Queries \X Ranges
  /\ outcome \in [Searches -> {"none", "out", "found", "empty"}]
  /\ label \in Seq(BOOLEAN)

LinkShape ==
  /\ isLive \in BOOLEAN
  /\ socketState \in {"off", "connecting", "connected", "error"}
  /\ socketRef \in Sockets \cup {NoSocket}
  /\ conn \in [Sockets -> Conn]
  /\ effect \in 0 .. MaxEffects
  /\ stopped \subseteq 0 .. MaxEffects /\ timer \subseteq 0 .. MaxEffects

LineShape ==
  /\ buffer \in Seq(1 .. MaxLines)
  /\ lines \in Seq(0 .. MaxEffects)

ShownShape == logs \in Seq(Rows) /\ Len(logs) <= LiveMaxLines

LEMMA TypeParts ==
  /\ TypeOK <=> SearchShape /\ LinkShape /\ LineShape /\ ShownShape
  /\ TypeOK' <=> SearchShape' /\ LinkShape' /\ LineShape' /\ ShownShape'
BY DEF TypeOK, SearchShape, LinkShape, LineShape, ShownShape, Conn

searchShapeVars == <<barVars, isLoading, queryError, countVars, searches, asked, outcome, label>>
linkShapeVars == <<isLive, socketState, socketRef, conn, effect, stopped, timer>>

LEMMA TypeFrame ==
  /\ SearchShape /\ UNCHANGED searchShapeVars => SearchShape'
  /\ LinkShape /\ UNCHANGED linkShapeVars => LinkShape'
  /\ LineShape /\ UNCHANGED <<buffer, lines>> => LineShape'
  /\ ShownShape /\ UNCHANGED logs => ShownShape'
BY DEF SearchShape, LinkShape, LineShape, ShownShape, searchShapeVars, linkShapeVars, barVars,
   countVars

LEMMA RunQueryShape ==
  ASSUME NEW q \in Queries, NEW m \in Ranges, SearchShape, RunQuery(q, m),
         query' \in Queries, timeRange' \in Ranges, label' \in Seq(BOOLEAN)
  PROVE  SearchShape'
<1>1. searches + 1 \in Searches
  BY WebClientAssumption DEF SearchShape, RunQuery, Searches
<1> QED BY <1>1 DEF SearchShape, RunQuery

(* One switch of the live tail.                                             *)
LEMMA SwitchShape ==
  ASSUME LinkShape, LineShape, SwitchOn \/ SwitchOff, lines' = lines
  PROVE  LinkShape' /\ LineShape'
<1>1. LineShape'
  <2>1. buffer' = <<>>
    BY DEF SwitchOn, SwitchOff
  <2> QED BY <2>1 DEF LineShape
<1>2. CASE SwitchOn
  <2>1. effect' = effect + 1 /\ effect + 1 \in 0 .. MaxEffects
    BY <1>2, WebClientAssumption DEF SwitchOn, LinkShape
  <2>2. PICK s \in Sockets : Connect(s, effect + 1)
    BY <1>2 DEF SwitchOn
  <2>3. conn' \in [Sockets -> Conn]
    BY <2>1, <2>2 DEF Connect, LinkShape, Conn
  <2> QED BY <1>1, <1>2, <2>1, <2>2, <2>3 DEF SwitchOn, Connect, LinkShape
<1>3. CASE SwitchOff
  <2>1. \A s \in Sockets : Closing(conn[s]) \in Conn
    BY DEF LinkShape, Conn, Closing
  <2> QED BY <1>1, <1>3, <2>1 DEF SwitchOff, LinkShape
<1> QED BY <1>2, <1>3

LEMMA UserShape ==
  ASSUME TypeOK, User \/ LabelClicks
  PROVE  TypeOK'
<1>t. SearchShape /\ LinkShape /\ LineShape /\ ShownShape
  BY TypeParts
<1>1. CASE Type \/ PressEnter \/ DismissError \/ \E m \in Ranges : ChooseRange(m)
  <2>1. LinkShape' /\ LineShape' /\ ShownShape'
    BY <1>t, <1>1, TypeFrame DEF Type, PressEnter, DismissError, ChooseRange, liveVars, linkShapeVars
  <2>2. CASE Type \/ DismissError
    BY <1>t, <2>1, <2>2, TypeParts DEF Type, DismissError, SearchShape, barVars, searchVars, countVars
  <2>3. CASE PressEnter
    BY <1>t, <2>1, <2>3, RunQueryShape, TypeParts DEF PressEnter, SearchShape, barVars
  <2>4. ASSUME NEW m \in Ranges, ChooseRange(m)
        PROVE  TypeOK'
    BY <1>t, <2>1, <2>4, RunQueryShape, TypeParts DEF ChooseRange, SearchShape
  <2> QED BY <1>1, <2>2, <2>3, <2>4
<1>2. CASE PressSpace \/ ClickPill \/ ClickSlider \/ LabelClicks
  <2>1. (SwitchOn \/ SwitchOff) /\ UNCHANGED <<barVars, logs, lines>>
    BY <1>2 DEF PressSpace, ClickPill, ClickSlider, LabelClicks, Toggle
  <2>2. LinkShape' /\ LineShape' /\ ShownShape'
    BY <1>t, <2>1, SwitchShape, TypeFrame
  <2>3. SearchShape'
    <3>1. CASE PressSpace
      BY <1>t, <3>1 DEF PressSpace, SwitchOn, SearchShape, barVars, searchVars, countVars
    <3>2. CASE ClickPill \/ ClickSlider \/ LabelClicks
      <4>1. label' \in Seq(BOOLEAN)
        <5>1. label' \in {label, <<isLive>>, <<>>}
          BY <3>2 DEF ClickPill, ClickSlider, LabelClicks
        <5>2. <<isLive>> \in Seq(BOOLEAN) /\ <<>> \in Seq(BOOLEAN)
          BY <1>t DEF LinkShape
        <5> QED BY <1>t, <5>1, <5>2 DEF SearchShape
      <4>2. RunQuery(query, timeRange)
        BY <3>2 DEF ClickPill, ClickSlider, LabelClicks, Toggle
      <4> QED BY <1>t, <2>1, <4>1, <4>2, RunQueryShape DEF SearchShape, barVars
    <3> QED BY <1>2, <3>1, <3>2
  <2> QED BY <2>2, <2>3, TypeParts
<1> QED BY <1>1, <1>2 DEF User

LEMMA EventShape ==
  ASSUME TypeOK, Events
  PROVE  TypeOK'
<1>t. SearchShape /\ LinkShape /\ LineShape /\ ShownShape
  BY TypeParts
<1>1. ASSUME NEW n \in Searches, Settle(n)
      PROVE  TypeOK'
  <2>1. LinkShape' /\ LineShape'
    BY <1>t, <1>1, TypeFrame DEF Settle, liveVars, linkShapeVars
  <2>2. SearchShape'
    BY <1>t, <1>1 DEF Settle, SearchShape, barVars, countVars
  <2>3. <<"found", n>> \in Rows
    BY DEF Rows
  <2>4. ShownShape'
    BY <1>1, <2>3, WebClientAssumption DEF Settle, ShownShape
  <2> QED BY <2>1, <2>2, <2>4, TypeParts
<1>2. ASSUME NEW s \in Sockets, WsOpen(s)
      PROVE  TypeOK'
  <2>1. SearchShape' /\ LineShape' /\ ShownShape'
    BY <1>t, <1>2, TypeFrame DEF WsOpen, searchVars, searchShapeVars
  <2>2. LinkShape'
    BY <1>t, <1>2 DEF WsOpen, LinkShape, Conn
  <2> QED BY <2>1, <2>2, TypeParts
<1>3. ASSUME NEW s \in Sockets, WsMessage(s)
      PROVE  TypeOK'
  <2>1. SearchShape' /\ ShownShape'
    BY <1>t, <1>3, TypeFrame DEF WsMessage, SearchShape, searchVars, barVars, countVars
  <2>2. LinkShape'
    BY <1>t, <1>3 DEF WsMessage, LinkShape
  <2>3. CASE lines' = lines /\ buffer' = buffer
    BY <1>t, <2>1, <2>2, <2>3, TypeFrame, TypeParts
  <2>4. CASE /\ Len(lines) < MaxLines
             /\ lines' = Append(lines, conn[s].effect) /\ buffer' = Append(buffer, Len(lines) + 1)
    <3>1. PICK e, k : e = conn[s].effect /\ k = Len(lines) + 1
      OBVIOUS
    <3>2. e \in 0 .. MaxEffects /\ k \in 1 .. MaxLines
      BY <1>t, <2>4, <3>1, WebClientAssumption DEF LinkShape, LineShape, Conn
    <3>3. LineShape'
      BY <1>t, <2>4, <3>1, <3>2 DEF LineShape
    <3> QED BY <2>1, <2>2, <3>3, TypeParts
  <2> QED BY <1>3, <2>3, <2>4 DEF WsMessage
<1>4. ASSUME NEW s \in Sockets, WsClose(s)
      PROVE  TypeOK'
  <2>1. SearchShape' /\ LineShape' /\ ShownShape'
    BY <1>t, <1>4, TypeFrame DEF WsClose, searchVars, searchShapeVars
  <2>2. conn[s].effect \in 0 .. MaxEffects
    BY <1>t DEF LinkShape, Conn
  <2>3. conn' \in [Sockets -> Conn]
    BY <1>t, <1>4, WebClientAssumption DEF WsClose, LinkShape, Conn
  <2>4. LinkShape'
    BY <1>t, <1>4, <2>2, <2>3 DEF WsClose, LinkShape
  <2> QED BY <2>1, <2>4, TypeParts
<1>5. ASSUME NEW e \in timer, Reconnect(e)
      PROVE  TypeOK'
  <2>1. SearchShape' /\ LineShape' /\ ShownShape'
    BY <1>t, <1>5, TypeFrame DEF Reconnect, searchVars, searchShapeVars
  <2>2. e \in 0 .. MaxEffects
    BY <1>t DEF LinkShape
  <2>3. CASE UNCHANGED <<conn, socketRef, socketState>>
    BY <1>t, <1>5, <2>1, <2>3, TypeParts DEF Reconnect, LinkShape
  <2>4. ASSUME NEW s \in Sockets, Connect(s, e)
        PROVE  TypeOK'
    <3>1. [state |-> "connecting", effect |-> e, muted |-> FALSE] \in Conn
      BY <2>2 DEF Conn
    <3>2. conn' \in [Sockets -> Conn] /\ socketRef' = s /\ socketState' = "connecting"
      BY <1>t, <2>4, <3>1 DEF Connect, LinkShape
    <3>3. LinkShape'
      BY <1>t, <1>5, <3>2 DEF Reconnect, LinkShape
    <3> QED BY <2>1, <3>3, TypeParts
  <2> QED BY <1>5, <2>3, <2>4 DEF Reconnect
<1>6. CASE FlushBuffer
  <2>1. LinkShape' /\ LineShape'
    BY <1>t, <1>6, TypeFrame DEF FlushBuffer, linkShapeVars, LineShape
  <2>2. SearchShape'
    BY <1>t, <1>6 DEF FlushBuffer, SearchShape, LineShape, barVars, searchVars
  <2>3. ShownShape'
    <3>1. PICK batch, merged : /\ batch = [i \in 1 .. Len(buffer) |-> <<"live", buffer[i]>>]
                               /\ merged = batch \o logs
      OBVIOUS
    <3>2. ASSUME NEW i \in 1 .. Len(buffer)
          PROVE  <<"live", buffer[i]>> \in Rows
      <4>1. PICK n : n = buffer[i]
        OBVIOUS
      <4>2. n \in 1 .. MaxLines
        <5>1. PICK S : S = 1 .. MaxLines
          OBVIOUS
        <5>2. buffer \in Seq(S)
          BY <1>t, <5>1 DEF LineShape
        <5>3. buffer[i] \in S
          BY <5>2
        <5> QED BY <4>1, <5>1, <5>3
      <4>3. <<"live", n>> \in {"live"} \X (1 .. MaxLines)
        BY <4>2
      <4> QED BY <4>1, <4>3 DEF Rows
    <3>3. batch \in Seq(Rows)
      BY <1>t, <3>1, <3>2 DEF LineShape
    <3>4. merged \in Seq(Rows)
      BY <1>t, <3>1, <3>3 DEF ShownShape
    <3>5. PICK k : k = IF Len(merged) < LiveMaxLines THEN Len(merged) ELSE LiveMaxLines
      OBVIOUS
    <3>6. k \in 0 .. Len(merged) /\ k <= LiveMaxLines
      BY <3>4, <3>5, WebClientAssumption
    <3>7. logs' = SubSeq(merged, 1, k)
      BY <1>6, <3>1, <3>5 DEF FlushBuffer
    <3> QED BY <3>4, <3>6, <3>7 DEF ShownShape
  <2> QED BY <2>1, <2>2, <2>3, TypeParts
<1> QED BY <1>1, <1>2, <1>3, <1>4, <1>5, <1>6 DEF Events

(* The page's state keeps its shape whatever searches, sockets and timers   *)
(* do, and in whatever order; what is shown never exceeds LIVE_MAX_LINES    *)
(* (App.jsx).                                                               *)
THEOREM TypeCorrect == Spec => []TypeOK
<1>1. Init => TypeOK
  <2> SUFFICES ASSUME Init
               PROVE  SearchShape /\ LinkShape /\ LineShape /\ ShownShape
    BY TypeParts
  <2>1. SearchShape
    <3>1. 1 \in Searches
      BY WebClientAssumption DEF Searches
    <3>2. outcome \in [Searches -> {"none", "out", "found", "empty"}]
      BY DEF Init
    <3>3. label \in Seq(BOOLEAN) /\ asked \in Queries \X Ranges
      BY DEF Init
    <3> QED BY <3>1, <3>2, <3>3 DEF Init, SearchShape
  <2>2. LinkShape
    BY LifeInit, WebClientAssumption DEF Init, LinkShape, LifeInv, LiveShape
  <2>3. LineShape /\ ShownShape
    BY WebClientAssumption DEF Init, LineShape, ShownShape
  <2> QED BY <2>1, <2>2, <2>3
<1>2. TypeOK /\ [Next]_vars => TypeOK'
  <2> SUFFICES ASSUME TypeOK, UNCHANGED vars
               PROVE  TypeOK'
    BY UserShape, EventShape DEF Next
  <2> QED BY DEF vars, TypeOK, barVars, countVars
<1> QED BY <1>1, <1>2, PTL DEF Spec

=============================================================================
