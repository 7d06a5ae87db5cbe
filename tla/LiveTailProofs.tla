--------------------------- MODULE LiveTailProofs ----------------------------
(***************************************************************************)
(* A live tail polls one question at a time, sends nothing once it was      *)
(* stopped, is a loop as TailLoop has it, and sends what it was answered.   *)
(***************************************************************************)
EXTENDS LiveTail, FiniteSetTheorems, TLAPS

(* A call is cancelled by stop() alone, so its callback finds the tail      *)
(* stopped; without this a stray callback could find nothing to decide by.  *)
TailInv ==
  /\ stopped \in BOOLEAN /\ timer \in BOOLEAN
  /\ call \in {"none", "asked", "answered", "failed", "cancelled"}
  /\ call = "cancelled" => stopped
  /\ SingleFlight

LEMMA TailInit == Init => TailInv
BY DEF Init, TailInv, SingleFlight

LEMMA StopKeepsTail ==
  ASSUME TailInv, Stop
  PROVE  TailInv'
BY DEF TailInv, SingleFlight, Stop

LEMMA TailStep ==
  ASSUME TailInv, [Next]_vars
  PROVE  TailInv'
<1>1. CASE UNCHANGED <<stopped, timer, call>>
  BY <1>1 DEF TailInv, SingleFlight
<1>2. CASE TimePasses \/ Store \/ WsClosing \/ \E r \in Records : Arrive(r)
  BY <1>1, <1>2 DEF TimePasses, Store, WsClosing, Arrive, callVars
<1>3. CASE Answer \/ Fail
  BY <1>3 DEF Answer, Fail, TailInv, SingleFlight
<1>4. CASE WsClosed
  <2>1. CASE stopped
    BY <1>1, <1>4, <2>1 DEF WsClosed, callVars
  <2>2. CASE ~stopped
    BY <1>4, <2>2, StopKeepsTail DEF WsClosed
  <2> QED BY <2>1, <2>2 DEF TailInv
<1>5. CASE PollStops
  BY <1>5, StopKeepsTail DEF PollStops
<1>6. CASE Poll
  BY <1>6 DEF Poll, TailInv, SingleFlight
<1>7. CASE CallbackStopped
  BY <1>7 DEF CallbackStopped, TailInv, SingleFlight
<1>8. CASE CallbackError \/ CallbackLogs
  <2>1. call' = "none" /\ timer' = TRUE /\ stopped' = stopped /\ call \in {"failed", "answered"}
    BY <1>8 DEF CallbackError, CallbackLogs
  <2> QED BY <2>1 DEF TailInv, SingleFlight
<1>9. CASE UNCHANGED vars
  BY <1>1, <1>9 DEF vars, callVars
<1> QED BY <1>2, <1>3, <1>4, <1>5, <1>6, <1>7, <1>8, <1>9 DEF Next, Callback

LEMMA TailInvariant == Spec => []TailInv
<1>1. TailInv /\ [Next]_vars => TailInv'
  BY TailStep
<1> QED BY TailInit, <1>1, PTL DEF Spec

(* One poll at a time (liveTail.js:24-51), whatever the engine answers and  *)
(* whenever the socket closes.                                              *)
THEOREM SingleFlightCorrect == Spec => []SingleFlight
<1>1. TailInv => SingleFlight
  BY DEF TailInv
<1> QED BY <1>1, TailInvariant, PTL

(* Once stop has run nothing is sent and no timer is armed.                 *)
THEOREM QuietAfterStopCorrect == Spec => QuietAfterStop
<1>1. TailInv /\ [Next]_vars => [stopped => UNCHANGED <<sent, seen, timer, stopped>>]_vars
  <2> SUFFICES ASSUME TailInv, [Next]_vars, stopped
               PROVE  UNCHANGED <<sent, seen, timer, stopped>>
    OBVIOUS
  <2>1. ~timer /\ call \in {"none", "cancelled"}
    BY DEF TailInv, SingleFlight
  <2>2. CASE TimePasses \/ Store \/ WsClosing \/ \E r \in Records : Arrive(r)
    BY <2>2 DEF TimePasses, Store, WsClosing, Arrive, historyVars
  <2>3. CASE WsClosed \/ CallbackStopped
    BY <2>3 DEF WsClosed, CallbackStopped, historyVars
  <2>4. CASE UNCHANGED vars
    BY <2>4 DEF vars, historyVars
  <2>5. ~(Answer \/ Fail \/ PollStops \/ Poll \/ CallbackError \/ CallbackLogs)
    BY <2>1 DEF Answer, Fail, PollStops, Poll, CallbackError, CallbackLogs
  <2> QED BY <2>2, <2>3, <2>4, <2>5 DEF Next, Callback
<1> QED BY <1>1, TailInvariant, PTL DEF Spec, QuietAfterStop

----------------------------------------------------------------------------
(* The refinement *)

LEMMA LoopInit == Init => Loop!Init
BY DEF Init, Loop!Init

LEMMA LoopStep ==
  ASSUME TailInv, [Next]_vars
  PROVE  [Loop!Next]_(Loop!vars)
<1> USE DEF TailInv, SingleFlight
<1>1. CASE TimePasses \/ Store \/ UNCHANGED vars \/ \E r \in Records : Arrive(r)
  BY <1>1 DEF TimePasses, Store, Arrive, vars, callVars, Loop!vars
<1>2. CASE WsClosing
  BY <1>2 DEF WsClosing, callVars, Loop!Next, Loop!Closing
<1>3. CASE Answer \/ Fail
  BY <1>3 DEF Answer, Fail, Loop!vars
<1>4. CASE WsClosed
  BY <1>4 DEF WsClosed, callVars, Stop, Loop!Next, Loop!Closed, Loop!Stop
<1>5. CASE PollStops
  BY <1>5 DEF PollStops, Stop, Loop!Next, Loop!PollStops, Loop!Stop
<1>6. CASE Poll
  BY <1>6 DEF Poll, Loop!Next, Loop!Poll
<1>7. CASE CallbackStopped
  BY <1>7 DEF CallbackStopped, Loop!Next, Loop!Callback
<1>8. CASE CallbackError \/ CallbackLogs
  BY <1>8 DEF CallbackError, CallbackLogs, Loop!Next, Loop!Callback
<1> QED BY <1>1, <1>2, <1>3, <1>4, <1>5, <1>6, <1>7, <1>8 DEF Next, Callback

(* The tail does what TailLoop promises, step by step; that it goes on is   *)
(* checked, not proved.                                                     *)
THEOREM TailImplementsLoop == Spec => Loop!SafeSpec
<1>1. TailInv /\ [Next]_vars => [Loop!Next]_(Loop!vars)
  BY LoopStep
<1> QED BY LoopInit, <1>1, TailInvariant, PTL DEF Spec, Loop!SafeSpec

----------------------------------------------------------------------------
(* What is sent *)

Of(x, S) == {r \in S : TextOf[r] = x}

(* The answered records that an answer to a call at time t may hold again.  *)
Recent(t) == {r \in answered : t - Lookback <= stamp[r]}

DataShape ==
  /\ now \in 0 .. MaxTime /\ callAt \in Nat /\ callAt <= now
  /\ stamp \in [Records -> 0 .. MaxTime \cup {NoTime}]
  /\ answered \subseteq stored /\ stored \subseteq {r \in Records : stamp[r] # NoTime}
  /\ \A r \in Records : stamp[r] # NoTime => stamp[r] <= now
  /\ seen \in [Texts -> Nat] /\ sent \in [Texts -> Nat]
  /\ floor \subseteq Records /\ reply \subseteq Records
  /\ call \in {"none", "asked", "answered", "failed", "cancelled"}

(* A call that is out cannot miss what may be answered again.               *)
AskedAgain ==
  /\ call \in {"asked", "answered"} => Recent(callAt) \subseteq floor
  /\ call = "answered" => /\ floor \subseteq reply /\ reply \subseteq stored
                          /\ \A r \in reply : callAt - Lookback <= stamp[r]

(* As of the call of the last answer, the counts cover all that may come    *)
(* again.                                                                   *)
Covered(t) ==
  /\ t <= now /\ (call \in {"asked", "answered"} => t <= callAt)
  /\ \A x \in Texts : Count(x, Recent(t)) <= seen[x]

(* What is sent of a text: at most what was answered, and exactly that as   *)
(* long as none of it has left the window.                                  *)
SentInv ==
  \A x \in Texts : /\ sent[x] <= Count(x, answered)
                   /\ x \notin aged => sent[x] = Count(x, answered) /\ seen[x] = Count(x, answered)

DataInv == DataShape /\ AskedAgain /\ (\E t \in Int : Covered(t)) /\ SentInv

(* Counting, for subsets of the records.                                    *)
LEMMA CountFacts ==
  ASSUME NEW x, NEW S \in SUBSET Records, NEW T \in SUBSET Records
  PROVE  /\ Count(x, S) \in Nat
         /\ S \subseteq T => Count(x, S) <= Count(x, T)
         /\ Count(x, S \cup T) = Count(x, S) + Count(x, T) - Count(x, S \cap T)
<1>1. /\ Of(x, S) \in SUBSET Records /\ Of(x, T) \in SUBSET Records
      /\ Of(x, S) \cup Of(x, T) = Of(x, S \cup T) /\ Of(x, S) \cap Of(x, T) = Of(x, S \cap T)
  BY DEF Of
<1>2. \A U : Count(x, U) = Cardinality(Of(x, U))
  BY DEF Count, Of
<1>3. /\ IsFiniteSet(Of(x, S)) /\ IsFiniteSet(Of(x, T))
      /\ IsFiniteSet(Of(x, S) \cap Of(x, T))
  BY <1>1, FS_Subset, FS_Intersection, LiveTailAssumption
<1>4. /\ Count(x, S) \in Nat /\ Count(x, T) \in Nat /\ Count(x, S \cap T) \in Nat
  BY <1>1, <1>2, <1>3, FS_CardinalityType
<1>5. S \subseteq T => Count(x, S) <= Count(x, T)
  <2>1. S \subseteq T => Of(x, S) \subseteq Of(x, T)
    BY DEF Of
  <2> QED BY <1>2, <1>3, <2>1, FS_Subset
<1>6. Count(x, S \cup T) = Count(x, S) + Count(x, T) - Count(x, S \cap T)
  <2>1. Cardinality(Of(x, S) \cup Of(x, T))
          = Cardinality(Of(x, S)) + Cardinality(Of(x, T)) - Cardinality(Of(x, S) \cap Of(x, T))
    BY <1>3, FS_Union
  <2> QED BY <1>1, <1>2, <2>1
<1> QED BY <1>4, <1>5, <1>6

LEMMA DataInit == Init => DataInv
<1> SUFFICES ASSUME Init PROVE DataInv
  OBVIOUS
<1> USE LiveTailAssumption DEF Init
<1>1. DataShape /\ AskedAgain
  BY DEF DataShape, AskedAgain, Recent
<1>2. \A x : Count(x, {}) = 0
  BY FS_EmptySet DEF Count
<1>3. Recent(0) = {}
  BY DEF Recent
<1>4. Covered(0) /\ SentInv
  BY <1>2, <1>3 DEF Covered, SentInv
<1> QED BY <1>1, <1>4 DEF DataInv

(* Steps by which no call is made or answered: time passes, records arrive  *)
(* and are stored, calls fail or are cancelled.                             *)
LEMMA DataFrame ==
  ASSUME DataInv, DataShape', UNCHANGED <<seen, sent, answered, aged>>, now <= now',
         \A r \in answered : stamp'[r] = stamp[r],
         call' \in {"asked", "answered"} => call' = call /\ UNCHANGED <<callAt, floor, reply>>,
         stored \subseteq stored', \A r \in stored : stamp'[r] = stamp[r]
  PROVE  DataInv'
<1>1. \A t : Recent(t)' = Recent(t)
  BY DEF Recent
<1>2. AskedAgain'
  BY <1>1 DEF DataInv, AskedAgain
<1>3. PICK t \in Int : Covered(t)
  BY DEF DataInv
<1>4. Covered(t)'
  BY <1>1, <1>3 DEF Covered, DataInv, DataShape
<1>5. SentInv'
  BY DEF DataInv, SentInv
<1> QED BY <1>2, <1>4, <1>5 DEF DataInv

(* A call asks for all that an earlier answer had and the window still has. *)
LEMMA DataPoll ==
  ASSUME DataInv, Poll
  PROVE  DataInv'
<1> USE DEF DataInv, Poll, engineVars, historyVars
<1>1. DataShape'
  BY DEF DataShape
<1>2. AskedAgain'
  BY DEF AskedAgain, DataShape, Recent, InWindow
<1>3. PICK t \in Int : Covered(t)
  OBVIOUS
<1>4. Covered(t)' /\ SentInv'
  BY <1>3 DEF Covered, Recent, DataShape, SentInv, Count
<1> QED BY <1>1, <1>2, <1>4

(* An answer that the limit does not cut has all that was asked for.        *)
LEMMA DataAnswer ==
  ASSUME DataInv, Limit >= Cardinality(Records), Answer
  PROVE  DataInv'
<1> USE DEF DataInv, Answer, engineVars, historyVars
<1>1. PICK S \in SUBSET {r \in stored : InWindow(r, callAt)} :
        /\ floor \subseteq S \/ Cardinality(S) = Limit
        /\ reply' = S
  OBVIOUS
<1>2. S \in SUBSET Records
  BY <1>1 DEF DataShape
<1>3. floor \subseteq S
  <2>1. CASE Cardinality(S) = Limit
    <3>1. /\ Cardinality(S) <= Cardinality(Records)
          /\ Cardinality(S) \in Nat /\ Cardinality(Records) \in Nat
          /\ Cardinality(S) = Cardinality(Records) => S = Records
      BY <1>2, FS_Subset, FS_CardinalityType, LiveTailAssumption
    <3> QED BY <2>1, <3>1, LiveTailAssumption DEF DataShape
  <2> QED BY <1>1, <2>1
<1>4. DataShape'
  BY <1>1, <1>2 DEF DataShape
<1>5. AskedAgain'
  BY <1>1, <1>3 DEF AskedAgain, Recent, InWindow
<1>6. PICK t \in Int : Covered(t)
  OBVIOUS
<1>7. Covered(t)' /\ SentInv'
  BY <1>6 DEF Covered, Recent, SentInv, Count
<1> QED BY <1>4, <1>5, <1>7

(* The heart of the argument: of what was answered before, this answer has  *)
(* at most what the counts cover; so what is sent was never answered.       *)
LEMMA DataLogs ==
  ASSUME DataInv, CallbackLogs
  PROVE  DataInv'
<1> USE DEF DataInv
<1>1. PICK t \in Int : Covered(t)
  OBVIOUS
<1>2. /\ call = "answered" /\ call' = "none" /\ UNCHANGED engineVars
      /\ answered' = answered \cup reply
      /\ callAt' = 0 /\ floor' = {} /\ reply' = {}
      /\ aged' = aged \cup {TextOf[r] : r \in answered \ reply}
      /\ seen' = Recount(reply)
      /\ sent' = [x \in Texts |-> sent[x] + Unseen(x, reply)]
  BY DEF CallbackLogs, Hangup
<1>3. /\ answered \in SUBSET Records /\ reply \in SUBSET Records /\ answered \cap reply \in SUBSET Records
      /\ Recent(t) \in SUBSET Records
      /\ reply \subseteq stored /\ Recent(callAt) \subseteq reply
      /\ \A r \in reply : callAt - Lookback <= stamp[r] /\ stamp[r] \in Nat
      /\ t <= callAt /\ callAt \in Nat
  BY <1>1, <1>2 DEF DataShape, AskedAgain, Covered, Recent
<1>4. answered \cap reply \subseteq Recent(t)
  BY <1>3, LiveTailAssumption DEF Recent
<1>5. ASSUME NEW x \in Texts
      PROVE  /\ Count(x, answered) \in Nat /\ Count(x, reply) \in Nat /\ seen[x] \in Nat /\ sent[x] \in Nat
             /\ Count(x, answered \cap reply) \in Nat /\ Count(x, answered \cap reply) <= seen[x]
             /\ Count(x, answered \cap reply) <= Count(x, reply)
             /\ Count(x, answered') = Count(x, answered) + Count(x, reply) - Count(x, answered \cap reply)
             /\ sent[x] <= Count(x, answered)
             /\ seen'[x] = IF Count(x, reply) = 0 THEN seen[x] ELSE Count(x, reply)
             /\ sent'[x] = sent[x] + (IF Count(x, reply) > seen[x] THEN Count(x, reply) - seen[x] ELSE 0)
  <2>1. \A S \in SUBSET Records : Count(x, S) \in Nat
    BY CountFacts
  <2>2. /\ Count(x, answered) \in Nat /\ Count(x, reply) \in Nat /\ Count(x, answered \cap reply) \in Nat
        /\ Count(x, Recent(t)) \in Nat
    BY <1>3, <2>1
  <2>3. Count(x, answered \cap reply) <= Count(x, reply)
    BY <1>3, CountFacts
  <2>4. Count(x, answered \cup reply) = Count(x, answered) + Count(x, reply) - Count(x, answered \cap reply)
    BY <1>3, CountFacts
  <2>5. Count(x, answered \cap reply) <= Count(x, Recent(t))
    BY <1>3, <1>4, CountFacts
  <2>6. Count(x, Recent(t)) <= seen[x] /\ seen[x] \in Nat /\ sent[x] \in Nat
    BY <1>1 DEF Covered, DataShape
  <2>7. Count(x, answered \cap reply) <= seen[x]
    BY <2>2, <2>5, <2>6
  <2> QED BY <1>2, <2>2, <2>3, <2>6, <2>7, <2>4 DEF SentInv, Recount, Unseen
<1>6. DataShape'
  <2>1. /\ seen' \in [Texts -> Nat] /\ sent' \in [Texts -> Nat]
    BY <1>2, <1>5 DEF Recount, Unseen
  <2> QED BY <1>2, <1>3, <2>1 DEF DataShape, engineVars
<1>7. AskedAgain'
  BY <1>2 DEF AskedAgain
<1>8. \E u \in Int : Covered(u)'
  <2>1. PICK u \in Nat : u = callAt
    BY <1>3
  <2>2. Recent(u)' = reply
    BY <1>2, <1>3, <2>1 DEF Recent, engineVars
  <2>3. \A x \in Texts : Count(x, Recent(u)') <= seen'[x]
    BY <1>5, <2>2
  <2>4. u <= now'
    BY <1>2, <2>1 DEF DataShape, engineVars
  <2>5. Covered(u)'
    BY <1>2, <2>3, <2>4 DEF Covered, Count
  <2> QED BY <2>5
<1>9. SentInv'
  <2> SUFFICES ASSUME NEW x \in Texts
               PROVE  /\ sent'[x] <= Count(x, answered')
                      /\ x \notin aged' => sent'[x] = Count(x, answered') /\ seen'[x] = Count(x, answered')
    BY DEF SentInv, Count
  <2>1. sent'[x] <= Count(x, answered')
    BY <1>5
  <2>2. ASSUME x \notin aged'
        PROVE  sent'[x] = Count(x, answered') /\ seen'[x] = Count(x, answered')
    <3>1. {r \in answered \cap reply : TextOf[r] = x} = {r \in answered : TextOf[r] = x}
      BY <1>2, <2>2
    <3>2. Count(x, answered \cap reply) = Count(x, answered)
      BY <3>1 DEF Count
    <3>3. sent[x] = Count(x, answered) /\ seen[x] = Count(x, answered)
      BY <1>2, <2>2 DEF SentInv
    <3> QED BY <1>5, <3>2, <3>3
  <2> QED BY <2>1, <2>2
<1> QED BY <1>6, <1>7, <1>8, <1>9

LEMMA DataStep ==
  ASSUME DataInv, Limit >= Cardinality(Records), [Next]_vars
  PROVE  DataInv'
<1> USE DEF DataInv
<1>1. CASE TimePasses
  <2>1. DataShape'
    BY <1>1, LiveTailAssumption DEF TimePasses, DataShape, callVars, historyVars
  <2> QED BY <1>1, <2>1, DataFrame DEF TimePasses, DataShape, callVars, historyVars
<1>2. CASE Store
  <2>1. DataShape'
    BY <1>2 DEF Store, DataShape, callVars, historyVars
  <2> QED BY <1>2, <2>1, DataFrame DEF Store, DataShape, callVars, historyVars
<1>3. ASSUME NEW r \in Records, Arrive(r)
      PROVE  DataInv'
  <2>1. \A q \in stored : stamp'[q] = stamp[q]
    BY <1>3 DEF Arrive, DataShape
  <2>2. DataShape'
    BY <1>3 DEF Arrive, DataShape, callVars, historyVars
  <2> QED BY <1>3, <2>1, <2>2, DataFrame DEF Arrive, DataShape, callVars, historyVars
<1>4. CASE WsClosing \/ Fail \/ WsClosed \/ PollStops \/ CallbackStopped \/ CallbackError \/ UNCHANGED vars
  <2>1. /\ UNCHANGED <<engineVars, seen, historyVars>>
        /\ \/ UNCHANGED <<call, callAt, floor, reply>>
           \/ /\ call' \in {"none", "failed", "cancelled"}
              /\ \/ UNCHANGED <<callAt, floor, reply>>
                 \/ callAt' = 0 /\ floor' = {} /\ reply' = {}
    <3>1. CASE WsClosing \/ UNCHANGED vars
      BY <3>1 DEF WsClosing, vars, callVars
    <3>2. CASE Fail \/ CallbackStopped
      BY <3>2 DEF Fail, CallbackStopped
    <3>3. CASE CallbackError \/ PollStops
      BY <3>3 DEF CallbackError, PollStops, Stop, Hangup
    <3>4. CASE WsClosed
      BY <3>4 DEF WsClosed, Stop, Hangup, callVars
    <3> QED BY <1>4, <3>1, <3>3, <3>4, <3>2
  <2>2. DataShape'
    BY <2>1 DEF DataShape, engineVars, historyVars
  <2> QED BY <2>1, <2>2, DataFrame DEF DataShape, engineVars, historyVars
<1>5. CASE Poll
  BY <1>5, DataPoll
<1>6. CASE Answer
  BY <1>6, DataAnswer
<1>7. CASE CallbackLogs
  BY <1>7, DataLogs
<1> QED BY <1>1, <1>2, <1>3, <1>4, <1>5, <1>6, <1>7 DEF Next, Callback

(* Nothing is sent twice, and nothing is missed of a text that has not left *)
(* the window (liveTail.js:36-48), however long the engine takes and        *)
(* whatever it leaves out of what it is just storing.                       *)
THEOREM SentExactlyCorrect == Spec => []SentExactly
<1>1. CASE Limit >= Cardinality(Records)
  <2>1. DataInv /\ [Next]_vars => DataInv'
    BY <1>1, DataStep
  <2>2. DataInv => SentExactly
    BY DEF DataInv, SentInv, SentExactly
  <2> QED BY DataInit, <2>1, <2>2, PTL DEF Spec
<1>2. CASE ~(Limit >= Cardinality(Records))
  <2>1. SentExactly
    BY <1>2 DEF SentExactly
  <2> QED BY <2>1, PTL
<1> QED BY <1>1, <1>2

=============================================================================
