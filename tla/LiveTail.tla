------------------------------ MODULE LiveTail ------------------------------
(***************************************************************************)
(* The live tail of the Node server (server/src/services/liveTail.js) for   *)
(* one WebSocket: it polls the engine's Query RPC for the last five minutes *)
(* and sends what it believes the browser has not seen yet.                 *)
(*                                                                          *)
(* The engine fills in nothing but the message of an entry, so two records  *)
(* with the same text are the same entry to the tail, and it tells new ones *)
(* from old ones by counting: seen[x] is how many entries with text x the   *)
(* last answer with such an entry held.                                     *)
(*                                                                          *)
(* The engine is seen through the promise of LogService.tla: an answer has  *)
(* every matching record stored before the search and may have some of      *)
(* those stored while it ran, unless the limit cuts it.  A record gets its  *)
(* timestamp (Arrive) before it is stored (Store).                          *)
(***************************************************************************)
EXTENDS Integers, FiniteSets

CONSTANTS
  Records,   \* log records that match the tail's term
  Texts,     \* messages
  TextOf,    \* TextOf[r]: the message of r
  Lookback,  \* LOOKBACK_MS, in ticks of the model's clock
  Limit,     \* LIMIT, the most records an answer holds
  MaxTime,   \* bound on the clock
  NoTime     \* the record has not arrived

ASSUME LiveTailAssumption ==
  /\ IsFiniteSet(Records)
  /\ TextOf \in [Records -> Texts]
  /\ Lookback \in Nat
  /\ Limit \in Nat \ {0}
  /\ MaxTime \in Nat
  /\ NoTime \notin 0 .. MaxTime

VARIABLES
  now,       \* the clock of both processes
  stamp,     \* record -> its timestamp
  stored,    \* records a search can find
  ws,        \* the socket: "open", "closing" or "closed"
  stopped,   \* stop() has run
  timer,     \* setTimeout(poll) is armed
  call,      \* activeCall: "none", "asked", "answered", "failed" or "cancelled"
  callAt,    \* Date.now() of the call
  floor,     \* the records the answer may not miss
  reply,     \* the records in the answer
  seen,      \* text -> count
  sent,      \* history: text -> entries sent to the browser
  answered,  \* history: records that were in an answer the tail processed
  aged       \* history: texts of records that were answered and left the window

engineVars == <<now, stamp, stored>>
callVars == <<call, callAt, floor, reply>>
historyVars == <<sent, answered, aged>>

vars == <<engineVars, ws, stopped, timer, callVars, seen, historyVars>>

InWindow(r, t) == stamp[r] # NoTime /\ t - Lookback <= stamp[r] /\ stamp[r] <= t

Count(x, S) == Cardinality({r \in S : TextOf[r] = x})

----------------------------------------------------------------------------

(* createLiveTail: the first poll follows at once, as if by an armed timer. *)
Init ==
  /\ now = 0
  /\ stamp = [r \in Records |-> NoTime]
  /\ stored = {}
  /\ ws = "open"
  /\ stopped = FALSE
  /\ timer = TRUE
  /\ call = "none"
  /\ callAt = 0
  /\ floor = {}
  /\ reply = {}
  /\ seen = [x \in Texts |-> 0]
  /\ sent = [x \in Texts |-> 0]
  /\ answered = {}
  /\ aged = {}

(*************************** environment ***********************************)

TimePasses ==
  /\ now < MaxTime
  /\ now' = now + 1
  /\ UNCHANGED <<stamp, stored, ws, stopped, timer, callVars, seen, historyVars>>

Arrive(r) ==
  /\ stamp[r] = NoTime
  /\ stamp' = [stamp EXCEPT ![r] = now]
  /\ UNCHANGED <<now, stored, ws, stopped, timer, callVars, seen, historyVars>>

(* A flush of the engine's batch: everything that has arrived so far.       *)
Store ==
  /\ stored' = {r \in Records : stamp[r] # NoTime}
  /\ UNCHANGED <<now, stamp, ws, stopped, timer, callVars, seen, historyVars>>

(* The closing handshake begins; the close event is still to come.          *)
WsClosing ==
  /\ ws = "open"
  /\ ws' = "closing"
  /\ UNCHANGED <<engineVars, stopped, timer, callVars, seen, historyVars>>

(* The engine answers.                                                      *)
Answer ==
  /\ call = "asked"
  /\ \E S \in SUBSET {r \in stored : InWindow(r, callAt)} :
       /\ Cardinality(S) <= Limit
       /\ floor \subseteq S \/ Cardinality(S) = Limit
       /\ reply' = S
  /\ call' = "answered"
  /\ UNCHANGED <<engineVars, ws, stopped, timer, callAt, floor, seen, historyVars>>

(* The RPC fails, or the response carries an error.                         *)
Fail ==
  /\ call = "asked"
  /\ call' = "failed"
  /\ UNCHANGED <<engineVars, ws, stopped, timer, callAt, floor, reply, seen, historyVars>>

(*************************** the tail **************************************)

(* The call's data is of no more use.                                       *)
Hangup == callAt' = 0 /\ floor' = {} /\ reply' = {}

(* stop: disarm the timer and cancel the call, whose callback still comes.  *)
Stop ==
  /\ stopped' = TRUE
  /\ timer' = FALSE
  /\ call' = IF call = "none" THEN "none" ELSE "cancelled"
  /\ Hangup

(* The close or error event of the socket.                                  *)
WsClosed ==
  /\ ws # "closed"
  /\ ws' = "closed"
  /\ IF stopped THEN UNCHANGED <<stopped, timer, callVars>> ELSE Stop
  /\ UNCHANGED <<engineVars, seen, historyVars>>

(* poll on a socket that is no longer open.                                 *)
PollStops ==
  /\ timer
  /\ ws # "open"
  /\ Stop
  /\ UNCHANGED <<engineVars, ws, seen, historyVars>>

(* Mutated form: setInterval in place of setTimeout.                        *)
PollInterval ==
  /\ timer
  /\ ws = "open"
  /\ call' = "asked"
  /\ callAt' = now
  /\ floor' = {r \in stored : InWindow(r, now)}
  /\ UNCHANGED <<engineVars, ws, stopped, timer, reply, seen, historyVars>>

(* poll: ask for the window that ends now.                                  *)
Poll ==
  /\ timer
  /\ ws = "open"
  /\ timer' = FALSE
  /\ call' = "asked"
  /\ callAt' = now
  /\ floor' = {r \in stored : InWindow(r, now)}
  /\ UNCHANGED <<engineVars, ws, stopped, reply, seen, historyVars>>

(* Mutated form: the counts of an answer replaced by a mere "seen" mark.    *)
RecountMarks(S) == [x \in Texts |-> IF Count(x, S) = 0 THEN seen[x] ELSE 1]

(* The counts after an answer.  A text the answer does not have keeps its   *)
(* count.                                                                   *)
Recount(S) == [x \in Texts |-> IF Count(x, S) = 0 THEN seen[x] ELSE Count(x, S)]

(* Entries beyond the count seen are sent.                                  *)
Unseen(x, S) == IF Count(x, S) > seen[x] THEN Count(x, S) - seen[x] ELSE 0

(* Mutated form: the callback does not ask whether the tail was stopped.    *)
CallbackIgnoresStop ==
  /\ call = "cancelled"
  /\ call' = "none"
  /\ timer' = TRUE
  /\ UNCHANGED <<engineVars, ws, stopped, callAt, floor, reply, seen, historyVars>>

(* The callback of a call that was cancelled: nothing but forgetting it.    *)
CallbackStopped ==
  /\ call = "cancelled"
  /\ call' = "none"
  /\ UNCHANGED <<engineVars, ws, stopped, timer, callAt, floor, reply, seen, historyVars>>

(* Mutated form: an error ends the polling.                                 *)
CallbackErrorReturns ==
  /\ call = "failed"
  /\ call' = "none"
  /\ Hangup
  /\ UNCHANGED <<engineVars, ws, stopped, timer, seen, historyVars>>

(* The callback with an error: report it and poll again later.              *)
CallbackError ==
  /\ call = "failed"
  /\ call' = "none"
  /\ timer' = TRUE
  /\ Hangup
  /\ UNCHANGED <<engineVars, ws, stopped, seen, historyVars>>

(* The callback with an answer: send the new entries, count, poll again.    *)
CallbackLogs ==
  /\ call = "answered"
  /\ call' = "none"
  /\ timer' = TRUE
  /\ sent' = [x \in Texts |-> sent[x] + Unseen(x, reply)]
  /\ seen' = Recount(reply)
  /\ answered' = answered \cup reply
  /\ aged' = aged \cup {TextOf[r] : r \in answered \ reply}
  /\ Hangup
  /\ UNCHANGED <<engineVars, ws, stopped>>

Callback == CallbackStopped \/ CallbackError \/ CallbackLogs

Next ==
  \/ TimePasses \/ Store \/ WsClosing \/ Answer \/ Fail
  \/ \E r \in Records : Arrive(r)
  \/ WsClosed \/ PollStops \/ Poll \/ Callback

(* The timer fires, callbacks run, and the engine answers or fails: the     *)
(* code sets no deadline on the call, so the last is the engine's promise.  *)
Spec ==
  /\ Init /\ [][Next]_vars
  /\ WF_vars(Poll \/ PollStops)
  /\ WF_vars(Callback)
  /\ WF_vars(Answer \/ Fail)
  /\ WF_vars(Store)

----------------------------------------------------------------------------
(* Properties *)

(* The data apart, the tail is a loop as TailLoop has it.                   *)
Loop == INSTANCE TailLoop WITH
  call <- IF call \in {"asked", "answered", "failed"} THEN "out" ELSE call

ImplementsTailLoop == Loop!Spec

(* One poll at a time: as long as the tail is not stopped, either the timer *)
(* is armed or one call is out, never both and never neither; afterwards    *)
(* neither, but for the callback of the call that was cancelled.            *)
SingleFlight ==
  IF stopped THEN ~timer /\ call \in {"none", "cancelled"}
             ELSE timer <=> call = "none"

(* A stopped tail sends nothing more and arms no timer, although callbacks  *)
(* of a cancelled call still come.                                          *)
QuietAfterStop == [][stopped => UNCHANGED <<sent, seen, timer, stopped>>]_vars

(* No record is sent twice, and as long as no record of its text has left   *)
(* the window none is missed: what has been sent of a text is what the      *)
(* answers have held of it, although entries with the same text cannot be   *)
(* told apart and an answer may miss records that are just being stored.    *)
(* Stated for answers the limit did not cut.                                *)
SentExactly ==
  Limit >= Cardinality(Records) =>
    \A x \in Texts : /\ sent[x] <= Count(x, answered)
                     /\ x \notin aged => sent[x] = Count(x, answered)

(* README.md:263: ingest another matching log and the new message should    *)
(* appear.  The code compares with a count that is not lowered when a text  *)
(* leaves the window altogether, nor when one record leaves as another of   *)
(* the same text comes, so the new record is not sent.                      *)
NewRecordsAppear == \A x \in Texts : sent[x] = Count(x, answered)

=============================================================================
