----------------------------- MODULE LogService ----------------------------
(***************************************************************************)
(* What the engine promises to the clients of its Query RPC, without the    *)
(* memory index, the batch or the steps of a search: a store that grows by  *)
(* atomic commits, and searches whose answer holds every matching record    *)
(* committed before the search began and nothing that is not committed when *)
(* the answer is complete.  Records committed in between may or may not be  *)
(* in the answer.  QueryEngine.tla implements this module.                  *)
(***************************************************************************)
EXTENDS Integers, FiniteSets

CONSTANTS Logs, Terms, TokensOf, Streams, Stamps, Queries, Limits, DefaultLimit, NoLog,
          NoRequest

RecordID == [streamID : Streams, ts : Stamps]

VARIABLES
  store,   \* record ID -> committed line
  status,  \* "idle", "open" or "done"
  ask,     \* the request
  floor,   \* the records the answer may not miss
  answer   \* the records in the answer

svcVars == <<store, status, ask, floor, answer>>

(* The committed records that match request r.                              *)
Matching(r) ==
  {id \in RecordID : /\ store[id] # NoLog
                     /\ r.term \in TokensOf[store[id]]
                     /\ r.start <= id.ts /\ id.ts <= r.end}

SvcInit ==
  /\ store = [id \in RecordID |-> NoLog]
  /\ status = [q \in Queries |-> "idle"]
  /\ ask = [q \in Queries |-> NoRequest]
  /\ floor = [q \in Queries |-> {}]
  /\ answer = [q \in Queries |-> {}]

(* A batch becomes visible at once; what is committed stays as it is.       *)
Commit ==
  /\ store' \in [RecordID -> Logs \cup {NoLog}]
  /\ \A id \in RecordID : store[id] # NoLog => store'[id] = store[id]
  /\ UNCHANGED <<status, ask, floor, answer>>

Ask(q, r) ==
  /\ status[q] = "idle"
  /\ status' = [status EXCEPT ![q] = "open"]
  /\ ask' = [ask EXCEPT ![q] = r]
  /\ floor' = [floor EXCEPT ![q] = Matching(r)]
  /\ UNCHANGED <<store, answer>>

(* Only a full answer may leave out a record of the floor.                  *)
Answer(q) ==
  /\ status[q] = "open"
  /\ \E S \in SUBSET Matching(ask[q]) :
       /\ Cardinality(S) <= ask[q].limit
       /\ floor[q] \subseteq S \/ Cardinality(S) = ask[q].limit
       /\ answer' = [answer EXCEPT ![q] = S]
  /\ status' = [status EXCEPT ![q] = "done"]
  /\ UNCHANGED <<store, ask, floor>>

(* The client takes the answer.                                             *)
Take(q) ==
  /\ status[q] = "done"
  /\ status' = [status EXCEPT ![q] = "idle"]
  /\ ask' = [ask EXCEPT ![q] = NoRequest]
  /\ floor' = [floor EXCEPT ![q] = {}]
  /\ answer' = [answer EXCEPT ![q] = {}]
  /\ UNCHANGED store

(* The service restarts: open searches are gone, the store is not.          *)
Restart ==
  /\ status' = [q \in Queries |-> "idle"]
  /\ ask' = [q \in Queries |-> NoRequest]
  /\ floor' = [q \in Queries |-> {}]
  /\ answer' = [q \in Queries |-> {}]
  /\ UNCHANGED store

EffectiveLimits == {IF n <= 0 THEN DefaultLimit ELSE n : n \in Limits}

SvcNext ==
  \/ Commit
  \/ Restart
  \/ \E q \in Queries : Answer(q) \/ Take(q)
  \/ \E q \in Queries, t \in Terms, s \in Stamps, e \in Stamps, n \in EffectiveLimits :
       Ask(q, [term |-> t, start |-> s, end |-> e, limit |-> n])

SvcSpec == SvcInit /\ [][SvcNext]_svcVars
=============================================================================
