---------------------------- MODULE QueryEngine ----------------------------
(***************************************************************************)
(* The read side of the Chronolog engine: QueryEngine.SearchTerm            *)
(* (engine/internal/search/query.go) as the gRPC server runs it, one        *)
(* goroutine per RPC, next to the flush loop of FlushLoop.tla.              *)
(*                                                                          *)
(* A search takes no lock that spans its steps.  It copies the matching     *)
(* postings under the memory index's read lock, looks each one up in        *)
(* LevelDB, then opens an iterator (a snapshot of the index keys) and looks *)
(* up what the iterator yields.  The flush loop may write between any two   *)
(* of these steps, so every step is an action of its own.                   *)
(***************************************************************************)
EXTENDS FlushLoop

CONSTANTS
  Queries,       \* SearchTerm calls that may be in flight together
  Limits,        \* limits a request may carry
  DefaultLimit,  \* the limit used when the request's is not positive (50)
  NoRequest      \* the call slot is free

Requests == [term : Terms, start : Stamps, end : Stamps, limit : Nat \ {0}]

ASSUME QueryEngineAssumption ==
  /\ Limits \subseteq Int
  /\ DefaultLimit \in Nat \ {0}

VARIABLES
  pc,       \* "idle", "hot" (memory tier), "scan" (LevelDB tier), "done"
  req,      \* the request, with the limit SearchTerm settled on
  hits,     \* hot tier: positions in the posting list still to look up
  iter,     \* scan tier: record IDs the iterator has still to yield
  seen,     \* record IDs fetchLog was called with
  results,  \* the answer so far: record ID and line, in order
  must      \* history: matching records stored when the search began

queryVars == <<pc, req, hits, iter, seen, results, must>>

vars == <<loopVars, queryVars>>

Result == [id : RecordID, log : Logs]

ResultIDs(q) == {results[q][i].id : i \in 1 .. Len(results[q])}

InWindow(r, id) == r.start <= id.ts /\ id.ts <= r.end

(* The order of index keys under one term prefix: big-endian timestamp,     *)
(* then stream ID.                                                          *)
KeyLeq(a, b) == a.ts < b.ts \/ (a.ts = b.ts /\ a.streamID <= b.streamID)

(* The search stopped because the limit was reached.                        *)
Full(q) == Len(results[q]) >= req[q].limit

----------------------------------------------------------------------------

QueryInit ==
  /\ pc = [q \in Queries |-> "idle"]
  /\ req = [q \in Queries |-> NoRequest]
  /\ hits = [q \in Queries |-> {}]
  /\ iter = [q \in Queries |-> {}]
  /\ seen = [q \in Queries |-> {}]
  /\ results = [q \in Queries |-> <<>>]
  /\ must = [q \in Queries |-> {}]

Init == LoopInit /\ QueryInit

(* Mutated form: the request's limit is taken as it is.                     *)
LimitAsGiven(lim) == lim

(* A limit that is not positive stands for the default.                     *)
EffectiveLimit(lim) == IF lim <= 0 THEN DefaultLimit ELSE lim

(* Mutated form: the whole posting list of the term.                        *)
MemoryMatchesAll(r) == 1 .. Len(postings[r.term])

(* MemoryIndex.Query: the positions of the postings in the window.          *)
MemoryMatches(r) == {i \in 1 .. Len(postings[r.term]) : InWindow(r, postings[r.term][i])}

(* The records with an index key for the term, that is with its prefix.     *)
Indexed(t) == {id \in RecordID : <<t, id>> \in index}

(* SearchTerm up to MemoryIndex.Query, which runs under the read lock and   *)
(* returns a copy of the matching postings, oldest arrival first.  Nothing  *)
(* the rest of the engine can see happens before the lock is taken.         *)
Begin(q, t, s, e, lim) ==
  LET r == [term |-> t, start |-> s, end |-> e, limit |-> EffectiveLimit(lim)]
  IN /\ pc[q] = "idle"
     /\ pc' = [pc EXCEPT ![q] = "hot"]
     /\ req' = [req EXCEPT ![q] = r]
     /\ hits' = [hits EXCEPT ![q] = MemoryMatches(r)]
     /\ must' = [must EXCEPT ![q] = {id \in Indexed(t) : InWindow(r, id)}]
     /\ UNCHANGED <<loopVars, iter, seen, results>>

(* Mutated form: records of the memory tier are not remembered.             *)
FetchesAgain(q, id) == raw[id] # NoLog

(* fetchLog's test: the record was not tried before and LevelDB has it.     *)
Fetches(q, id) == id \notin seen[q] /\ raw[id] # NoLog

(* fetchLog: a record is marked as seen before it is looked up, and stays   *)
(* marked when the lookup fails.                                            *)
FetchLog(q, id) ==
  /\ seen' = [seen EXCEPT ![q] = @ \cup {id}]
  /\ results' = IF Fetches(q, id)
                THEN [results EXCEPT ![q] = Append(@, [id |-> id, log |-> raw[id]])]
                ELSE results

(* Mutated form: off by one at the limit.                                   *)
AfterFetchOneMore(q, id) ==
  pc' = IF Fetches(q, id) /\ Len(results[q]) + 1 > req[q].limit
        THEN [pc EXCEPT ![q] = "done"]
        ELSE pc

(* The search returns when a successful fetch reaches the limit.            *)
AfterFetch(q, id) ==
  pc' = IF Fetches(q, id) /\ Len(results[q]) + 1 >= req[q].limit
        THEN [pc EXCEPT ![q] = "done"]
        ELSE pc

(* Mutated form: a match that LevelDB does not have yet is tried again.     *)
FetchHitRetries(q) ==
  /\ pc[q] = "hot"
  /\ \E i \in hits[q] :
       /\ \A j \in hits[q] : i <= j
       /\ hits' = IF raw[postings[req[q].term][i]] = NoLog
                  THEN hits
                  ELSE [hits EXCEPT ![q] = @ \ {i}]
       /\ FetchLog(q, postings[req[q].term][i])
       /\ AfterFetch(q, postings[req[q].term][i])
  /\ UNCHANGED <<loopVars, req, iter, must>>

(* One turn of the loop over the memory matches.                            *)
FetchHit(q) ==
  /\ pc[q] = "hot"
  /\ \E i \in hits[q] :
       /\ \A j \in hits[q] : i <= j
       /\ hits' = [hits EXCEPT ![q] = @ \ {i}]
       /\ FetchLog(q, postings[req[q].term][i])
       /\ AfterFetch(q, postings[req[q].term][i])
  /\ UNCHANGED <<loopVars, req, iter, must>>

(* db.NewIterator over the term's prefix.                                   *)
OpenIterator(q) ==
  /\ pc[q] = "hot"
  /\ hits[q] = {}
  /\ pc' = [pc EXCEPT ![q] = "scan"]
  /\ iter' = [iter EXCEPT ![q] = Indexed(req[q].term)]
  /\ UNCHANGED <<loopVars, req, hits, seen, results, must>>

(* One turn of the iterator loop on the next key, id.                       *)
SkipEarly(q, id) ==
  /\ id.ts < req[q].start
  /\ UNCHANGED <<pc, seen, results>>

(* Mutated form: the scan stops at the end of the window, not behind it.    *)
StopLateAtEnd(q, id) ==
  /\ id.ts >= req[q].end
  /\ pc' = [pc EXCEPT ![q] = "done"]
  /\ UNCHANGED <<seen, results>>

StopLate(q, id) ==
  /\ id.ts >= req[q].start
  /\ id.ts > req[q].end
  /\ pc' = [pc EXCEPT ![q] = "done"]
  /\ UNCHANGED <<seen, results>>

FetchKey(q, id) ==
  /\ InWindow(req[q], id)
  /\ FetchLog(q, id)
  /\ AfterFetch(q, id)

ScanNext(q) ==
  /\ pc[q] = "scan"
  /\ \E id \in iter[q] :
       /\ \A k \in iter[q] : KeyLeq(id, k)
       /\ iter' = [iter EXCEPT ![q] = @ \ {id}]
       /\ SkipEarly(q, id) \/ StopLate(q, id) \/ FetchKey(q, id)
  /\ UNCHANGED <<loopVars, req, hits, must>>

(* iter.Next() returns false.                                               *)
ScanEnd(q) ==
  /\ pc[q] = "scan"
  /\ iter[q] = {}
  /\ pc' = [pc EXCEPT ![q] = "done"]
  /\ UNCHANGED <<loopVars, req, hits, iter, seen, results, must>>

(* The call's state once the RPC is over.                                   *)
Forget(q) ==
  /\ pc' = [pc EXCEPT ![q] = "idle"]
  /\ req' = [req EXCEPT ![q] = NoRequest]
  /\ hits' = [hits EXCEPT ![q] = {}]
  /\ iter' = [iter EXCEPT ![q] = {}]
  /\ seen' = [seen EXCEPT ![q] = {}]
  /\ results' = [results EXCEPT ![q] = <<>>]
  /\ must' = [must EXCEPT ![q] = {}]

(* Query and StreamQuery hand the finished result slice to the client.      *)
Respond(q) ==
  /\ pc[q] = "done"
  /\ Forget(q)
  /\ UNCHANGED loopVars

(* The process dies: every search in flight dies with it.                   *)
EngineCrash ==
  /\ Crash
  /\ pc' = [q \in Queries |-> "idle"]
  /\ req' = [q \in Queries |-> NoRequest]
  /\ hits' = [q \in Queries |-> {}]
  /\ iter' = [q \in Queries |-> {}]
  /\ seen' = [q \in Queries |-> {}]
  /\ results' = [q \in Queries |-> <<>>]
  /\ must' = [q \in Queries |-> {}]

SearchStep(q) == FetchHit(q) \/ OpenIterator(q) \/ ScanNext(q) \/ ScanEnd(q)

Next ==
  \/ LoopStep /\ UNCHANGED queryVars
  \/ EngineCrash
  \/ \E q \in Queries, t \in Terms, s \in Stamps, e \in Stamps, lim \in Limits :
       Begin(q, t, s, e, lim)
  \/ \E q \in Queries : SearchStep(q) \/ Respond(q)

Spec == Init /\ [][Next]_vars /\ \A q \in Queries : WF_vars(SearchStep(q))

----------------------------------------------------------------------------
(* Properties *)

(* Shape of the searches' state.                                            *)
TypeOK ==
  /\ LoopTypeOK
  /\ pc \in [Queries -> {"idle", "hot", "scan", "done"}]
  /\ req \in [Queries -> Requests \cup {NoRequest}]
  /\ hits \in [Queries -> SUBSET (Nat \ {0})]
  /\ iter \in [Queries -> SUBSET RecordID]
  /\ seen \in [Queries -> SUBSET RecordID]
  /\ results \in [Queries -> Seq(Result)]
  /\ must \in [Queries -> SUBSET RecordID]

(* An answer has no record twice, although a record that is both hot and    *)
(* stored is found by both tiers, and it is never longer than the limit.    *)
AnswerDistinct ==
  \A q \in Queries :
    /\ \A i, j \in 1 .. Len(results[q]) : results[q][i].id = results[q][j].id => i = j
    /\ pc[q] # "idle" => Len(results[q]) <= req[q].limit

(* A search that was not cut short by its limit returns every matching      *)
(* record that was stored when it began, whatever the flush loop writes     *)
(* meanwhile and although a failed lookup marks a record as seen for good.  *)
AnswerComplete ==
  \A q \in Queries : pc[q] = "done" => Full(q) \/ must[q] \subseteq ResultIDs(q)

(* Every line in an answer contains the searched term and lies in the       *)
(* searched window.  True only while no two lines share a key.              *)
AnswerMatches ==
  \A q \in Queries : \A i \in 1 .. Len(results[q]) :
    /\ req[q].term \in TokensOf[results[q][i].log]
    /\ InWindow(req[q], results[q][i].id)

(* The searches implement LogService: the store is LevelDB's records, an    *)
(* open search is one between Begin and its last step, and its answer       *)
(* becomes visible when it is done.  Holds while keys are unique.           *)
Service ==
  INSTANCE LogService WITH
    store <- raw,
    status <- [q \in Queries |-> IF pc[q] \in {"hot", "scan"} THEN "open" ELSE pc[q]],
    ask <- req,
    floor <- must,
    answer <- [q \in Queries |-> IF pc[q] = "done" THEN ResultIDs(q) ELSE {}]

ImplementsLogService == Service!SvcSpec

(* README.md:270 says the memory index serves recently ingested terms       *)
(* without waiting for the store: after the memory tier, each record it     *)
(* matched is in the answer (unless the limit cut the loop short).  The     *)
(* code looks every match up in LevelDB, where it is missing until the next *)
(* flush.                                                                   *)
HotTierServes ==
  \A q \in Queries : pc[q] = "hot" => seen[q] \subseteq ResultIDs(q)

(* A search ends however much is ingested while it runs: its posting copy   *)
(* and its iterator are snapshots.                                          *)
SearchTerminates == \A q \in Queries : pc[q] = "hot" ~> pc[q] \in {"done", "idle"}

=============================================================================
