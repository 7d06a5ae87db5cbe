------------------------- MODULE QueryEngineProofs -------------------------
(***************************************************************************)
(* What a search guarantees, for any number of searches in flight, next to  *)
(* a flush loop that writes, fails and dies as it likes.                    *)
(***************************************************************************)
EXTENDS QueryEngine, FlushLoopProofs

(* The variables of one search.                                             *)
searchState(q) == <<pc[q], req[q], hits[q], iter[q], seen[q], results[q], must[q]>>

(* What a search in flight relies on: the postings it copied are still      *)
(* there, its request is a request.                                         *)
Grounded(q) ==
  pc[q] # "idle" => /\ req[q] \in Requests
                    /\ hits[q] \subseteq 1 .. Len(postings[req[q].term])

(* The records the answer may not miss are on disk and match.               *)
MustStored(q) ==
  pc[q] # "idle" =>
    \A id \in must[q] : /\ raw[id] # NoLog
                        /\ <<req[q].term, id>> \in index
                        /\ InWindow(req[q], id)

(* Of those, whatever was looked up was found, and what was not looked up   *)
(* is still ahead of the iterator.                                          *)
MustAhead(q) ==
  /\ pc[q] # "idle" => seen[q] \cap must[q] \subseteq ResultIDs(q)
  /\ pc[q] = "scan" => must[q] \subseteq seen[q] \cup iter[q]
  /\ pc[q] = "done" => Full(q) \/ must[q] \subseteq ResultIDs(q)

(* The answer grows by records not seen before, and stops at the limit.     *)
Distinct(q) ==
  /\ \A i, j \in 1 .. Len(results[q]) : results[q][i].id = results[q][j].id => i = j
  /\ ResultIDs(q) \subseteq seen[q]
  /\ pc[q] \in {"hot", "scan"} => Len(results[q]) < req[q].limit
  /\ pc[q] = "done" => Len(results[q]) <= req[q].limit
  /\ pc[q] = "idle" => results[q] = << >> /\ seen[q] = {}

SearchInv(q) == Grounded(q) /\ MustStored(q) /\ MustAhead(q) /\ Distinct(q)

QueryInv == LoopInv /\ TypeOK /\ \A q \in Queries : SearchInv(q)

----------------------------------------------------------------------------
(* Initial states *)

LEMMA QueryInvInit == Init => QueryInv
<1> SUFFICES ASSUME Init
             PROVE  QueryInv
  OBVIOUS
<1>1. LoopInv /\ LoopTypeOK
  BY LoopInvInit DEF Init, LoopInv
<1>2. TypeOK
  BY <1>1 DEF Init, QueryInit, TypeOK
<1>3. ASSUME NEW q \in Queries
      PROVE  SearchInv(q)
  <2>1. pc[q] = "idle" /\ results[q] = << >> /\ seen[q] = {}
    BY DEF Init, QueryInit
  <2>2. ResultIDs(q) = {}
    BY <2>1 DEF ResultIDs
  <2> QED BY <2>1, <2>2 DEF SearchInv, Grounded, MustStored, MustAhead, Distinct
<1> QED BY <1>1, <1>2, <1>3 DEF QueryInv

----------------------------------------------------------------------------
(* Steps of the loop *)

(* What the loop does under a search: records and index keys only come, and *)
(* posting lists only get longer.                                           *)
LEMMA FlushGrows ==
  ASSUME LoopTypeOK, NEW b, NEW n, Flush(b, n)
  PROVE  /\ \A id \in RecordID : raw[id] # NoLog => raw'[id] # NoLog
         /\ index \subseteq index'
<1>1. \A id \in RecordID : raw[id] # NoLog => raw'[id] # NoLog
  BY FlushKeepsRecords
<1>2. index \subseteq index'
  BY DEF Flush, WriteBatch
<1> QED BY <1>1, <1>2

LEMMA LoopStepGrows ==
  ASSUME LoopTypeOK, LoopStep
  PROVE  /\ \A id \in RecordID : raw[id] # NoLog => raw'[id] # NoLog
         /\ index \subseteq index'
         /\ \A t \in Terms : Len(postings[t]) \in Nat /\ Len(postings'[t]) \in Nat
                             /\ Len(postings[t]) <= Len(postings'[t])
<1>t. \A t \in Terms : postings[t] \in Seq(RecordID)
  BY DEF LoopTypeOK
<1>1. CASE Tick
  <2>1. Flush(batch, batchSize) /\ postings' = postings
    BY <1>1 DEF Tick
  <2>2. \A t \in Terms : Len(postings[t]) \in Nat
    BY <1>t
  <2> QED BY <2>1, <2>2, FlushGrows
<1>2. ASSUME NEW l \in Logs, NEW id \in RecordID, Handle(l, id)
      PROVE  /\ \A i \in RecordID : raw[i] # NoLog => raw'[i] # NoLog
             /\ index \subseteq index'
             /\ \A t \in Terms : Len(postings[t]) \in Nat /\ Len(postings'[t]) \in Nat
                                 /\ Len(postings[t]) <= Len(postings'[t])
  <2>1. \A t \in Terms : postings'[t] = postings[t] \/ postings'[t] = Append(postings[t], id)
    BY <1>2 DEF Handle, Receive, Register
  <2>2. \A t \in Terms : Len(Append(postings[t], id)) = Len(postings[t]) + 1
                         /\ Len(postings[t]) \in Nat
    BY <1>t
  <2>3. \A t \in Terms : Len(postings[t]) \in Nat /\ Len(postings'[t]) \in Nat
                         /\ Len(postings[t]) <= Len(postings'[t])
    BY <2>1, <2>2
  <2>4. CASE UNCHANGED <<raw, index, lost>>
    BY <2>3, <2>4
  <2>5. CASE Flush(Puts(batch, l, id), batchSize + PutCount(l))
    BY <2>3, <2>5, FlushGrows
  <2> QED BY <1>2, <2>4, <2>5 DEF Handle, Receive
<1> QED BY <1>1, <1>2 DEF LoopStep

LEMMA LoopStepKeepsSearch ==
  ASSUME QueryInv, LoopStep, UNCHANGED queryVars
  PROVE  QueryInv'
<1>1. LoopInv'
  BY LoopInvNext DEF QueryInv, LoopNext
<1>2. TypeOK'
  BY <1>1 DEF QueryInv, TypeOK, LoopInv, queryVars
<1>3. ASSUME NEW q \in Queries
      PROVE  SearchInv(q)'
  <2>1. SearchInv(q)
    BY DEF QueryInv
  <2>2. /\ pc'[q] = pc[q] /\ req'[q] = req[q] /\ hits'[q] = hits[q] /\ iter'[q] = iter[q]
        /\ seen'[q] = seen[q] /\ results'[q] = results[q] /\ must'[q] = must[q]
    BY DEF queryVars
  <2>3. Grounded(q)'
    <3>1. SUFFICES ASSUME pc[q] # "idle"
                   PROVE  hits[q] \subseteq 1 .. Len(postings'[req[q].term])
      BY <2>1, <2>2 DEF SearchInv, Grounded
    <3>2. hits[q] \subseteq 1 .. Len(postings[req[q].term]) /\ req[q].term \in Terms
      BY <2>1, <3>1 DEF SearchInv, Grounded, Requests
    <3>3. /\ Len(postings[req[q].term]) \in Nat /\ Len(postings'[req[q].term]) \in Nat
          /\ Len(postings[req[q].term]) <= Len(postings'[req[q].term])
      BY <3>2, LoopStepGrows DEF QueryInv, LoopInv
    <3> QED BY <3>2, <3>3
  <2>4. MustStored(q)'
    <3>1. must[q] \subseteq RecordID
      BY DEF QueryInv, TypeOK
    <3> QED BY <2>1, <2>2, <3>1, LoopStepGrows DEF SearchInv, MustStored, QueryInv, LoopInv, InWindow
  <2>5. MustAhead(q)' /\ Distinct(q)'
    BY <2>1, <2>2 DEF SearchInv, MustAhead, Distinct, ResultIDs, Full
  <2> QED BY <2>3, <2>4, <2>5 DEF SearchInv
<1> QED BY <1>1, <1>2, <1>3 DEF QueryInv

LEMMA CrashKeepsInv ==
  ASSUME QueryInv, EngineCrash
  PROVE  QueryInv'
<1>1. LoopInv'
  BY LoopInvNext DEF QueryInv, LoopNext, EngineCrash
<1>2. TypeOK'
  BY <1>1 DEF EngineCrash, TypeOK, LoopInv
<1>3. ASSUME NEW q \in Queries
      PROVE  SearchInv(q)'
  <2>1. pc'[q] = "idle" /\ results'[q] = << >> /\ seen'[q] = {}
    BY DEF EngineCrash
  <2> QED BY <2>1 DEF SearchInv, Grounded, MustStored, MustAhead, Distinct, ResultIDs
<1> QED BY <1>1, <1>2, <1>3 DEF QueryInv

----------------------------------------------------------------------------
(* Steps of a search *)

(* Such a step concerns one search and leaves the loop alone.               *)
LEMMA OneSearch ==
  ASSUME QueryInv, UNCHANGED loopVars, TypeOK', NEW q \in Queries, SearchInv(q)',
         \A p \in Queries \ {q} : UNCHANGED searchState(p)
  PROVE  QueryInv'
<1>1. LoopInv'
  BY LoopInvNext DEF QueryInv
<1>2. ASSUME NEW p \in Queries, p # q
      PROVE  SearchInv(p)'
  <2>1. SearchInv(p)
    BY DEF QueryInv
  <2>2. /\ pc'[p] = pc[p] /\ req'[p] = req[p] /\ hits'[p] = hits[p] /\ iter'[p] = iter[p]
        /\ seen'[p] = seen[p] /\ results'[p] = results[p] /\ must'[p] = must[p]
    BY <1>2 DEF searchState
  <2>3. raw' = raw /\ index' = index /\ postings' = postings
    BY DEF loopVars
  <2>4. Grounded(p)'
    BY <2>1, <2>2, <2>3 DEF SearchInv, Grounded
  <2>5. MustStored(p)'
    BY <2>1, <2>2, <2>3 DEF SearchInv, MustStored, InWindow
  <2>6. MustAhead(p)' /\ Distinct(p)'
    BY <2>1, <2>2 DEF SearchInv, MustAhead, Distinct, ResultIDs, Full
  <2> QED BY <2>4, <2>5, <2>6 DEF SearchInv
<1> QED BY <1>1, <1>2 DEF QueryInv

LEMMA BeginKeepsInv ==
  ASSUME QueryInv, NEW q \in Queries, NEW t \in Terms, NEW s \in Stamps, NEW e \in Stamps,
         NEW lim \in Limits, Begin(q, t, s, e, lim)
  PROVE  QueryInv'
<1> DEFINE r == [term |-> t, start |-> s, end |-> e, limit |-> EffectiveLimit(lim)]
<1>1. EffectiveLimit(lim) \in Nat \ {0}
  BY QueryEngineAssumption DEF EffectiveLimit
<1>2. r \in Requests /\ r.term = t /\ r.limit = EffectiveLimit(lim)
  BY <1>1 DEF Requests
<1>3. TypeOK /\ LoopTypeOK /\ LoopInv
  BY DEF QueryInv, TypeOK
<1>4. /\ pc[q] = "idle" /\ pc' = [pc EXCEPT ![q] = "hot"]
      /\ req' = [req EXCEPT ![q] = r]
      /\ hits' = [hits EXCEPT ![q] = MemoryMatches(r)]
      /\ must' = [must EXCEPT ![q] = {id \in Indexed(t) : InWindow(r, id)}]
      /\ UNCHANGED <<loopVars, iter, seen, results>>
  BY DEF Begin
<1>5. postings[t] \in Seq(RecordID) /\ Len(postings[t]) \in Nat
  BY <1>3 DEF LoopTypeOK
<1>6. MemoryMatches(r) \subseteq 1 .. Len(postings[t]) /\ MemoryMatches(r) \subseteq Nat \ {0}
  BY <1>2, <1>5 DEF MemoryMatches
<1>7. {id \in Indexed(t) : InWindow(r, id)} \subseteq RecordID
  BY DEF Indexed
<1>8. TypeOK'
  <2>1. LoopTypeOK'
    BY <1>3, <1>4, LoopTypeNext DEF LoopNext
  <2>2. /\ pc' \in [Queries -> {"idle", "hot", "scan", "done"}]
        /\ req' \in [Queries -> Requests \cup {NoRequest}]
        /\ hits' \in [Queries -> SUBSET (Nat \ {0})]
        /\ must' \in [Queries -> SUBSET RecordID]
    BY <1>2, <1>3, <1>4, <1>6, <1>7 DEF TypeOK
  <2>3. /\ iter' \in [Queries -> SUBSET RecordID]
        /\ seen' \in [Queries -> SUBSET RecordID]
        /\ results' \in [Queries -> Seq(Result)]
    BY <1>3, <1>4 DEF TypeOK
  <2> QED BY <2>1, <2>2, <2>3 DEF TypeOK
<1>9. /\ pc'[q] = "hot" /\ req'[q] = r /\ hits'[q] = MemoryMatches(r)
      /\ must'[q] = {id \in Indexed(t) : InWindow(r, id)}
      /\ seen'[q] = seen[q] /\ results'[q] = results[q]
      /\ raw' = raw /\ index' = index /\ postings' = postings
  BY <1>3, <1>4 DEF TypeOK, loopVars
<1>10. seen[q] = {} /\ results[q] = << >> /\ ResultIDs(q)' = {}
  BY <1>4, <1>9 DEF QueryInv, SearchInv, Distinct, ResultIDs
<1>11. Grounded(q)'
  BY <1>2, <1>6, <1>9 DEF Grounded
<1>12. MustStored(q)'
  <2>1. \A id \in Indexed(t) : <<t, id>> \in index /\ raw[id] # NoLog
    BY <1>3 DEF Indexed, LoopInv, KeysBacked
  <2> QED BY <1>2, <1>9, <2>1 DEF MustStored, InWindow
<1>13. MustAhead(q)'
  BY <1>9, <1>10 DEF MustAhead
<1>14. Distinct(q)'
  BY <1>1, <1>2, <1>9, <1>10 DEF Distinct
<1>15. \A p \in Queries \ {q} : UNCHANGED searchState(p)
  BY <1>3, <1>4 DEF TypeOK, searchState
<1> QED BY <1>4, <1>8, <1>11, <1>12, <1>13, <1>14, <1>15, OneSearch DEF SearchInv

LEMMA FetchLogType ==
  ASSUME TypeOK, NEW q \in Queries, NEW id \in RecordID, FetchLog(q, id)
  PROVE  /\ seen' \in [Queries -> SUBSET RecordID]
         /\ results' \in [Queries -> Seq(Result)]
<1>1. seen' \in [Queries -> SUBSET RecordID]
  BY DEF FetchLog, TypeOK
<1>2. CASE Fetches(q, id)
  <2>1. raw[id] \in Logs
    BY <1>2 DEF Fetches, TypeOK, LoopTypeOK
  <2>2. [id |-> id, log |-> raw[id]] \in Result
    BY <2>1 DEF Result
  <2>3. Append(results[q], [id |-> id, log |-> raw[id]]) \in Seq(Result)
    BY <2>2 DEF TypeOK
  <2> QED BY <1>1, <1>2, <2>3 DEF FetchLog, TypeOK
<1>3. CASE ~Fetches(q, id)
  BY <1>1, <1>3 DEF FetchLog, TypeOK
<1> QED BY <1>2, <1>3

(* What fetchLog and the limit test after it do to a search in flight.      *)
LEMMA FetchKeepsSearch ==
  ASSUME QueryInv, NEW q \in Queries, NEW id \in RecordID, pc[q] \in {"hot", "scan"},
         FetchLog(q, id), AfterFetch(q, id), UNCHANGED <<raw, index, req, must>>
  PROVE  /\ pc' \in [Queries -> {"idle", "hot", "scan", "done"}]
         /\ seen' \in [Queries -> SUBSET RecordID]
         /\ results' \in [Queries -> Seq(Result)]
         /\ seen'[q] = seen[q] \cup {id}
         /\ pc'[q] \in {pc[q], "done"}
         /\ MustStored(q)'
         /\ seen'[q] \cap must'[q] \subseteq ResultIDs(q)'
         /\ pc'[q] = "done" => Full(q)'
         /\ Distinct(q)'
         /\ \A p \in Queries \ {q} : pc'[p] = pc[p] /\ seen'[p] = seen[p] /\ results'[p] = results[p]
<1>t. TypeOK /\ SearchInv(q) /\ MustStored(q) /\ MustAhead(q) /\ Distinct(q)
  BY DEF QueryInv, SearchInv
<1>1. /\ pc \in [Queries -> {"idle", "hot", "scan", "done"}]
      /\ seen \in [Queries -> SUBSET RecordID]
      /\ results \in [Queries -> Seq(Result)]
      /\ results[q] \in Seq(Result)
      /\ Len(results[q]) \in Nat
  BY <1>t DEF TypeOK
<1>2. req[q] \in Requests /\ req[q].limit \in Nat
  BY <1>t DEF SearchInv, Grounded, Requests
<1>3. pc' \in [Queries -> {"idle", "hot", "scan", "done"}] /\ pc'[q] \in {pc[q], "done"}
  BY <1>1 DEF AfterFetch
<1>4. seen'[q] = seen[q] \cup {id}
  BY <1>1 DEF FetchLog
<1>5. /\ seen' \in [Queries -> SUBSET RecordID]
      /\ results' \in [Queries -> Seq(Result)]
  BY <1>t, FetchLogType
<1>6. \A p \in Queries \ {q} : pc'[p] = pc[p] /\ seen'[p] = seen[p] /\ results'[p] = results[p]
  BY <1>1 DEF FetchLog, AfterFetch
<1>7. MustStored(q)'
  BY <1>t, <1>3 DEF MustStored, InWindow
<1>8. CASE Fetches(q, id)
  <2> DEFINE x == [id |-> id, log |-> raw[id]]
  <2>1. results'[q] = Append(results[q], x) /\ id \notin seen[q]
    BY <1>1, <1>8 DEF FetchLog, Fetches
  <2>2. x \in Result /\ x.id = id
    <3>1. raw[id] \in Logs
      BY <1>t, <1>8 DEF Fetches, TypeOK, LoopTypeOK
    <3> QED BY <3>1 DEF Result
  <2>3. /\ Len(results'[q]) = Len(results[q]) + 1
        /\ \A i \in 1 .. Len(results[q]) : results'[q][i] = results[q][i]
        /\ results'[q][Len(results[q]) + 1] = x
    BY <1>1, <2>1, <2>2
  <2>4. ResultIDs(q)' = ResultIDs(q) \cup {id}
    <3>1. 1 .. Len(results'[q]) = (1 .. Len(results[q])) \cup {Len(results[q]) + 1}
      BY <1>1, <2>3
    <3>2. ResultIDs(q)' = {results'[q][i].id : i \in 1 .. Len(results'[q])}
      BY DEF ResultIDs
    <3>3. \A i \in 1 .. Len(results[q]) : results'[q][i].id = results[q][i].id
      BY <2>3
    <3>4. results'[q][Len(results[q]) + 1].id = id
      BY <2>2, <2>3
    <3>5. ResultIDs(q)' = {results'[q][i].id : i \in 1 .. Len(results[q])} \cup {id}
      BY <3>1, <3>2, <3>4, Zenon
    <3> QED BY <3>3, <3>5 DEF ResultIDs
  <2>5. seen'[q] \cap must'[q] \subseteq ResultIDs(q)'
    BY <1>t, <1>4, <2>4 DEF MustAhead
  <2>6. pc'[q] = "done" <=> Len(results[q]) + 1 >= req[q].limit
    BY <1>1, <1>8 DEF AfterFetch
  <2>7. pc'[q] = "done" => Full(q)'
    BY <2>3, <2>6 DEF Full
  <2>8. Distinct(q)'
    <3>1. \A i \in 1 .. Len(results[q]) : results[q][i].id # id
      BY <1>t, <2>1 DEF Distinct, ResultIDs
    <3>2. ASSUME NEW i \in 1 .. Len(results'[q]), NEW j \in 1 .. Len(results'[q]),
                 results'[q][i].id = results'[q][j].id
          PROVE  i = j
      <4>1. i \in 1 .. Len(results[q]) \/ i = Len(results[q]) + 1
        BY <1>1, <2>3
      <4>2. j \in 1 .. Len(results[q]) \/ j = Len(results[q]) + 1
        BY <1>1, <2>3
      <4> QED BY <1>t, <2>2, <2>3, <3>1, <3>2, <4>1, <4>2 DEF Distinct
    <3>3. ResultIDs(q)' \subseteq seen'[q]
      BY <1>t, <1>4, <2>4 DEF Distinct
    <3>4. Len(results[q]) < req[q].limit
      BY <1>t DEF Distinct
    <3>5. /\ pc'[q] \in {"hot", "scan"} => Len(results'[q]) < req'[q].limit
          /\ pc'[q] = "done" => Len(results'[q]) <= req'[q].limit
      BY <1>1, <1>2, <2>3, <2>6, <3>4
    <3> QED BY <1>3, <3>2, <3>3, <3>5 DEF Distinct
  <2> QED BY <1>3, <1>4, <1>5, <1>6, <1>7, <2>5, <2>7, <2>8
<1>9. CASE ~Fetches(q, id)
  <2>1. pc' = pc /\ results' = results
    BY <1>9 DEF FetchLog, AfterFetch
  <2>2. ResultIDs(q)' = ResultIDs(q)
    BY <2>1 DEF ResultIDs
  <2>3. id \in must[q] => id \in seen[q]
    BY <1>t, <1>9 DEF MustStored, Fetches
  <2>4. seen'[q] \cap must'[q] \subseteq ResultIDs(q)'
    BY <1>t, <1>4, <2>2, <2>3 DEF MustAhead
  <2>5. Distinct(q)'
    BY <1>t, <1>4, <2>1, <2>2 DEF Distinct
  <2> QED BY <1>3, <1>4, <1>5, <1>6, <1>7, <2>1, <2>4, <2>5
<1> QED BY <1>8, <1>9

LEMMA FetchHitKeepsInv ==
  ASSUME QueryInv, NEW q \in Queries, FetchHit(q)
  PROVE  QueryInv'
<1>t. TypeOK /\ SearchInv(q)
  BY DEF QueryInv
<1>1. PICK i \in hits[q] :
        /\ hits' = [hits EXCEPT ![q] = @ \ {i}]
        /\ FetchLog(q, postings[req[q].term][i])
        /\ AfterFetch(q, postings[req[q].term][i])
  BY DEF FetchHit
<1>2. pc[q] = "hot" /\ UNCHANGED <<loopVars, req, iter, must>>
  BY DEF FetchHit
<1> DEFINE id == postings[req[q].term][i]
<1>3. id \in RecordID
  <2>1. i \in 1 .. Len(postings[req[q].term]) /\ req[q].term \in Terms
    BY <1>t, <1>1, <1>2 DEF SearchInv, Grounded, Requests
  <2>2. postings[req[q].term] \in Seq(RecordID)
    BY <1>t, <2>1 DEF TypeOK, LoopTypeOK
  <2> QED BY <2>1, <2>2
<1>4. UNCHANGED <<raw, index, req, must>>
  BY <1>2 DEF loopVars
<1>5. /\ pc' \in [Queries -> {"idle", "hot", "scan", "done"}]
      /\ seen' \in [Queries -> SUBSET RecordID]
      /\ results' \in [Queries -> Seq(Result)]
      /\ pc'[q] \in {pc[q], "done"}
      /\ MustStored(q)'
      /\ seen'[q] \cap must'[q] \subseteq ResultIDs(q)'
      /\ pc'[q] = "done" => Full(q)'
      /\ Distinct(q)'
      /\ \A p \in Queries \ {q} : pc'[p] = pc[p] /\ seen'[p] = seen[p] /\ results'[p] = results[p]
  BY <1>1, <1>2, <1>3, <1>4, FetchKeepsSearch
<1>6. hits' \in [Queries -> SUBSET (Nat \ {0})] /\ hits'[q] \subseteq hits[q]
      /\ \A p \in Queries \ {q} : hits'[p] = hits[p]
  BY <1>t, <1>1 DEF TypeOK
<1>7. TypeOK'
  BY <1>t, <1>2, <1>5, <1>6, LoopTypeNext DEF TypeOK
<1>8. Grounded(q)'
  BY <1>t, <1>2, <1>6 DEF SearchInv, Grounded, loopVars
<1>9. MustAhead(q)'
  BY <1>2, <1>5 DEF MustAhead
<1>10. \A p \in Queries \ {q} : UNCHANGED searchState(p)
  BY <1>2, <1>5, <1>6 DEF searchState
<1> QED BY <1>2, <1>5, <1>7, <1>8, <1>9, <1>10, OneSearch DEF SearchInv

LEMMA OpenIteratorKeepsInv ==
  ASSUME QueryInv, NEW q \in Queries, OpenIterator(q)
  PROVE  QueryInv'
<1>t. TypeOK /\ SearchInv(q)
  BY DEF QueryInv
<1>1. /\ pc[q] = "hot"
      /\ pc' = [pc EXCEPT ![q] = "scan"]
      /\ iter' = [iter EXCEPT ![q] = Indexed(req[q].term)]
      /\ UNCHANGED <<loopVars, req, hits, seen, results, must>>
  BY DEF OpenIterator
<1>2. pc'[q] = "scan" /\ iter'[q] = Indexed(req[q].term) /\ Indexed(req[q].term) \subseteq RecordID
  BY <1>t, <1>1 DEF TypeOK, Indexed
<1>3. TypeOK'
  BY <1>t, <1>1, <1>2, LoopTypeNext DEF TypeOK
<1>4. must[q] \subseteq Indexed(req[q].term)
  <2>1. must[q] \subseteq RecordID
    BY <1>t DEF TypeOK
  <2> QED BY <1>t, <1>1, <2>1 DEF SearchInv, MustStored, Indexed
<1>5. Grounded(q)' /\ MustStored(q)'
  BY <1>t, <1>1 DEF SearchInv, Grounded, MustStored, InWindow, loopVars
<1>6. MustAhead(q)'
  BY <1>t, <1>1, <1>2, <1>4 DEF SearchInv, MustAhead, ResultIDs
<1>7. Distinct(q)'
  BY <1>t, <1>1, <1>2 DEF SearchInv, Distinct, ResultIDs
<1>8. \A p \in Queries \ {q} : UNCHANGED searchState(p)
  BY <1>t, <1>1 DEF TypeOK, searchState
<1> QED BY <1>1, <1>3, <1>5, <1>6, <1>7, <1>8, OneSearch DEF SearchInv

LEMMA ScanNextKeepsInv ==
  ASSUME QueryInv, NEW q \in Queries, ScanNext(q)
  PROVE  QueryInv'
<1>t. TypeOK /\ SearchInv(q)
  BY DEF QueryInv
<1>1. PICK id \in iter[q] :
        /\ \A k \in iter[q] : KeyLeq(id, k)
        /\ iter' = [iter EXCEPT ![q] = @ \ {id}]
        /\ SkipEarly(q, id) \/ StopLate(q, id) \/ FetchKey(q, id)
  BY DEF ScanNext
<1>2. pc[q] = "scan" /\ UNCHANGED <<loopVars, req, hits, must>>
  BY DEF ScanNext
<1>3. iter[q] \subseteq RecordID /\ id \in RecordID /\ must[q] \subseteq RecordID
  BY <1>t DEF TypeOK
<1>4. /\ iter' \in [Queries -> SUBSET RecordID] /\ iter'[q] = iter[q] \ {id}
      /\ \A p \in Queries \ {q} : iter'[p] = iter[p]
  BY <1>t, <1>1 DEF TypeOK
<1>5. Grounded(q) /\ MustStored(q) /\ MustAhead(q) /\ Distinct(q) /\ req[q] \in Requests
  BY <1>t, <1>2 DEF SearchInv, Grounded
<1>6. \A k \in RecordID : k.ts \in Nat
  BY FlushLoopAssumption DEF RecordID
<1>7. req[q].start \in Nat /\ req[q].end \in Nat
  BY <1>5, FlushLoopAssumption DEF Requests
<1>8. \A k \in must[q] : req[q].start <= k.ts /\ k.ts <= req[q].end
  BY <1>2, <1>5 DEF MustStored, InWindow
<1>9. must[q] \subseteq seen[q] \cup iter[q] /\ seen[q] \cap must[q] \subseteq ResultIDs(q)
  BY <1>2, <1>5 DEF MustAhead
<1>10. CASE SkipEarly(q, id)
  <2>1. id.ts < req[q].start /\ UNCHANGED <<pc, seen, results>>
    BY <1>10 DEF SkipEarly
  <2>2. id \notin must[q]
    BY <1>3, <1>6, <1>7, <1>8, <2>1
  <2>3. TypeOK'
    BY <1>t, <1>2, <1>4, <2>1, LoopTypeNext DEF TypeOK
  <2>4. Grounded(q)' /\ MustStored(q)' /\ Distinct(q)'
    BY <1>2, <1>5, <2>1 DEF Grounded, MustStored, Distinct, ResultIDs, InWindow, loopVars
  <2>5. MustAhead(q)'
    BY <1>2, <1>4, <1>9, <2>1, <2>2 DEF MustAhead, ResultIDs
  <2>6. \A p \in Queries \ {q} : UNCHANGED searchState(p)
    BY <1>2, <1>4, <2>1 DEF searchState
  <2> QED BY <1>2, <2>3, <2>4, <2>5, <2>6, OneSearch DEF SearchInv
<1>11. CASE StopLate(q, id)
  <2>1. id.ts > req[q].end /\ pc' = [pc EXCEPT ![q] = "done"] /\ UNCHANGED <<seen, results>>
    BY <1>11 DEF StopLate
  <2>2. \A k \in iter[q] : id.ts <= k.ts
    BY <1>1, <1>3, <1>6 DEF KeyLeq
  <2>3. iter[q] \cap must[q] = {}
    BY <1>3, <1>6, <1>7, <1>8, <2>1, <2>2
  <2>4. pc'[q] = "done" /\ \A p \in Queries \ {q} : pc'[p] = pc[p]
    BY <1>t, <2>1 DEF TypeOK
  <2>5. TypeOK'
    BY <1>t, <1>2, <1>4, <2>1, LoopTypeNext DEF TypeOK
  <2>6. Grounded(q)' /\ MustStored(q)'
    BY <1>2, <1>5, <2>4 DEF Grounded, MustStored, InWindow, loopVars
  <2>7. Distinct(q)'
    <3>1. Len(results[q]) < req[q].limit /\ Len(results[q]) \in Nat /\ req[q].limit \in Nat
      BY <1>t, <1>2, <1>5 DEF Distinct, TypeOK, Requests
    <3> QED BY <1>2, <1>5, <2>1, <2>4, <3>1 DEF Distinct, ResultIDs
  <2>8. MustAhead(q)'
    BY <1>2, <1>9, <2>1, <2>3, <2>4 DEF MustAhead, ResultIDs
  <2>9. \A p \in Queries \ {q} : UNCHANGED searchState(p)
    BY <1>2, <1>4, <2>1, <2>4 DEF searchState
  <2> QED BY <1>2, <2>5, <2>6, <2>7, <2>8, <2>9, OneSearch DEF SearchInv
<1>12. CASE FetchKey(q, id)
  <2>1. FetchLog(q, id) /\ AfterFetch(q, id) /\ UNCHANGED <<raw, index, req, must>>
    BY <1>2, <1>12 DEF FetchKey, loopVars
  <2>2. /\ pc' \in [Queries -> {"idle", "hot", "scan", "done"}]
        /\ seen' \in [Queries -> SUBSET RecordID]
        /\ results' \in [Queries -> Seq(Result)]
        /\ seen'[q] = seen[q] \cup {id}
        /\ pc'[q] \in {pc[q], "done"}
        /\ MustStored(q)'
        /\ seen'[q] \cap must'[q] \subseteq ResultIDs(q)'
        /\ pc'[q] = "done" => Full(q)'
        /\ Distinct(q)'
        /\ \A p \in Queries \ {q} : pc'[p] = pc[p] /\ seen'[p] = seen[p] /\ results'[p] = results[p]
    BY <1>2, <1>3, <2>1, FetchKeepsSearch
  <2>3. TypeOK'
    BY <1>t, <1>2, <1>4, <2>2, LoopTypeNext DEF TypeOK
  <2>4. Grounded(q)'
    BY <1>2, <1>5 DEF Grounded, loopVars
  <2>5. MustAhead(q)'
    BY <1>2, <1>4, <1>9, <2>2 DEF MustAhead
  <2>6. \A p \in Queries \ {q} : UNCHANGED searchState(p)
    BY <1>2, <1>4, <2>2 DEF searchState
  <2> QED BY <1>2, <2>2, <2>3, <2>4, <2>5, <2>6, OneSearch DEF SearchInv
<1> QED BY <1>1, <1>10, <1>11, <1>12

LEMMA ScanEndKeepsInv ==
  ASSUME QueryInv, NEW q \in Queries, ScanEnd(q)
  PROVE  QueryInv'
<1>t. TypeOK /\ SearchInv(q)
  BY DEF QueryInv
<1>1. /\ pc[q] = "scan" /\ iter[q] = {}
      /\ pc' = [pc EXCEPT ![q] = "done"]
      /\ UNCHANGED <<loopVars, req, hits, iter, seen, results, must>>
  BY DEF ScanEnd
<1>2. pc'[q] = "done" /\ \A p \in Queries \ {q} : pc'[p] = pc[p]
  BY <1>t, <1>1 DEF TypeOK
<1>3. TypeOK'
  BY <1>t, <1>1, LoopTypeNext DEF TypeOK
<1>4. Grounded(q)' /\ MustStored(q)'
  BY <1>t, <1>1 DEF SearchInv, Grounded, MustStored, InWindow, loopVars
<1>5. MustAhead(q)'
  BY <1>t, <1>1, <1>2 DEF SearchInv, MustAhead, ResultIDs
<1>6. Distinct(q)'
  <2>1. Len(results[q]) < req[q].limit /\ Len(results[q]) \in Nat /\ req[q].limit \in Nat
    BY <1>t, <1>1 DEF SearchInv, Grounded, Distinct, TypeOK, Requests
  <2> QED BY <1>t, <1>1, <1>2, <2>1 DEF SearchInv, Distinct, ResultIDs
<1>7. \A p \in Queries \ {q} : UNCHANGED searchState(p)
  BY <1>1, <1>2 DEF searchState
<1> QED BY <1>1, <1>3, <1>4, <1>5, <1>6, <1>7, OneSearch DEF SearchInv

LEMMA RespondKeepsInv ==
  ASSUME QueryInv, NEW q \in Queries, Respond(q)
  PROVE  QueryInv'
<1>t. TypeOK
  BY DEF QueryInv
<1>1. UNCHANGED loopVars
  BY DEF Respond
<1>2. /\ pc'[q] = "idle" /\ results'[q] = << >> /\ seen'[q] = {}
      /\ \A p \in Queries \ {q} : UNCHANGED searchState(p)
  BY <1>t DEF Respond, Forget, TypeOK, searchState
<1>3. TypeOK'
  BY <1>t, <1>1, LoopTypeNext DEF TypeOK, Respond, Forget
<1>4. SearchInv(q)'
  BY <1>2 DEF SearchInv, Grounded, MustStored, MustAhead, Distinct, ResultIDs
<1> QED BY <1>1, <1>2, <1>3, <1>4, OneSearch

----------------------------------------------------------------------------
(* Theorems *)

LEMMA QueryInvNext == QueryInv /\ [Next]_vars => QueryInv'
<1> SUFFICES ASSUME QueryInv, [Next]_vars
             PROVE  QueryInv'
  OBVIOUS
<1>1. CASE LoopStep /\ UNCHANGED queryVars
  BY <1>1, LoopStepKeepsSearch
<1>2. CASE EngineCrash
  BY <1>2, CrashKeepsInv
<1>3. CASE \E q \in Queries, t \in Terms, s \in Stamps, e \in Stamps, lim \in Limits :
             Begin(q, t, s, e, lim)
  BY <1>3, BeginKeepsInv
<1>4. ASSUME NEW q \in Queries, SearchStep(q) \/ Respond(q)
      PROVE  QueryInv'
  BY <1>4, FetchHitKeepsInv, OpenIteratorKeepsInv, ScanNextKeepsInv, ScanEndKeepsInv,
     RespondKeepsInv DEF SearchStep
<1>5. CASE UNCHANGED vars
  <2>1. LoopInv'
    BY <1>5, LoopInvNext DEF QueryInv, vars
  <2>2. TypeOK'
    BY <1>5, <2>1 DEF QueryInv, LoopInv, TypeOK, vars, queryVars
  <2>3. ASSUME NEW q \in Queries
        PROVE  SearchInv(q)'
    BY <1>5 DEF QueryInv, SearchInv, Grounded, MustStored, MustAhead, Distinct, ResultIDs, Full,
       InWindow, vars, queryVars, loopVars
  <2> QED BY <2>1, <2>2, <2>3 DEF QueryInv
<1> QED BY <1>1, <1>2, <1>3, <1>4, <1>5 DEF Next

(* The step of the flush loop that a step of the engine contains.           *)
LEMMA LoopStepOfEngine ==
  ASSUME [Next]_vars
  PROVE  [LoopNext]_loopVars
<1>1. CASE LoopStep \/ EngineCrash
  BY <1>1 DEF EngineCrash, LoopNext
<1>2. CASE \E q \in Queries, t \in Terms, s \in Stamps, e \in Stamps, lim \in Limits :
             Begin(q, t, s, e, lim)
  BY <1>2 DEF Begin
<1>3. CASE \E q \in Queries : SearchStep(q) \/ Respond(q)
  BY <1>3 DEF SearchStep, FetchHit, OpenIterator, ScanNext, ScanEnd, Respond
<1>4. CASE UNCHANGED vars
  BY <1>4 DEF vars
<1> QED BY <1>1, <1>2, <1>3, <1>4 DEF Next

(* The inductive invariant of SearchTerm next to the select loop: whatever   *)
(* a search owes its client is in its answer or still ahead of it.          *)
THEOREM QueryInvariant == Spec => []QueryInv
BY QueryInvInit, QueryInvNext, PTL DEF Spec

(* The searches' state keeps its shape; in particular every limit in use is *)
(* positive, whatever a request carried.                                    *)
THEOREM TypeCorrect == Spec => []TypeOK
<1>1. QueryInv => TypeOK
  BY DEF QueryInv
<1> QED BY <1>1, QueryInvariant, PTL

(* A search not cut short by its limit misses no matching record that was   *)
(* on disk when it began, whatever the flush loop does meanwhile.           *)
THEOREM AnswerCompleteCorrect == Spec => []AnswerComplete
<1>1. QueryInv => AnswerComplete
  BY DEF QueryInv, SearchInv, MustAhead, AnswerComplete
<1> QED BY <1>1, QueryInvariant, PTL

(* No record is in an answer twice, and no answer exceeds the limit.        *)
THEOREM AnswerDistinctCorrect == Spec => []AnswerDistinct
<1>1. ASSUME QueryInv, NEW q \in Queries
      PROVE  /\ \A i, j \in 1 .. Len(results[q]) : results[q][i].id = results[q][j].id => i = j
             /\ pc[q] # "idle" => Len(results[q]) <= req[q].limit
  <2>1. Distinct(q) /\ Grounded(q) /\ TypeOK
    BY <1>1 DEF QueryInv, SearchInv
  <2>2. pc[q] # "idle" => req[q].limit \in Nat /\ Len(results[q]) \in Nat
    BY <2>1 DEF Grounded, Requests, TypeOK
  <2>3. pc[q] \in {"idle", "hot", "scan", "done"}
    BY <2>1 DEF TypeOK
  <2> QED BY <2>1, <2>2, <2>3 DEF Distinct
<1>2. QueryInv => AnswerDistinct
  BY <1>1 DEF AnswerDistinct
<1> QED BY <1>2, QueryInvariant, PTL

----------------------------------------------------------------------------
(* Answers match.  What a search has found, what it still has to look up and *)
(* what its iterator yields all have the term and lie in the window.        *)

ResultsMatch(q) ==
  \A i \in 1 .. Len(results[q]) :
    /\ raw[results[q][i].id] = results[q][i].log
    /\ req[q].term \in TokensOf[results[q][i].log]
    /\ InWindow(req[q], results[q][i].id)

HitsMatch(q) ==
  pc[q] = "hot" => \A i \in hits[q] : InWindow(req[q], postings[req[q].term][i])

KeysMatch(q) ==
  pc[q] = "scan" => \A id \in iter[q] : <<req[q].term, id>> \in index

MatchInv ==
  /\ QueryInv /\ IndexInv
  /\ \A q \in Queries : ResultsMatch(q) /\ HitsMatch(q) /\ KeysMatch(q)

(* A posting whose record is on disk has its own line there: no other line  *)
(* can have the same ID.                                                    *)
LEMMA PostedMatches ==
  ASSUME IndexInv, UniqueKeys, NEW t \in Terms, NEW id \in RecordID,
         Posted(t, id), raw[id] # NoLog
  PROVE  t \in TokensOf[raw[id]]
<1>1. PICK l \in Logs : idOf[l] = id /\ t \in TokensOf[l]
  BY DEF IndexInv, PostingsBacked
<1>2. raw[id] \in Logs /\ idOf[raw[id]] = id
  BY DEF IndexInv, LoopInv, LoopTypeOK, UnderOwnKey
<1>3. raw[id] = l
  BY <1>1, <1>2, FlushLoopAssumption DEF IndexInv, LoopInv, KeysUnique
<1> QED BY <1>1, <1>3

LEMMA KeyMatches ==
  ASSUME IndexInv, UniqueKeys, NEW t \in Terms, NEW id \in RecordID, <<t, id>> \in index
  PROVE  raw[id] # NoLog /\ t \in TokensOf[raw[id]]
BY DEF IndexInv, KeysExact

(* What the loop does leaves what a search has seen as it was.              *)
LEMMA LoopStepKeepsSeen ==
  ASSUME LoopInv, LoopStep, UniqueKeys
  PROVE  /\ \A id \in RecordID : raw[id] # NoLog => raw'[id] = raw[id]
         /\ index \subseteq index'
         /\ \A t \in Terms : \A i \in 1 .. Len(postings[t]) : postings'[t][i] = postings[t][i]
<1>t. LoopTypeOK /\ LoopInv'
  BY LoopInvNext DEF LoopNext, LoopInv
<1>1. \A id \in RecordID : raw[id] # NoLog => raw'[id] = raw[id]
  BY <1>t, StoredStays DEF LoopNext
<1>2. index \subseteq index'
  BY <1>t, LoopStepGrows
<1>3. \A t \in Terms : \A i \in 1 .. Len(postings[t]) : postings'[t][i] = postings[t][i]
  <2>1. CASE Tick
    BY <2>1 DEF Tick
  <2>2. ASSUME NEW l \in Logs, NEW id \in RecordID, Handle(l, id), NEW t \in Terms,
               NEW i \in 1 .. Len(postings[t])
        PROVE  postings'[t][i] = postings[t][i]
    <3>1. postings'[t] = postings[t] \/ postings'[t] = Append(postings[t], id)
      BY <2>2 DEF Handle, Receive, Register
    <3>2. postings[t] \in Seq(RecordID)
      BY <1>t DEF LoopTypeOK
    <3> QED BY <2>2, <3>1, <3>2
  <2> QED BY <2>1, <2>2 DEF LoopStep
<1> QED BY <1>1, <1>2, <1>3

LEMMA MatchInvInit == Init => MatchInv
<1> SUFFICES ASSUME Init
             PROVE  MatchInv
  OBVIOUS
<1>1. QueryInv /\ IndexInv
  BY QueryInvInit, IndexInvInit DEF Init
<1>2. \A q \in Queries : pc[q] = "idle" /\ results[q] = << >>
  BY DEF Init, QueryInit
<1> QED BY <1>1, <1>2 DEF MatchInv, ResultsMatch, HitsMatch, KeysMatch

LEMMA ResultsAreResults ==
  ASSUME QueryInv, NEW q \in Queries, NEW i \in 1 .. Len(results[q])
  PROVE  results[q][i].id \in RecordID /\ results[q][i].log \in Logs
<1>1. results[q] \in Seq(Result)
  BY DEF QueryInv, TypeOK
<1>2. results[q][i] \in Result
  BY <1>1
<1> QED BY <1>2 DEF Result

(* A step of the loop, next to searches that stand still.                   *)
LEMMA LoopStepKeepsMatch ==
  ASSUME MatchInv, UniqueKeys, LoopStep, UNCHANGED queryVars, NEW q \in Queries
  PROVE  ResultsMatch(q)' /\ HitsMatch(q)' /\ KeysMatch(q)'
<1>t. QueryInv /\ LoopInv /\ SearchInv(q) /\ ResultsMatch(q) /\ HitsMatch(q) /\ KeysMatch(q)
  BY DEF MatchInv, QueryInv
<1>1. /\ pc'[q] = pc[q] /\ req'[q] = req[q] /\ hits'[q] = hits[q] /\ iter'[q] = iter[q]
      /\ results'[q] = results[q]
  BY DEF queryVars
<1>2. ResultsMatch(q)'
  <2>1. ASSUME NEW i \in 1 .. Len(results[q])
        PROVE  raw'[results[q][i].id] = results[q][i].log
    <3>1. results[q][i].id \in RecordID /\ results[q][i].log \in Logs
      BY <1>t, ResultsAreResults
    <3>2. raw[results[q][i].id] # NoLog
      BY <1>t, <3>1, FlushLoopAssumption DEF ResultsMatch
    <3> QED BY <1>t, <3>1, <3>2, LoopStepKeepsSeen DEF ResultsMatch
  <2> QED BY <1>t, <1>1, <2>1 DEF ResultsMatch, InWindow
<1>3. HitsMatch(q)'
  <2>1. ASSUME pc[q] = "hot", NEW i \in hits[q]
        PROVE  postings'[req[q].term][i] = postings[req[q].term][i]
    <3>1. req[q].term \in Terms /\ i \in 1 .. Len(postings[req[q].term])
      BY <1>t, <2>1 DEF SearchInv, Grounded, Requests
    <3> QED BY <1>t, <3>1, LoopStepKeepsSeen
  <2> QED BY <1>t, <1>1, <2>1 DEF HitsMatch, InWindow
<1>4. KeysMatch(q)'
  BY <1>t, <1>1, LoopStepKeepsSeen DEF KeysMatch
<1> QED BY <1>2, <1>3, <1>4

LEMMA FetchKeepsMatch ==
  ASSUME QueryInv, NEW q \in Queries, NEW id \in RecordID, FetchLog(q, id),
         UNCHANGED <<raw, req>>, ResultsMatch(q), InWindow(req[q], id),
         raw[id] # NoLog => req[q].term \in TokensOf[raw[id]]
  PROVE  ResultsMatch(q)'
<1>t. results \in [Queries -> Seq(Result)] /\ results[q] \in Seq(Result)
  BY DEF QueryInv, TypeOK
<1>1. CASE Fetches(q, id)
  <2> DEFINE x == [id |-> id, log |-> raw[id]]
  <2>1. results'[q] = Append(results[q], x) /\ raw[id] # NoLog
    BY <1>t, <1>1 DEF FetchLog, Fetches
  <2>2. x.id = id /\ x.log = raw[id]
    OBVIOUS
  <2>3. \A i \in 1 .. Len(results'[q]) :
          results'[q][i] = x \/ (i \in 1 .. Len(results[q]) /\ results'[q][i] = results[q][i])
    BY <1>t, <2>1
  <2> QED BY <2>1, <2>2, <2>3 DEF ResultsMatch, InWindow
<1>2. CASE ~Fetches(q, id)
  BY <1>2 DEF FetchLog, ResultsMatch, InWindow
<1> QED BY <1>1, <1>2

(* A search that does not move keeps what it has.                           *)
LEMMA OthersMatch ==
  ASSUME MatchInv, UNCHANGED loopVars, NEW p \in Queries, UNCHANGED searchState(p)
  PROVE  ResultsMatch(p)' /\ HitsMatch(p)' /\ KeysMatch(p)'
<1>1. /\ pc'[p] = pc[p] /\ req'[p] = req[p] /\ hits'[p] = hits[p] /\ iter'[p] = iter[p]
      /\ results'[p] = results[p]
  BY DEF searchState
<1>2. raw' = raw /\ index' = index /\ postings' = postings
  BY DEF loopVars
<1> QED BY <1>1, <1>2 DEF MatchInv, ResultsMatch, HitsMatch, KeysMatch, InWindow

(* A step of one search.                                                    *)
LEMMA SearchStepKeepsMatch ==
  ASSUME MatchInv, UniqueKeys, NEW q \in Queries, SearchStep(q)
  PROVE  \A p \in Queries : ResultsMatch(p)' /\ HitsMatch(p)' /\ KeysMatch(p)'
<1>t. /\ QueryInv /\ IndexInv /\ TypeOK /\ SearchInv(q)
      /\ ResultsMatch(q) /\ HitsMatch(q) /\ KeysMatch(q)
  BY DEF MatchInv, QueryInv
<1>l. UNCHANGED loopVars /\ raw' = raw /\ index' = index /\ postings' = postings /\ req' = req
  BY DEF SearchStep, FetchHit, OpenIterator, ScanNext, ScanEnd, loopVars
<1>p. \A p \in Queries \ {q} : UNCHANGED searchState(p)
  BY <1>t DEF SearchStep, FetchHit, OpenIterator, ScanNext, ScanEnd, FetchLog, AfterFetch, SkipEarly,
     StopLate, FetchKey, TypeOK, searchState
<1>1. ResultsMatch(q)' /\ HitsMatch(q)' /\ KeysMatch(q)'
  <2>1. CASE FetchHit(q)
    <3>1. PICK i \in hits[q] :
            /\ hits' = [hits EXCEPT ![q] = @ \ {i}]
            /\ FetchLog(q, postings[req[q].term][i])
            /\ AfterFetch(q, postings[req[q].term][i])
      BY <2>1 DEF FetchHit
    <3> DEFINE t == req[q].term
               id == postings[t][i]
    <3>2. pc[q] = "hot" /\ iter' = iter
      BY <2>1 DEF FetchHit
    <3>3. t \in Terms /\ i \in 1 .. Len(postings[t])
      BY <1>t, <3>2 DEF SearchInv, Grounded, Requests
    <3>4. id \in RecordID /\ Posted(t, id)
      BY <1>t, <3>3 DEF TypeOK, LoopTypeOK, Posted
    <3>5. InWindow(req[q], id)
      BY <1>t, <3>2 DEF HitsMatch
    <3>6. raw[id] # NoLog => t \in TokensOf[raw[id]]
      BY <1>t, <3>3, <3>4, PostedMatches
    <3>7. ResultsMatch(q)'
      BY <1>t, <1>l, <3>1, <3>4, <3>5, <3>6, FetchKeepsMatch
    <3>8. hits'[q] \subseteq hits[q] /\ pc'[q] \in {"hot", "done"}
      BY <1>t, <3>1, <3>2 DEF TypeOK, AfterFetch
    <3> QED BY <1>t, <1>l, <3>2, <3>7, <3>8 DEF HitsMatch, KeysMatch, InWindow
  <2>2. CASE OpenIterator(q)
    <3>1. pc'[q] = "scan" /\ iter'[q] = Indexed(req[q].term) /\ results' = results
      BY <1>t, <2>2 DEF OpenIterator, TypeOK
    <3> QED BY <1>t, <1>l, <3>1 DEF ResultsMatch, HitsMatch, KeysMatch, Indexed, InWindow
  <2>3. CASE ScanNext(q)
    <3>1. PICK id \in iter[q] :
            /\ iter' = [iter EXCEPT ![q] = @ \ {id}]
            /\ SkipEarly(q, id) \/ StopLate(q, id) \/ FetchKey(q, id)
      BY <2>3 DEF ScanNext
    <3>2. pc[q] = "scan" /\ req[q].term \in Terms /\ id \in RecordID
      BY <1>t, <2>3 DEF ScanNext, SearchInv, Grounded, Requests, TypeOK
    <3>3. iter'[q] \subseteq iter[q] /\ pc'[q] \in {"scan", "done"}
      BY <1>t, <3>1, <3>2 DEF TypeOK, SkipEarly, StopLate, FetchKey, AfterFetch
    <3>4. ResultsMatch(q)'
      <4>1. CASE FetchKey(q, id)
        <5>1. req[q].term \in TokensOf[raw[id]]
          BY <1>t, <3>2, KeyMatches DEF KeysMatch
        <5> QED BY <1>t, <1>l, <3>2, <4>1, <5>1, FetchKeepsMatch DEF FetchKey
      <4>2. CASE SkipEarly(q, id) \/ StopLate(q, id)
        BY <1>t, <1>l, <4>2 DEF SkipEarly, StopLate, ResultsMatch, InWindow
      <4> QED BY <3>1, <4>1, <4>2
    <3> QED BY <1>t, <1>l, <3>2, <3>3, <3>4 DEF HitsMatch, KeysMatch
  <2>4. CASE ScanEnd(q)
    <3>1. pc'[q] = "done" /\ results' = results
      BY <1>t, <2>4 DEF ScanEnd, TypeOK
    <3> QED BY <1>t, <1>l, <3>1 DEF ResultsMatch, HitsMatch, KeysMatch, InWindow
  <2> QED BY <2>1, <2>2, <2>3, <2>4 DEF SearchStep
<1> QED BY <1>l, <1>p, <1>1, OthersMatch

LEMMA BeginKeepsMatch ==
  ASSUME MatchInv, NEW q \in Queries, NEW t \in Terms, NEW s \in Stamps, NEW e \in Stamps,
         NEW lim \in Limits, Begin(q, t, s, e, lim)
  PROVE  \A p \in Queries : ResultsMatch(p)' /\ HitsMatch(p)' /\ KeysMatch(p)'
<1> DEFINE r == [term |-> t, start |-> s, end |-> e, limit |-> EffectiveLimit(lim)]
<1>t. TypeOK /\ SearchInv(q)
  BY DEF MatchInv, QueryInv
<1>1. /\ pc[q] = "idle" /\ pc'[q] = "hot" /\ req'[q] = r /\ hits'[q] = MemoryMatches(r)
      /\ UNCHANGED <<loopVars, results>> /\ postings' = postings
      /\ \A p \in Queries \ {q} : UNCHANGED searchState(p)
  BY <1>t DEF Begin, TypeOK, searchState, loopVars
<1>2. results'[q] = << >>
  BY <1>t, <1>1 DEF SearchInv, Distinct
<1>3. ResultsMatch(q)' /\ KeysMatch(q)'
  BY <1>1, <1>2 DEF ResultsMatch, KeysMatch
<1>4. HitsMatch(q)'
  BY <1>1 DEF HitsMatch, MemoryMatches, InWindow
<1> QED BY <1>1, <1>3, <1>4, OthersMatch

LEMMA RespondKeepsMatch ==
  ASSUME MatchInv, NEW q \in Queries, Respond(q)
  PROVE  \A p \in Queries : ResultsMatch(p)' /\ HitsMatch(p)' /\ KeysMatch(p)'
<1>1. /\ pc'[q] = "idle" /\ results'[q] = << >> /\ UNCHANGED loopVars
      /\ \A p \in Queries \ {q} : UNCHANGED searchState(p)
  BY DEF MatchInv, QueryInv, TypeOK, Respond, Forget, searchState
<1>2. ResultsMatch(q)' /\ HitsMatch(q)' /\ KeysMatch(q)'
  BY <1>1 DEF ResultsMatch, HitsMatch, KeysMatch
<1> QED BY <1>1, <1>2, OthersMatch

LEMMA MatchInvNext == ASSUME UniqueKeys PROVE MatchInv /\ [Next]_vars => MatchInv'
<1> SUFFICES ASSUME MatchInv, [Next]_vars
             PROVE  MatchInv'
  OBVIOUS
<1>1. QueryInv'
  BY QueryInvNext DEF MatchInv
<1>2. IndexInv'
  <2>1. [LoopNext]_loopVars
    BY LoopStepOfEngine
  <2> QED BY <2>1, IndexInvNext DEF MatchInv
<1>3. \A p \in Queries : ResultsMatch(p)' /\ HitsMatch(p)' /\ KeysMatch(p)'
  <2>1. CASE LoopStep /\ UNCHANGED queryVars
    BY <2>1, LoopStepKeepsMatch
  <2>2. CASE EngineCrash
    BY <2>2 DEF EngineCrash, ResultsMatch, HitsMatch, KeysMatch
  <2>3. CASE \E q \in Queries, t \in Terms, s \in Stamps, e \in Stamps, lim \in Limits :
               Begin(q, t, s, e, lim)
    BY <2>3, BeginKeepsMatch
  <2>4. CASE \E q \in Queries : SearchStep(q) \/ Respond(q)
    BY <2>4, SearchStepKeepsMatch, RespondKeepsMatch
  <2>5. CASE UNCHANGED vars
    <3>1. UNCHANGED loopVars /\ \A p \in Queries : UNCHANGED searchState(p)
      BY <2>5 DEF vars, queryVars, searchState
    <3> QED BY <3>1, OthersMatch
  <2> QED BY <2>1, <2>2, <2>3, <2>4, <2>5 DEF Next
<1> QED BY <1>1, <1>2, <1>3 DEF MatchInv

(* With unique keys, every line of an answer has the searched term and lies *)
(* in the searched window, from whichever tier it came, and although a      *)
(* posting may lead to a record that was not on disk when it was copied.    *)
THEOREM AnswerMatchesCorrect == ASSUME UniqueKeys PROVE Spec => []AnswerMatches
<1>1. MatchInv => AnswerMatches
  BY DEF MatchInv, ResultsMatch, AnswerMatches
<1> QED BY <1>1, MatchInvInit, MatchInvNext, PTL DEF Spec

----------------------------------------------------------------------------
(* The refinement of LogService *)

(* What the client of a search sees of it.                                  *)
Status(q) == IF pc[q] \in {"hot", "scan"} THEN "open" ELSE pc[q]

Shown(q) == IF pc[q] = "done" THEN ResultIDs(q) ELSE {}

LEMMA UpTo ==
  ASSUME NEW n \in Nat
  PROVE  IsFiniteSet(1 .. n) /\ Cardinality(1 .. n) = n
<1>1. /\ IsFiniteSet(1 .. n)
      /\ Cardinality(1 .. n) = IF 1 > n THEN 0 ELSE n - 1 + 1
  BY FS_Interval
<1> QED BY <1>1

(* LogService counts as this module does.                                   *)
LEMMA SameCardinality == \A S : Service!Cardinality(S) = Cardinality(S)
BY DEF Cardinality, Service!Cardinality

(* An answer without repetition has as many records as entries.             *)
LEMMA AnswerSize ==
  ASSUME NEW s \in Seq(Result),
         \A i, j \in 1 .. Len(s) : s[i].id = s[j].id => i = j
  PROVE  Cardinality({s[i].id : i \in 1 .. Len(s)}) = Len(s)
<1> DEFINE S == {s[i].id : i \in 1 .. Len(s)}
           f == [i \in 1 .. Len(s) |-> s[i].id]
<1>1. Len(s) \in Nat
  OBVIOUS
<1>2. IsFiniteSet(1 .. Len(s)) /\ Cardinality(1 .. Len(s)) = Len(s)
  BY <1>1, UpTo
<1>3. f \in [1 .. Len(s) -> S]
  OBVIOUS
<1>4. f \in Injection(1 .. Len(s), S)
  BY <1>3 DEF Injection, IsInjective
<1>5. f \in Surjection(1 .. Len(s), S)
  BY <1>3 DEF Surjection
<1>6. ExistsBijection(1 .. Len(s), S)
  BY <1>4, <1>5 DEF ExistsBijection, Bijection
<1>7. Cardinality(S) = Cardinality(1 .. Len(s))
  BY <1>2, <1>6, FS_Bijection
<1> QED BY <1>2, <1>7

(* A step in which nobody's status or answer changes.                       *)
LEMMA NothingShown ==
  ASSUME UNCHANGED <<raw, req, must>>,
         \A p \in Queries : Status(p)' = Status(p) /\ Shown(p)' = Shown(p)
  PROVE  UNCHANGED Service!svcVars
<1>1. [p \in Queries |-> Status(p)]' = [p \in Queries |-> Status(p)]
  OBVIOUS
<1>2. [p \in Queries |-> Shown(p)]' = [p \in Queries |-> Shown(p)]
  OBVIOUS
<1> QED BY <1>1, <1>2 DEF Service!svcVars, Status, Shown

(* The step with which search q finishes is the Answer step: what it found  *)
(* matches what is stored, and is all of the floor or as much as was asked. *)
LEMMA FinishAnswers ==
  ASSUME TypeOK', MatchInv', UNCHANGED <<raw, req, must>>,
         NEW q \in Queries, pc[q] \in {"hot", "scan"}, pc'[q] = "done",
         \A p \in Queries \ {q} : pc'[p] = pc[p] /\ results'[p] = results[p]
  PROVE  Service!Answer(q)
<1> DEFINE S == ResultIDs(q)'
<1>1. SearchInv(q)' /\ ResultsMatch(q)' /\ req'[q] \in Requests
  BY DEF MatchInv, QueryInv, SearchInv, Grounded
<1>2. results'[q] \in Seq(Result) /\ Len(results'[q]) \in Nat /\ req'[q].limit \in Nat
  BY <1>1 DEF TypeOK, Requests
<1>3. Cardinality(S) = Len(results'[q])
  BY <1>1, <1>2, AnswerSize DEF SearchInv, Distinct, ResultIDs
<1>4. S \in SUBSET Service!Matching(req[q])
  <2>1. ASSUME NEW i \in 1 .. Len(results'[q])
        PROVE  results'[q][i].id \in Service!Matching(req[q])
    <3>1. results'[q][i] \in Result
      BY <1>2
    <3>2. results'[q][i].id \in RecordID /\ results'[q][i].log \in Logs
      BY <3>1 DEF Result
    <3>3. raw[results'[q][i].id] = results'[q][i].log /\ InWindow(req[q], results'[q][i].id)
          /\ req[q].term \in TokensOf[results'[q][i].log]
      BY <1>1 DEF ResultsMatch, InWindow
    <3> QED BY <3>2, <3>3, FlushLoopAssumption
            DEF Service!Matching, Service!RecordID, RecordID, InWindow
  <2> QED BY <2>1 DEF ResultIDs
<1>5. Cardinality(S) <= req[q].limit
  BY <1>1, <1>2, <1>3 DEF SearchInv, Distinct
<1>6. must[q] \subseteq S \/ Cardinality(S) = req[q].limit
  BY <1>1, <1>2, <1>3, <1>5 DEF SearchInv, MustAhead, Full
<1>7. [p \in Queries |-> Shown(p)]' = [[p \in Queries |-> Shown(p)] EXCEPT ![q] = S]
  BY DEF Shown, ResultIDs
<1>8. [p \in Queries |-> Status(p)]' = [[p \in Queries |-> Status(p)] EXCEPT ![q] = "done"]
  BY DEF Status
<1>9. [p \in Queries |-> Status(p)][q] = "open"
  BY DEF Status
<1> QED BY <1>4, <1>5, <1>6, <1>7, <1>8, <1>9, SameCardinality DEF Service!Answer, Status, Shown

(* A flush shows as a commit, or not at all.                                *)
LEMMA LoopStepCommits ==
  ASSUME UniqueKeys, MatchInv, MatchInv', LoopStep, UNCHANGED queryVars
  PROVE  Service!Commit
<1>1. raw' \in [Service!RecordID -> Logs \cup {NoLog}]
  BY DEF MatchInv, IndexInv, LoopInv, LoopTypeOK, RecordID, Service!RecordID
<1>2. \A id \in Service!RecordID : raw[id] # NoLog => raw'[id] = raw[id]
  BY LoopStepKeepsSeen DEF MatchInv, IndexInv, RecordID, Service!RecordID
<1>3. UNCHANGED <<pc, req, must, results>>
  BY DEF queryVars
<1>4. \A p \in Queries : Status(p)' = Status(p) /\ Shown(p)' = Shown(p)
  BY <1>3 DEF Status, Shown, ResultIDs
<1>5. [p \in Queries |-> Status(p)]' = [p \in Queries |-> Status(p)]
  BY <1>4
<1>6. [p \in Queries |-> Shown(p)]' = [p \in Queries |-> Shown(p)]
  BY <1>4
<1> QED BY <1>1, <1>2, <1>3, <1>5, <1>6 DEF Service!Commit, Status, Shown

LEMMA CrashRestarts == EngineCrash => Service!Restart
<1> SUFFICES ASSUME EngineCrash
             PROVE  Service!Restart
  OBVIOUS
<1>1. [p \in Queries |-> Status(p)]' = [p \in Queries |-> "idle"]
  BY DEF EngineCrash, Status
<1>2. [p \in Queries |-> Shown(p)]' = [p \in Queries |-> {}]
  BY DEF EngineCrash, Shown
<1> QED BY <1>1, <1>2 DEF Service!Restart, EngineCrash, Crash, Status, Shown

(* What the index holds when a search begins is what the store holds.       *)
LEMMA BeginAsks ==
  ASSUME UniqueKeys, MatchInv, NEW q \in Queries, NEW t \in Terms, NEW s \in Stamps,
         NEW e \in Stamps, NEW lim \in Limits, Begin(q, t, s, e, lim)
  PROVE  Service!Ask(q, [term |-> t, start |-> s, end |-> e, limit |-> EffectiveLimit(lim)])
<1> DEFINE r == [term |-> t, start |-> s, end |-> e, limit |-> EffectiveLimit(lim)]
<1>t. TypeOK /\ IndexInv
  BY DEF MatchInv, QueryInv
<1>1. {id \in Indexed(t) : InWindow(r, id)} = Service!Matching(r)
  <2>1. \A id \in RecordID :
          <<t, id>> \in index <=> raw[id] # NoLog /\ t \in TokensOf[raw[id]]
    BY <1>t DEF IndexInv, KeysExact
  <2> QED BY <2>1 DEF Indexed, InWindow, Service!Matching, Service!RecordID, RecordID
<1>2. /\ pc[q] = "idle" /\ pc' = [pc EXCEPT ![q] = "hot"] /\ req' = [req EXCEPT ![q] = r]
      /\ must' = [must EXCEPT ![q] = Service!Matching(r)]
      /\ raw' = raw /\ results' = results
  BY <1>1 DEF Begin, loopVars
<1>3. /\ [p \in Queries |-> Status(p)][q] = "idle"
      /\ [p \in Queries |-> Status(p)]' = [[p \in Queries |-> Status(p)] EXCEPT ![q] = "open"]
  BY <1>t, <1>2 DEF TypeOK, Status
<1>4. \A p \in Queries : Shown(p)' = Shown(p)
  BY <1>t, <1>2 DEF TypeOK, Shown, ResultIDs
<1>5. [p \in Queries |-> Shown(p)]' = [p \in Queries |-> Shown(p)]
  BY <1>4
<1> QED BY <1>2, <1>3, <1>5 DEF Service!Ask, Status, Shown

LEMMA RespondTakes ==
  ASSUME TypeOK, NEW q \in Queries, Respond(q)
  PROVE  Service!Take(q)
<1>1. /\ pc[q] = "done" /\ pc' = [pc EXCEPT ![q] = "idle"]
      /\ req' = [req EXCEPT ![q] = NoRequest] /\ must' = [must EXCEPT ![q] = {}]
      /\ raw' = raw /\ results' = [results EXCEPT ![q] = << >>]
  BY DEF Respond, Forget, loopVars
<1>2. /\ [p \in Queries |-> Status(p)][q] = "done"
      /\ [p \in Queries |-> Status(p)]' = [[p \in Queries |-> Status(p)] EXCEPT ![q] = "idle"]
  BY <1>1 DEF TypeOK, Status
<1>3. Shown(q)' = {} /\ \A p \in Queries \ {q} : Shown(p)' = Shown(p)
  BY <1>1 DEF TypeOK, Shown, ResultIDs
<1>4. [p \in Queries |-> Shown(p)]' = [[p \in Queries |-> Shown(p)] EXCEPT ![q] = {}]
  BY <1>3
<1> QED BY <1>1, <1>2, <1>4 DEF Service!Take, Status, Shown

(* A step inside a search shows only when it is the last one.               *)
LEMMA SearchStepAnswers ==
  ASSUME MatchInv, MatchInv', NEW q \in Queries, SearchStep(q)
  PROVE  Service!Answer(q) \/ UNCHANGED Service!svcVars
<1>t. TypeOK /\ TypeOK'
  BY DEF MatchInv, QueryInv
<1>1. /\ UNCHANGED <<raw, req, must>>
      /\ pc[q] \in {"hot", "scan"} /\ pc'[q] \in {"hot", "scan", "done"}
      /\ \A p \in Queries \ {q} : pc'[p] = pc[p] /\ results'[p] = results[p]
  <2>1. CASE FetchHit(q)
    BY <1>t, <2>1 DEF FetchHit, FetchLog, AfterFetch, TypeOK, loopVars
  <2>2. CASE OpenIterator(q) \/ ScanEnd(q)
    BY <1>t, <2>2 DEF OpenIterator, ScanEnd, TypeOK, loopVars
  <2>3. CASE ScanNext(q)
    BY <1>t, <2>3 DEF ScanNext, FetchLog, AfterFetch, SkipEarly, StopLate, FetchKey, TypeOK, loopVars
  <2> QED BY <2>1, <2>2, <2>3 DEF SearchStep
<1>2. CASE pc'[q] = "done"
  BY <1>t, <1>1, <1>2, FinishAnswers
<1>3. CASE pc'[q] # "done"
  <2>1. \A p \in Queries : Status(p)' = Status(p) /\ Shown(p)' = Shown(p)
    BY <1>1, <1>3 DEF Status, Shown, ResultIDs
  <2> QED BY <1>1, <2>1, NothingShown
<1> QED BY <1>2, <1>3

LEMMA EngineInitServes == Init => Service!SvcInit
BY DEF Init, LoopInit, QueryInit, Service!SvcInit, Service!RecordID, RecordID

LEMMA EngineStepServes ==
  ASSUME UniqueKeys, MatchInv, MatchInv', [Next]_vars
  PROVE  [Service!SvcNext]_(Service!svcVars)
<1>1. CASE LoopStep /\ UNCHANGED queryVars
  BY <1>1, LoopStepCommits DEF Service!SvcNext
<1>2. CASE EngineCrash
  BY <1>2, CrashRestarts DEF Service!SvcNext
<1>3. ASSUME NEW q \in Queries, NEW t \in Terms, NEW s \in Stamps, NEW e \in Stamps,
             NEW lim \in Limits, Begin(q, t, s, e, lim)
      PROVE  Service!SvcNext
  <2>1. EffectiveLimit(lim) \in Service!EffectiveLimits
    BY DEF EffectiveLimit, Service!EffectiveLimits
  <2> QED BY <1>3, <2>1, BeginAsks DEF Service!SvcNext
<1>4. ASSUME NEW q \in Queries, SearchStep(q) \/ Respond(q)
      PROVE  [Service!SvcNext]_(Service!svcVars)
  <2>1. TypeOK
    BY DEF MatchInv, QueryInv
  <2> QED BY <1>4, <2>1, SearchStepAnswers, RespondTakes DEF Service!SvcNext
<1>5. CASE UNCHANGED vars
  <2>1. UNCHANGED <<raw, req, must, pc, results>>
    BY <1>5 DEF vars, loopVars, queryVars
  <2>2. \A p \in Queries : Status(p)' = Status(p) /\ Shown(p)' = Shown(p)
    BY <2>1 DEF Status, Shown, ResultIDs
  <2> QED BY <2>1, <2>2, NothingShown
<1> QED BY <1>1, <1>2, <1>3, <1>4, <1>5 DEF Next

(* The engine, with its two tiers, its batch and a search's many steps, is  *)
(* the service that commits batches at once and answers a search at once,   *)
(* as long as no two lines get the same key.                                *)
THEOREM EngineServes == ASSUME UniqueKeys PROVE Spec => ImplementsLogService
<1>1. MatchInv /\ MatchInv' /\ [Next]_vars => [Service!SvcNext]_(Service!svcVars)
  BY EngineStepServes
<1> QED BY EngineInitServes, <1>1, MatchInvInit, MatchInvNext, PTL
        DEF Spec, ImplementsLogService, Service!SvcSpec

=============================================================================
