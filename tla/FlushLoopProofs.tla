-------------------------- MODULE FlushLoopProofs --------------------------
(***************************************************************************)
(* What the flush loop guarantees for every set of lines, terms, streams    *)
(* and timestamps, every batch size and every combination of faults.        *)
(***************************************************************************)
EXTENDS FlushLoop, FiniteSetTheorems, TLAPS

LEMMA EmptyBatchType == EmptyBatch \in Batches
BY DEF EmptyBatch, Batches

LEMMA PutCountType ==
  ASSUME NEW l \in Logs
  PROVE  PutCount(l) \in Nat /\ PutCount(l) > 0
<1>1. TokensOf[l] \subseteq Terms /\ IsFiniteSet(Terms)
  BY FlushLoopAssumption
<1>2. IsFiniteSet(TokensOf[l])
  BY <1>1, FS_Subset
<1>3. Cardinality(TokensOf[l]) \in Nat
  BY <1>2, FS_CardinalityType
<1> QED BY <1>3 DEF PutCount

LEMMA PutsType ==
  ASSUME NEW b \in Batches, NEW l \in Logs, NEW id \in RecordID
  PROVE  /\ Puts(b, l, id) \in Batches
         /\ Puts(b, l, id).rec = [b.rec EXCEPT ![id] = l]
         /\ Puts(b, l, id).keys = b.keys \cup (TokensOf[l] \X {id})
<1>1. TokensOf[l] \subseteq Terms
  BY FlushLoopAssumption
<1> QED BY <1>1 DEF Puts, Batches

(* The three outcomes of the flush closure: nothing to do, written, failed. *)
LEMMA FlushCases ==
  ASSUME LoopTypeOK, NEW b \in Batches, NEW n \in Nat, Flush(b, n)
  PROVE  /\ batch' \in Batches /\ batchSize' \in Nat
         /\ raw' \in [RecordID -> Logs \cup {NoLog}]
         /\ index' \subseteq Terms \X RecordID
         /\ lost' \subseteq Logs
         /\ lost \subseteq lost'
<1>1. CASE n = 0 /\ batch' = b /\ batchSize' = n /\ UNCHANGED <<raw, index, lost>>
  BY <1>1 DEF LoopTypeOK
<1>2. CASE WriteBatch(b) /\ batch' = EmptyBatch /\ batchSize' = 0 /\ lost' = lost
  BY <1>2, EmptyBatchType DEF LoopTypeOK, WriteBatch, Batches
<1>3. CASE /\ batch' = EmptyBatch /\ batchSize' = 0
           /\ lost' = lost \cup LinesIn(b) /\ UNCHANGED <<raw, index>>
  BY <1>3, EmptyBatchType DEF LoopTypeOK, LinesIn
<1> QED BY <1>1, <1>2, <1>3 DEF Flush

LEMMA RegisterType ==
  ASSUME LoopTypeOK, NEW l \in Logs, NEW id \in RecordID, Register(l, id)
  PROVE  postings' \in [Terms -> Seq(RecordID)]
<1>1. \A t \in Terms : postings[t] \in Seq(RecordID) /\ Append(postings[t], id) \in Seq(RecordID)
  BY DEF LoopTypeOK
<1> QED BY <1>1 DEF Register

----------------------------------------------------------------------------
(* Type correctness *)

LEMMA LoopTypeInit == LoopInit => LoopTypeOK
BY EmptyBatchType DEF LoopInit, LoopTypeOK

LEMMA TickType == LoopTypeOK /\ Tick => LoopTypeOK'
BY FlushCases DEF Tick, LoopTypeOK

LEMMA ReceiveType ==
  ASSUME LoopTypeOK, NEW l \in Logs, NEW id \in RecordID, Receive(l, id)
  PROVE  LoopTypeOK'
<1>t. batch \in Batches /\ batchSize \in Nat
  BY DEF LoopTypeOK
<1>1. Puts(batch, l, id) \in Batches
  BY <1>t, PutsType
<1>2. batchSize + PutCount(l) \in Nat
  BY <1>t, PutCountType
<1>3. postings' \in [Terms -> Seq(RecordID)]
  BY RegisterType DEF Receive
<1>4. idOf' \in [Logs -> RecordID \cup {NoID}]
  BY DEF Receive, LoopTypeOK
<1>5. CASE /\ batch' = Puts(batch, l, id) /\ batchSize' = batchSize + PutCount(l)
           /\ UNCHANGED <<raw, index, lost>>
  BY <1>1, <1>2, <1>3, <1>4, <1>5 DEF LoopTypeOK
<1>6. CASE Flush(Puts(batch, l, id), batchSize + PutCount(l))
  BY <1>1, <1>2, <1>3, <1>4, <1>6, FlushCases DEF LoopTypeOK
<1> QED BY <1>5, <1>6 DEF Receive

LEMMA LoopTypeNext == LoopTypeOK /\ [LoopNext]_loopVars => LoopTypeOK'
<1> SUFFICES ASSUME LoopTypeOK, [LoopNext]_loopVars
             PROVE  LoopTypeOK'
  OBVIOUS
<1>1. CASE Tick
  BY <1>1, TickType
<1>2. ASSUME NEW l \in Logs, NEW id \in RecordID, Handle(l, id)
      PROVE  LoopTypeOK'
  BY <1>2, ReceiveType DEF Handle
<1>3. CASE Crash
  BY <1>3, EmptyBatchType DEF Crash, LoopTypeOK, LinesIn
<1>4. CASE UNCHANGED loopVars
  BY <1>4 DEF loopVars, LoopTypeOK
<1> QED BY <1>1, <1>2, <1>3, <1>4 DEF LoopNext, LoopStep

(* The loop's state keeps its shape: the counter never goes negative, and   *)
(* what is on disk is keyed by record IDs.                                  *)
THEOREM LoopTypeCorrect == LoopSpec => []LoopTypeOK
BY LoopTypeInit, LoopTypeNext, PTL DEF LoopSpec

----------------------------------------------------------------------------
(* The counter *)

LEMMA PutsNotEmpty ==
  ASSUME NEW b \in Batches, NEW l \in Logs, NEW id \in RecordID
  PROVE  Puts(b, l, id) # EmptyBatch
<1>1. Puts(b, l, id).rec[id] = l
  <2>1. b.rec \in [RecordID -> Logs \cup {NoLog}]
    BY DEF Batches
  <2>2. Puts(b, l, id).rec = [b.rec EXCEPT ![id] = l]
    BY DEF Puts
  <2> QED BY <2>1, <2>2
<1>2. EmptyBatch.rec[id] = NoLog
  BY DEF EmptyBatch
<1> QED BY <1>1, <1>2, FlushLoopAssumption

LEMMA CounterNext ==
  LoopTypeOK /\ CounterTracksBatch /\ [LoopNext]_loopVars => CounterTracksBatch'
<1> SUFFICES ASSUME LoopTypeOK, CounterTracksBatch, [LoopNext]_loopVars
             PROVE  CounterTracksBatch'
  OBVIOUS
<1>t. batch \in Batches /\ batchSize \in Nat
  BY DEF LoopTypeOK
<1>1. CASE Tick
  BY <1>1 DEF Tick, Flush, CounterTracksBatch
<1>2. ASSUME NEW l \in Logs, NEW id \in RecordID, Handle(l, id)
      PROVE  CounterTracksBatch'
  <2>1. Puts(batch, l, id) # EmptyBatch
    BY <1>t, PutsNotEmpty
  <2>2. batchSize + PutCount(l) # 0
    BY <1>t, PutCountType
  <2> QED BY <1>2, <2>1, <2>2 DEF Handle, Receive, Flush, CounterTracksBatch
<1>3. CASE Crash
  BY <1>3 DEF Crash, CounterTracksBatch
<1>4. CASE UNCHANGED loopVars
  BY <1>4 DEF loopVars, CounterTracksBatch
<1> QED BY <1>1, <1>2, <1>3, <1>4 DEF LoopNext, LoopStep

(* The test that lets flush() return early never skips a batch with puts in *)
(* it, nor writes an empty one.                                             *)
THEOREM CounterCorrect == LoopSpec => []CounterTracksBatch
<1>1. LoopInit => CounterTracksBatch
  BY DEF LoopInit, CounterTracksBatch
<1> QED BY <1>1, CounterNext, LoopTypeCorrect, PTL DEF LoopSpec

----------------------------------------------------------------------------
(* Accounting.  The invariant says where a line may be found: only under    *)
(* the key it was handed over with.  A key that was used has a record, or a *)
(* line that was lost with it; if keys are unique, that is the line itself. *)

KeysUnique ==
  \A k, l \in Logs : idOf[k] # NoID /\ idOf[k] = idOf[l] => k = l

UnderOwnKey ==
  \A id \in RecordID :
    /\ batch.rec[id] # NoLog => idOf[batch.rec[id]] = id
    /\ raw[id] # NoLog => idOf[raw[id]] = id

(* Index keys travel with their record.                                     *)
KeysBacked ==
  /\ \A k \in batch.keys : batch.rec[k[2]] # NoLog
  /\ \A k \in index : raw[k[2]] # NoLog

Kept ==
  \A l \in Logs : idOf[l] # NoID =>
    \/ batch.rec[idOf[l]] # NoLog
    \/ raw[idOf[l]] # NoLog
    \/ \E k \in lost : idOf[k] = idOf[l]

LoopInv ==
  /\ LoopTypeOK
  /\ KeysBacked
  /\ UnderOwnKey
  /\ Kept
  /\ UniqueKeys => KeysUnique

LEMMA KeptAccounts == LoopInv => Accounted
<1> SUFFICES ASSUME LoopInv, UniqueKeys, NEW l \in Logs, idOf[l] # NoID
             PROVE  l \in lost \/ batch.rec[idOf[l]] = l \/ raw[idOf[l]] = l
  BY DEF Accounted
<1>1. /\ idOf[l] \in RecordID /\ lost \subseteq Logs
      /\ batch.rec \in [RecordID -> Logs \cup {NoLog}] /\ raw \in [RecordID -> Logs \cup {NoLog}]
  BY DEF LoopInv, LoopTypeOK, Batches
<1>2. \A k \in Logs : idOf[k] = idOf[l] => k = l
  BY DEF LoopInv, KeysUnique
<1> QED BY <1>1, <1>2 DEF LoopInv, UnderOwnKey, Kept

LEMMA LoopInvInit == LoopInit => LoopInv
<1> SUFFICES ASSUME LoopInit
             PROVE  LoopInv
  OBVIOUS
<1>1. LoopTypeOK
  BY LoopTypeInit
<1>2. KeysBacked
  BY DEF LoopInit, EmptyBatch, KeysBacked
<1>3. KeysUnique /\ UnderOwnKey /\ Kept
  BY DEF LoopInit, EmptyBatch, KeysUnique, UnderOwnKey, Kept
<1> QED BY <1>1, <1>2, <1>3 DEF LoopInv

(* What holds of a batch b that is about to be flushed while idOf is f.     *)
Flushable(b, f) ==
  /\ \A k \in b.keys : b.rec[k[2]] # NoLog
  /\ \A id \in RecordID : /\ b.rec[id] # NoLog => f[b.rec[id]] = id
                          /\ raw[id] # NoLog => f[raw[id]] = id
  /\ \A l \in Logs : f[l] # NoID =>
       b.rec[f[l]] # NoLog \/ raw[f[l]] # NoLog \/ \E k \in lost : f[k] = f[l]

LEMMA FlushKeepsInv ==
  ASSUME LoopTypeOK, LoopTypeOK', KeysBacked,
         NEW b \in Batches, NEW n \in Nat, Flush(b, n), Flushable(b, idOf')
  PROVE  KeysBacked' /\ UnderOwnKey' /\ Kept'
<1>b. b.rec \in [RecordID -> Logs \cup {NoLog}] /\ b.keys \subseteq Terms \X RecordID
  BY DEF Batches
<1>t. /\ raw \in [RecordID -> Logs \cup {NoLog}]
      /\ index \subseteq Terms \X RecordID
      /\ idOf' \in [Logs -> RecordID \cup {NoID}]
  BY DEF LoopTypeOK
<1>e. EmptyBatch.keys = {} /\ \A id \in RecordID : EmptyBatch.rec[id] = NoLog
  BY DEF EmptyBatch
<1>1. CASE batch' = b /\ UNCHANGED <<raw, index, lost>>
  BY <1>1 DEF Flushable, KeysBacked, UnderOwnKey, Kept
<1>2. CASE WriteBatch(b) /\ batch' = EmptyBatch /\ lost' = lost
  <2>1. \A id \in RecordID : raw'[id] = IF b.rec[id] = NoLog THEN raw[id] ELSE b.rec[id]
    BY <1>2 DEF WriteBatch
  <2>2. KeysBacked'
    <3>1. \A k \in b.keys : k[2] \in RecordID /\ b.rec[k[2]] # NoLog
      BY <1>b DEF Flushable
    <3>2. \A k \in index : k[2] \in RecordID /\ raw[k[2]] # NoLog
      BY <1>t DEF KeysBacked
    <3>3. index' = index \cup b.keys
      BY <1>2 DEF WriteBatch
    <3> QED BY <1>2, <1>e, <2>1, <3>1, <3>2, <3>3 DEF KeysBacked
  <2>3. UnderOwnKey'
    BY <1>2, <1>e, <2>1 DEF Flushable, UnderOwnKey
  <2>4. Kept'
    BY <1>2, <1>t, <2>1 DEF Flushable, Kept
  <2> QED BY <2>2, <2>3, <2>4
<1>3. CASE /\ batch' = EmptyBatch /\ lost' = lost \cup LinesIn(b)
           /\ UNCHANGED <<raw, index>>
  <2>1. KeysBacked' /\ UnderOwnKey'
    BY <1>3, <1>e DEF Flushable, KeysBacked, UnderOwnKey
  <2>2. \A id \in RecordID : b.rec[id] # NoLog => b.rec[id] \in LinesIn(b)
    BY <1>b DEF LinesIn
  <2>3. ASSUME NEW l \in Logs, idOf'[l] # NoID, b.rec[idOf'[l]] # NoLog
        PROVE  \E k \in lost' : idOf'[k] = idOf'[l]
    BY <1>3, <1>t, <2>2, <2>3 DEF Flushable
  <2>4. Kept'
    BY <1>3, <2>3 DEF Flushable, Kept
  <2> QED BY <2>1, <2>4
<1> QED BY <1>1, <1>2, <1>3 DEF Flush

LEMMA LoopInvNext == LoopInv /\ [LoopNext]_loopVars => LoopInv'
<1> SUFFICES ASSUME LoopInv, [LoopNext]_loopVars
             PROVE  LoopInv'
  OBVIOUS
<1>t. /\ LoopTypeOK /\ LoopTypeOK' /\ KeysBacked /\ UnderOwnKey /\ Kept
      /\ UniqueKeys => KeysUnique
  BY LoopTypeNext DEF LoopInv
<1>n. NoLog \notin Logs /\ NoID \notin RecordID
  BY FlushLoopAssumption
<1>b. /\ batch \in Batches /\ batchSize \in Nat
      /\ batch.rec \in [RecordID -> Logs \cup {NoLog}]
      /\ batch.keys \subseteq Terms \X RecordID
      /\ raw \in [RecordID -> Logs \cup {NoLog}]
      /\ idOf \in [Logs -> RecordID \cup {NoID}]
      /\ lost \subseteq Logs
  BY <1>t DEF LoopTypeOK, Batches
<1>1. CASE Tick
  <2>1. Flush(batch, batchSize) /\ idOf' = idOf
    BY <1>1 DEF Tick
  <2>2. Flushable(batch, idOf')
    BY <1>t, <2>1 DEF Flushable, KeysBacked, UnderOwnKey, Kept
  <2>3. UniqueKeys => KeysUnique'
    BY <1>t, <2>1 DEF KeysUnique
  <2> QED BY <1>t, <1>b, <2>1, <2>2, <2>3, FlushKeepsInv DEF LoopInv
<1>2. ASSUME NEW l \in Logs, NEW id \in RecordID, Handle(l, id)
      PROVE  LoopInv'
  <2> DEFINE b == Puts(batch, l, id)
  <2>1. /\ idOf[l] = NoID
        /\ idOf' = [idOf EXCEPT ![l] = id]
        /\ UniqueKeys => \A k \in Logs : idOf[k] # id
    BY <1>2 DEF Handle, Receive, KeyAllowed
  <2>2. /\ b \in Batches
        /\ b.rec = [batch.rec EXCEPT ![id] = l]
        /\ b.keys = batch.keys \cup (TokensOf[l] \X {id})
    BY <1>b, PutsType
  <2>3. \A k \in b.keys : b.rec[k[2]] # NoLog
    BY <1>t, <1>b, <1>n, <2>2 DEF KeysBacked
  <2>4. ASSUME NEW i \in RecordID
        PROVE  /\ b.rec[i] # NoLog => idOf'[b.rec[i]] = i
               /\ raw[i] # NoLog => idOf'[raw[i]] = i
    <3>1. raw[i] # NoLog => raw[i] \in Logs /\ idOf[raw[i]] = i
      BY <1>t, <1>b DEF UnderOwnKey
    <3>2. batch.rec[i] # NoLog => batch.rec[i] \in Logs /\ idOf[batch.rec[i]] = i
      BY <1>t, <1>b DEF UnderOwnKey
    <3>3. raw[i] # NoLog => idOf'[raw[i]] = i
      BY <1>b, <1>n, <2>1, <3>1
    <3>4. b.rec[i] # NoLog => idOf'[b.rec[i]] = i
      BY <1>b, <1>n, <2>1, <2>2, <3>2
    <3> QED BY <3>3, <3>4
  <2>5. ASSUME NEW k \in Logs, idOf'[k] # NoID
        PROVE  \/ b.rec[idOf'[k]] # NoLog \/ raw[idOf'[k]] # NoLog
               \/ \E m \in lost : idOf'[m] = idOf'[k]
    <3>1. CASE idOf'[k] = id
      BY <1>b, <1>n, <2>2, <3>1
    <3>2. CASE idOf'[k] # id
      <4>1. idOf'[k] = idOf[k] /\ idOf[k] \in RecordID
        BY <1>b, <2>1, <2>5, <3>2
      <4>2. b.rec[idOf[k]] = batch.rec[idOf[k]]
        BY <1>b, <2>2, <3>2, <4>1
      <4>3. \A m \in lost : idOf[m] = idOf[k] => idOf'[m] = idOf[k]
        BY <1>b, <1>n, <2>1, <4>1
      <4> QED BY <1>t, <1>n, <4>1, <4>2, <4>3 DEF Kept
    <3> QED BY <3>1, <3>2
  <2>6. Flushable(b, idOf')
    BY <2>3, <2>4, <2>5 DEF Flushable
  <2>7. UniqueKeys => KeysUnique'
    BY <1>t, <1>b, <2>1 DEF KeysUnique
  <2>8. CASE batch' = b /\ UNCHANGED <<raw, index, lost>>
    BY <1>t, <2>8, <2>3, <2>4, <2>5, <2>7 DEF LoopInv, KeysBacked, UnderOwnKey, Kept
  <2>9. CASE Flush(b, batchSize + PutCount(l))
    <3>1. batchSize + PutCount(l) \in Nat
      BY <1>b, PutCountType
    <3> QED BY <1>t, <2>2, <2>6, <2>7, <2>9, <3>1, FlushKeepsInv DEF LoopInv
  <2> QED BY <1>2, <2>8, <2>9 DEF Handle, Receive
<1>3. CASE Crash
  <2>1. /\ batch' = EmptyBatch /\ lost' = lost \cup LinesIn(batch)
        /\ UNCHANGED <<raw, index, idOf>>
    BY <1>3 DEF Crash
  <2>2. EmptyBatch.keys = {} /\ \A id \in RecordID : EmptyBatch.rec[id] = NoLog
    BY DEF EmptyBatch
  <2>3. ASSUME NEW l \in Logs, idOf[l] # NoID, batch.rec[idOf[l]] # NoLog
        PROVE  \E k \in lost' : idOf[k] = idOf[l]
    <3>1. batch.rec[idOf[l]] \in LinesIn(batch) /\ idOf[batch.rec[idOf[l]]] = idOf[l]
      BY <1>t, <1>b, <2>3 DEF LinesIn, UnderOwnKey
    <3> QED BY <2>1, <3>1
  <2>4. KeysBacked' /\ UnderOwnKey'
    BY <1>t, <2>1, <2>2 DEF KeysBacked, UnderOwnKey
  <2>5. Kept'
    BY <1>t, <2>1, <2>3 DEF Kept
  <2>6. UniqueKeys => KeysUnique'
    BY <1>t, <2>1 DEF KeysUnique
  <2> QED BY <1>t, <2>4, <2>5, <2>6 DEF LoopInv
<1>4. CASE UNCHANGED loopVars
  BY <1>4, <1>t DEF loopVars, LoopInv, KeysBacked, KeysUnique, UnderOwnKey, Kept
<1> QED BY <1>1, <1>2, <1>3, <1>4 DEF LoopNext, LoopStep

(* The inductive invariant of the select loop: the shape of its state, keys  *)
(* that always come with their record, records only under the ID their line *)
(* was handed over with, and no key that was used without a record or a     *)
(* line lost under it.                                                      *)
THEOREM LoopInvariant == LoopSpec => []LoopInv
BY LoopInvInit, LoopInvNext, PTL DEF LoopSpec

(* With unique keys, no line that was handed to the loop is ever forgotten: *)
(* it is pending, stored, or was in a batch that failed or died.            *)
THEOREM AccountedCorrect == LoopSpec => []Accounted
BY KeptAccounts, LoopInvariant, PTL

(* Every index key on disk leads to a record, for shared keys too.          *)
THEOREM IndexLeadsToRecord == LoopSpec => []NoDanglingIndex
<1>1. LoopInv => NoDanglingIndex
  BY DEF LoopInv, KeysBacked, NoDanglingIndex
<1> QED BY <1>1, LoopInvariant, PTL

LEMMA FlushKeepsRecords ==
  ASSUME NEW b, NEW n, Flush(b, n), LoopTypeOK, NEW id \in RecordID, raw[id] # NoLog
  PROVE  raw'[id] # NoLog
BY DEF Flush, WriteBatch, LoopTypeOK

LEMMA StoredStays ==
  ASSUME LoopInv, LoopInv', [LoopNext]_loopVars, UniqueKeys,
         NEW id \in RecordID, raw[id] # NoLog
  PROVE  raw'[id] = raw[id]
<1>1. raw[id] \in Logs /\ idOf[raw[id]] = id
  BY DEF LoopInv, LoopTypeOK, UnderOwnKey
<1>2. raw'[id] # NoLog /\ idOf'[raw[id]] = id
  <2>1. CASE Tick
    BY <2>1, <1>1, FlushKeepsRecords DEF Tick, LoopInv
  <2>2. ASSUME NEW l \in Logs, NEW i \in RecordID, Handle(l, i)
        PROVE  raw'[id] # NoLog /\ idOf'[raw[id]] = id
    <3>1. idOf[l] = NoID /\ idOf' = [idOf EXCEPT ![l] = i] /\ idOf \in [Logs -> RecordID \cup {NoID}]
      BY <2>2 DEF Handle, Receive, LoopInv, LoopTypeOK
    <3>2. idOf'[raw[id]] = id
      BY <1>1, <3>1, FlushLoopAssumption
    <3>3. raw'[id] # NoLog
      BY <2>2, FlushKeepsRecords DEF Handle, Receive, LoopInv
    <3> QED BY <3>2, <3>3
  <2>3. CASE Crash \/ UNCHANGED loopVars
    BY <2>3, <1>1 DEF Crash, loopVars
  <2> QED BY <2>1, <2>2, <2>3 DEF LoopNext, LoopStep
<1>3. raw'[id] \in Logs /\ idOf'[raw'[id]] = id
  BY <1>2 DEF LoopInv, LoopTypeOK, UnderOwnKey
<1> QED BY <1>1, <1>2, <1>3, FlushLoopAssumption DEF LoopInv, KeysUnique

(* With unique keys, what is stored stays stored as it is.                  *)
THEOREM StoredForeverCorrect == LoopSpec => StoredForever
<1>1. LoopInv /\ LoopInv' /\ [LoopNext]_loopVars =>
        [UniqueKeys => \A id \in RecordID : raw[id] # NoLog => raw'[id] = raw[id]]_loopVars
  BY StoredStays
<1> QED BY <1>1, LoopInvariant, PTL DEF LoopSpec, StoredForever

----------------------------------------------------------------------------
(* The index and the postings.  In addition to LoopInv: the keys of a batch  *)
(* are exactly those of its records, as those on disk are.                  *)

KeysExact(rec, keys) ==
  \A t \in Terms, id \in RecordID :
    <<t, id>> \in keys <=> rec[id] # NoLog /\ t \in TokensOf[rec[id]]

(* A posting of term t under id has its line.                               *)
Backed(t, id) ==
  \E l \in Logs : /\ idOf[l] = id
                  /\ t \in TokensOf[l]
                  /\ batch.rec[id] = l \/ raw[id] = l \/ l \in lost

IndexInv ==
  /\ LoopInv
  /\ UniqueKeys => /\ KeysExact(batch.rec, batch.keys)
                   /\ KeysExact(raw, index)
                   /\ PostingsBacked

LEMMA IndexInvInit == LoopInit => IndexInv
<1> SUFFICES ASSUME LoopInit
             PROVE  IndexInv
  OBVIOUS
<1>1. KeysExact(batch.rec, batch.keys) /\ KeysExact(raw, index)
  BY DEF LoopInit, EmptyBatch, KeysExact
<1>2. PostingsBacked
  BY DEF LoopInit, PostingsBacked, Posted
<1> QED BY <1>1, <1>2, LoopInvInit DEF IndexInv

(* A batch about to be written agrees with the disk where both have a       *)
(* record: with unique keys it can only be the same line.                   *)
Agrees(rec) ==
  \A id \in RecordID : rec[id] # NoLog /\ raw[id] # NoLog => rec[id] = raw[id]

(* A flush writes all of the batch or drops all of it: keys and records stay *)
(* in step, and no line leaves both tiers unless it is counted as lost.     *)
LEMMA FlushKeepsExact ==
  ASSUME LoopTypeOK, NEW b \in Batches, NEW n, Flush(b, n), Agrees(b.rec),
         KeysExact(b.rec, b.keys), KeysExact(raw, index)
  PROVE  /\ KeysExact(batch'.rec, batch'.keys)
         /\ KeysExact(raw', index')
         /\ \A id \in RecordID, l \in Logs :
              b.rec[id] = l \/ raw[id] = l \/ l \in lost
                => batch'.rec[id] = l \/ raw'[id] = l \/ l \in lost'
<1>b. b.rec \in [RecordID -> Logs \cup {NoLog}] /\ raw \in [RecordID -> Logs \cup {NoLog}]
  BY DEF Batches, LoopTypeOK
<1>e. KeysExact(EmptyBatch.rec, EmptyBatch.keys)
  BY DEF EmptyBatch, KeysExact
<1>1. CASE batch' = b /\ UNCHANGED <<raw, index, lost>>
  BY <1>1
<1>2. CASE WriteBatch(b) /\ batch' = EmptyBatch /\ lost' = lost
  <2>1. \A id \in RecordID : raw'[id] = IF b.rec[id] = NoLog THEN raw[id] ELSE b.rec[id]
    BY <1>2 DEF WriteBatch
  <2>2. \A id \in RecordID : /\ b.rec[id] # NoLog => raw'[id] = b.rec[id]
                             /\ raw[id] # NoLog => raw'[id] = raw[id]
                             /\ raw'[id] # NoLog => raw'[id] = b.rec[id] \/ raw'[id] = raw[id]
    BY <2>1 DEF Agrees
  <2>3. index' = index \cup b.keys
    BY <1>2 DEF WriteBatch
  <2>4. ASSUME NEW t \in Terms, NEW id \in RecordID
        PROVE  <<t, id>> \in index' <=> raw'[id] # NoLog /\ t \in TokensOf[raw'[id]]
    <3>1. <<t, id>> \in index <=> raw[id] # NoLog /\ t \in TokensOf[raw[id]]
      BY DEF KeysExact
    <3>2. <<t, id>> \in b.keys <=> b.rec[id] # NoLog /\ t \in TokensOf[b.rec[id]]
      BY DEF KeysExact
    <3> QED BY <2>1, <2>2, <2>3, <3>1, <3>2
  <2>5. KeysExact(raw', index')
    BY <2>4 DEF KeysExact
  <2> QED BY <1>2, <1>e, <2>2, <2>5, FlushLoopAssumption
<1>3. CASE /\ batch' = EmptyBatch /\ lost' = lost \cup LinesIn(b)
           /\ UNCHANGED <<raw, index>>
  <2>1. \A id \in RecordID, l \in Logs : b.rec[id] = l => l \in LinesIn(b)
    BY DEF LinesIn
  <2> QED BY <1>3, <1>e, <2>1
<1> QED BY <1>1, <1>2, <1>3 DEF Flush

LEMMA IndexInvNext == IndexInv /\ [LoopNext]_loopVars => IndexInv'
<1> SUFFICES ASSUME IndexInv, [LoopNext]_loopVars, UniqueKeys
             PROVE  /\ KeysExact(batch.rec, batch.keys)'
                    /\ KeysExact(raw, index)'
                    /\ \A t \in Terms, id \in RecordID : Posted(t, id)' => Backed(t, id)'
  BY LoopInvNext DEF IndexInv, PostingsBacked, Backed
<1>t. LoopTypeOK /\ KeysUnique /\ UnderOwnKey
  BY DEF IndexInv, LoopInv
<1>x. /\ KeysExact(batch.rec, batch.keys) /\ KeysExact(raw, index)
      /\ \A t \in Terms, id \in RecordID : Posted(t, id) => Backed(t, id)
  BY DEF IndexInv, PostingsBacked, Backed
<1>n. NoLog \notin Logs /\ NoID \notin RecordID
  BY FlushLoopAssumption
<1>b. /\ batch \in Batches
      /\ batch.rec \in [RecordID -> Logs \cup {NoLog}]
      /\ batch.keys \subseteq Terms \X RecordID
      /\ raw \in [RecordID -> Logs \cup {NoLog}]
      /\ idOf \in [Logs -> RecordID \cup {NoID}]
      /\ postings \in [Terms -> Seq(RecordID)]
  BY <1>t DEF LoopTypeOK, Batches
<1>a. Agrees(batch.rec)
  BY <1>t, <1>b, <1>n DEF Agrees, KeysUnique, UnderOwnKey
<1>1. CASE Tick
  <2>1. Flush(batch, batchSize) /\ UNCHANGED <<postings, idOf>>
    BY <1>1 DEF Tick
  <2>2. /\ KeysExact(batch.rec, batch.keys)' /\ KeysExact(raw, index)'
        /\ \A id \in RecordID, l \in Logs :
             batch.rec[id] = l \/ raw[id] = l \/ l \in lost
               => batch'.rec[id] = l \/ raw'[id] = l \/ l \in lost'
    BY <1>t, <1>x, <1>b, <1>a, <2>1, FlushKeepsExact
  <2> QED BY <1>x, <2>1, <2>2 DEF Posted, Backed
<1>2. ASSUME NEW l \in Logs, NEW id \in RecordID, Handle(l, id)
      PROVE  /\ KeysExact(batch.rec, batch.keys)'
             /\ KeysExact(raw, index)'
             /\ \A t \in Terms, i \in RecordID : Posted(t, i)' => Backed(t, i)'
  <2> DEFINE b == Puts(batch, l, id)
  <2>1. /\ idOf[l] = NoID /\ idOf' = [idOf EXCEPT ![l] = id]
        /\ \A k \in Logs : idOf[k] # id
        /\ Register(l, id)
    BY <1>2 DEF Handle, Receive, KeyAllowed
  <2>2. /\ b \in Batches
        /\ b.rec = [batch.rec EXCEPT ![id] = l]
        /\ b.keys = batch.keys \cup (TokensOf[l] \X {id})
    BY <1>b, PutsType
  <2>3. batch.rec[id] = NoLog /\ raw[id] = NoLog
    BY <1>t, <1>b, <2>1 DEF UnderOwnKey
  <2>4. KeysExact(b.rec, b.keys)
    <3>1. ASSUME NEW t \in Terms, NEW i \in RecordID
          PROVE  <<t, i>> \in b.keys <=> b.rec[i] # NoLog /\ t \in TokensOf[b.rec[i]]
      <4>1. <<t, i>> \in batch.keys <=> batch.rec[i] # NoLog /\ t \in TokensOf[batch.rec[i]]
        BY <1>x DEF KeysExact
      <4>2. <<t, i>> \in b.keys <=> <<t, i>> \in batch.keys \/ (t \in TokensOf[l] /\ i = id)
        BY <2>2
      <4> QED BY <1>b, <1>n, <2>2, <2>3, <4>1, <4>2
    <3> QED BY <3>1 DEF KeysExact
  <2>5. Agrees(b.rec)
    BY <1>a, <1>b, <2>2, <2>3 DEF Agrees
  <2>6. /\ KeysExact(batch.rec, batch.keys)' /\ KeysExact(raw, index)'
        /\ \A i \in RecordID, k \in Logs :
             b.rec[i] = k \/ raw[i] = k \/ k \in lost
               => batch'.rec[i] = k \/ raw'[i] = k \/ k \in lost'
    <3>1. CASE batch' = b /\ UNCHANGED <<raw, index, lost>>
      BY <1>x, <2>4, <3>1
    <3>2. CASE Flush(b, batchSize + PutCount(l))
      BY <1>t, <1>x, <2>2, <2>4, <2>5, <3>2, FlushKeepsExact
    <3> QED BY <1>2, <3>1, <3>2 DEF Handle, Receive
  <2>7. ASSUME NEW t \in Terms, NEW i \in RecordID, Posted(t, i)'
        PROVE  Backed(t, i)'
    <3>1. Posted(t, i) \/ (t \in TokensOf[l] /\ i = id)
      <4>1. postings[t] \in Seq(RecordID)
        BY <1>b
      <4>2. postings'[t] = IF t \in TokensOf[l] THEN Append(postings[t], id) ELSE postings[t]
        BY <2>1 DEF Register
      <4>3. PICK j \in 1 .. Len(postings'[t]) : postings'[t][j] = i
        BY <2>7 DEF Posted
      <4> QED BY <4>1, <4>2, <4>3 DEF Posted
    <3>2. CASE t \in TokensOf[l] /\ i = id
      <4>1. b.rec[id] = l /\ idOf'[l] = id
        BY <1>b, <2>1, <2>2
      <4> QED BY <2>6, <3>2, <4>1 DEF Backed
    <3>3. CASE Posted(t, i)
      <4>1. PICK k \in Logs : /\ idOf[k] = i /\ t \in TokensOf[k]
                              /\ batch.rec[i] = k \/ raw[i] = k \/ k \in lost
        BY <1>x, <3>3 DEF Backed
      <4>2. i # id /\ k # l
        BY <1>n, <2>1, <4>1
      <4>3. idOf'[k] = i /\ b.rec[i] = batch.rec[i]
        BY <1>b, <2>1, <2>2, <4>1, <4>2
      <4> QED BY <2>6, <4>1, <4>3 DEF Backed
    <3> QED BY <3>1, <3>2, <3>3
  <2> QED BY <2>6, <2>7
<1>3. CASE Crash
  <2>1. batch' = EmptyBatch /\ postings' = [t \in Terms |-> << >>] /\ UNCHANGED <<raw, index>>
    BY <1>3 DEF Crash
  <2>2. KeysExact(EmptyBatch.rec, EmptyBatch.keys)
    BY DEF EmptyBatch, KeysExact
  <2> QED BY <1>x, <2>1, <2>2 DEF Posted
<1>4. CASE UNCHANGED loopVars
  BY <1>4, <1>x DEF loopVars, Posted, Backed
<1> QED BY <1>1, <1>2, <1>3, <1>4 DEF LoopNext, LoopStep

(* The inductive invariant behind the two tiers' agreement with the lines:  *)
(* keys travel with their records, whole batches at a time.                 *)
THEOREM IndexInvariant == LoopSpec => []IndexInv
BY IndexInvInit, IndexInvNext, PTL DEF LoopSpec

LEMMA ExactIndex == IndexInv => IndexExact
<1> SUFFICES ASSUME IndexInv, UniqueKeys
             PROVE  index = {k \in Terms \X RecordID :
                               raw[k[2]] # NoLog /\ k[1] \in TokensOf[raw[k[2]]]}
  BY DEF IndexExact
<1>1. index \subseteq Terms \X RecordID
  BY DEF IndexInv, LoopInv, LoopTypeOK
<1>2. \A t \in Terms, id \in RecordID :
        <<t, id>> \in index <=> raw[id] # NoLog /\ t \in TokensOf[raw[id]]
  BY DEF IndexInv, KeysExact
<1> QED BY <1>1, <1>2

(* With unique keys, whatever write fails and whenever the process dies, a  *)
(* term leads to exactly the stored records that contain it.                *)
THEOREM IndexExactCorrect == LoopSpec => []IndexExact
BY ExactIndex, IndexInvariant, PTL

(* With unique keys, a posting in memory always has its line, pending,      *)
(* stored, or lost to a failed write, under the ID and with the term.       *)
THEOREM PostingsBackedCorrect == LoopSpec => []PostingsBacked
<1>1. IndexInv => PostingsBacked
  BY DEF IndexInv, PostingsBacked
<1> QED BY <1>1, IndexInvariant, PTL

=============================================================================
