----------------------------- MODULE FlushLoop -----------------------------
(***************************************************************************)
(* The write side of the Chronolog engine: the select loop at the end of   *)
(* engine/cmd/server/main.go, the LevelDB batch it fills, the LevelDB       *)
(* keyspace the batch is written to, and the in-memory posting lists it     *)
(* feeds on the way.                                                        *)
(*                                                                          *)
(* A log line is a member of Logs.  What the loop receives for a line is    *)
(* an item: the line, the terms Tokenize found in it, and the record ID     *)
(* (stream, timestamp) that both its LevelDB keys carry.  Byte strings are  *)
(* abstracted: a raw key 0x01|stream|ts is the record ID, an index key      *)
(* 0x02|term|0x00|ts|stream is the pair <<term, record ID>>.                *)
(*                                                                          *)
(* The module stands alone (any item may arrive next) and is extended by    *)
(* the modules that say who sends the items and who reads the result.       *)
(***************************************************************************)
EXTENDS Integers, Sequences, FiniteSets

CONSTANTS
  Logs,          \* log lines; each is handed to the loop at most once
  Terms,         \* searchable terms
  TokensOf,      \* TokensOf[l] is the set of terms Tokenize finds in l
  Streams,       \* stream IDs (syslog facilities)
  Stamps,        \* UnixNano readings; the bound on time in the models
  MaxBatchSize,  \* puts after which the loop flushes (2500 in the code)
  UniqueKeys,    \* TRUE: no two lines ever get the same (stream, timestamp)
  Faults,        \* subset of {"write", "crash"}: what the environment may do
  NoLog,         \* LevelDB has no value under a raw key
  NoID           \* the line has not been handed to the loop

RecordID == [streamID : Streams, ts : Stamps]

ASSUME FlushLoopAssumption ==
  /\ IsFiniteSet(Terms)
  /\ TokensOf \in [Logs -> SUBSET Terms]
  /\ Streams \subseteq Nat
  /\ Stamps \subseteq Nat
  /\ MaxBatchSize \in Nat \ {0}
  /\ UniqueKeys \in BOOLEAN
  /\ NoLog \notin Logs
  /\ NoID \notin RecordID

VARIABLES
  batch,      \* the leveldb.Batch: net effect of its puts, in order
  batchSize,  \* the loop's own count of puts since the last flush
  raw,        \* LevelDB: record ID -> stored line
  index,      \* LevelDB: set of <<term, record ID>> index keys
  postings,   \* MemoryIndex.terms: term -> posting list, in arrival order
  idOf,       \* history: the record ID a line was handed over with
  lost        \* history: lines dropped by a failed write or a crash

loopVars == <<batch, batchSize, raw, index, postings, idOf, lost>>

Batches == [rec : [RecordID -> Logs \cup {NoLog}], keys : SUBSET (Terms \X RecordID)]

EmptyBatch == [rec |-> [id \in RecordID |-> NoLog], keys |-> {}]

(* The lines whose raw entry is still in batch b.                          *)
LinesIn(b) == {l \in Logs : \E id \in RecordID : b.rec[id] = l}

----------------------------------------------------------------------------

LoopInit ==
  /\ batch = EmptyBatch
  /\ batchSize = 0
  /\ raw = [id \in RecordID |-> NoLog]
  /\ index = {}
  /\ postings = [t \in Terms |-> <<>>]
  /\ idOf = [l \in Logs |-> NoID]
  /\ lost = {}

(* Mutated form: the batch replaces the records instead of adding to them.  *)
WriteBatchReplaces(b) ==
  /\ raw' = b.rec
  /\ index' = index \cup b.keys

(* Mutated form: index keys are written ahead of their records.             *)
WriteBatchKeysOnly(b) ==
  /\ index' = index \cup b.keys
  /\ UNCHANGED raw

(* DB.WriteBatch: the puts take effect all at once, later ones win.        *)
WriteBatch(b) ==
  /\ raw' = [id \in RecordID |-> IF b.rec[id] = NoLog THEN raw[id] ELSE b.rec[id]]
  /\ index' = index \cup b.keys

(* The flush closure.  It decides by the counter, not by the batch; a       *)
(* failed write is logged and the batch is reset all the same.              *)
Flush(b, n) ==
  \/ /\ n = 0
     /\ batch' = b
     /\ batchSize' = n
     /\ UNCHANGED <<raw, index, lost>>
  \/ /\ n # 0
     /\ WriteBatch(b)
     /\ batch' = EmptyBatch
     /\ batchSize' = 0
     /\ lost' = lost
  \/ /\ n # 0
     /\ "write" \in Faults
     /\ batch' = EmptyBatch
     /\ batchSize' = 0
     /\ lost' = lost \cup LinesIn(b)
     /\ UNCHANGED <<raw, index>>

(* Mutated form: a line without terms is not stored.                        *)
PutsIfTokens(b, l, id) ==
  [rec |-> IF TokensOf[l] = {} THEN b.rec ELSE [b.rec EXCEPT ![id] = l],
   keys |-> b.keys \cup (TokensOf[l] \X {id})]

(* Mutated form: one index key per line.                                    *)
PutsOneKey(b, l, id) ==
  [rec |-> [b.rec EXCEPT ![id] = l],
   keys |-> b.keys \cup ({t \in TokensOf[l] : t = CHOOSE u \in TokensOf[l] : TRUE} \X {id})]

(* batch.Put of the raw entry and of one index entry per term.              *)
Puts(b, l, id) ==
  [rec |-> [b.rec EXCEPT ![id] = l], keys |-> b.keys \cup (TokensOf[l] \X {id})]

PutCount(l) == 1 + Cardinality(TokensOf[l])

(* Mutated form: the posting is added under every term.                     *)
RegisterEverywhere(l, id) == postings' = [t \in Terms |-> Append(postings[t], id)]

(* MemoryIndex.Add, once per term of the line.                              *)
Register(l, id) ==
  postings' = [t \in Terms |-> IF t \in TokensOf[l]
                               THEN Append(postings[t], id)
                               ELSE postings[t]]

(* The clock and the facility decide the record ID; see UniqueKeys.         *)
KeyAllowed(id) == UniqueKeys => \A k \in Logs : idOf[k] # id

(* case item := <-pipe.Output(): fill the batch, register the postings in   *)
(* memory at once, flush when the batch is full.                            *)
Receive(l, id) ==
  /\ idOf' = [idOf EXCEPT ![l] = id]
  /\ Register(l, id)
  /\ \/ /\ batchSize + PutCount(l) < MaxBatchSize
        /\ batch' = Puts(batch, l, id)
        /\ batchSize' = batchSize + PutCount(l)
        /\ UNCHANGED <<raw, index, lost>>
     \/ /\ batchSize + PutCount(l) >= MaxBatchSize
        /\ Flush(Puts(batch, l, id), batchSize + PutCount(l))

(* What the loop relies on and does not check itself: an item comes once,   *)
(* and with unique keys no other one has its key.  Pipeline.tla, which      *)
(* sends the items, has to make it good.                                    *)
Handle(l, id) ==
  /\ idOf[l] = NoID
  /\ KeyAllowed(id)
  /\ Receive(l, id)

(* Mutated form: the ticker flushes full batches only.                      *)
TickIfFull ==
  /\ batchSize >= MaxBatchSize
  /\ Flush(batch, batchSize)
  /\ UNCHANGED <<postings, idOf>>

(* case <-ticker.C: the 15 ms flush.                                        *)
Tick ==
  /\ Flush(batch, batchSize)
  /\ UNCHANGED <<postings, idOf>>

(* The process dies and is started again: the batch and the memory index    *)
(* are gone, what LevelDB has accepted is still there.                      *)
Crash ==
  /\ "crash" \in Faults
  /\ batch' = EmptyBatch
  /\ batchSize' = 0
  /\ postings' = [t \in Terms |-> <<>>]
  /\ lost' = lost \cup LinesIn(batch)
  /\ UNCHANGED <<raw, index, idOf>>

LoopStep == Tick \/ \E l \in Logs, id \in RecordID : Handle(l, id)

LoopNext == LoopStep \/ Crash

LoopSpec == LoopInit /\ [][LoopNext]_loopVars /\ WF_loopVars(Tick)

----------------------------------------------------------------------------
(* Properties *)

(* Shape of the loop's state.                                               *)
LoopTypeOK ==
  /\ batch \in Batches
  /\ batchSize \in Nat
  /\ raw \in [RecordID -> Logs \cup {NoLog}]
  /\ index \in SUBSET (Terms \X RecordID)
  /\ postings \in [Terms -> Seq(RecordID)]
  /\ idOf \in [Logs -> RecordID \cup {NoID}]
  /\ lost \in SUBSET Logs

(* The posting list of a term names this record.                            *)
Posted(t, id) == \E i \in 1 .. Len(postings[t]) : postings[t][i] = id

(* flush() skips the write when the counter is zero (main.go:96), so the    *)
(* counter must be zero exactly when nothing is pending: otherwise a batch  *)
(* would sit in memory for ever.                                            *)
CounterTracksBatch == batchSize = 0 <=> batch = EmptyBatch

(* As long as timestamps tell lines apart, every line handed to the loop is *)
(* pending under its key, stored under its key, or was dropped by a failed  *)
(* write or a crash: the reset after a flush never forgets a line, and no   *)
(* line overwrites another.                                                 *)
Accounted ==
  UniqueKeys => \A l \in Logs : idOf[l] # NoID =>
                  \/ l \in lost
                  \/ batch.rec[idOf[l]] = l
                  \/ raw[idOf[l]] = l

(* The inverted index on disk is exact: it has a key for a term and a       *)
(* record if and only if the stored record contains the term, whatever      *)
(* write failed and whenever the process died.                              *)
IndexExact ==
  UniqueKeys => index = {k \in Terms \X RecordID :
                           raw[k[2]] # NoLog /\ k[1] \in TokensOf[raw[k[2]]]}

(* Every posting in memory is backed by a line that is pending, stored, or  *)
(* was lost to a failed write; a crash leaves no posting behind.            *)
PostingsBacked ==
  UniqueKeys => \A t \in Terms, id \in RecordID : Posted(t, id) =>
                  \E l \in Logs : /\ idOf[l] = id
                                  /\ t \in TokensOf[l]
                                  /\ \/ batch.rec[id] = l
                                     \/ raw[id] = l
                                     \/ l \in lost

(* A stored record is never removed or replaced while keys are unique.      *)
StoredForever ==
  [][UniqueKeys => \A id \in RecordID : raw[id] # NoLog => raw'[id] = raw[id]]_loopVars

(* Every index key on disk leads to a stored record, even when two lines     *)
(* share a key: a record and its index keys travel in one batch.            *)
NoDanglingIndex == \A k \in index : raw[k[2]] # NoLog

(* The ticker gets every line out of the batch, whether or not the size      *)
(* threshold is ever reached: unless a fault drops it, it is stored.        *)
(* Stated for unique keys; a line whose key is reused may be overwritten.   *)
EventuallyStored ==
  \A l \in Logs : (idOf[l] # NoID) ~> (l \in lost \/ \E id \in RecordID : raw[id] = l)

=============================================================================
