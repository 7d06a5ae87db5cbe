# Chronolog in TLA+

Chronolog is a small log store: a Go engine takes syslog lines by UDP and HTTP,
keeps them in LevelDB with an inverted index, and answers term searches over
gRPC; a Node server turns HTTP and WebSocket requests of a React client into
such searches. This directory models the engine, the Node server with its live
tails, the way of a text from line to screen, and the client: its searches, its
live socket and the rows it shows. TLC checks the models, and TLAPS proves their
safety properties for every value of the constants.

Paths below are relative to `src/`.

## 1. Inventory

| component | source | state it keeps | operations |
|---|---|---|---|
| UDP listener | `engine/internal/ingestion/udp.go` | socket, `outChan` (20000), `bufferPool` | reader goroutine, `Release`, `Close` |
| HTTP listener | `engine/internal/ingestion/http.go` | server; writes into main's `rawIngestChan` (10000) | `handleIngest`, `Close` |
| forwarders | `engine/cmd/server/main.go:61-86` | the packet each holds | one goroutine per listener: `pipe.Submit` |
| worker pool | `engine/internal/pipeline/worker_pool.go` | `rawQueue`, `outQueue` (20000 each), a WaitGroup | `Submit`, `workerLoop` on every CPU, `Close` |
| parser, tokenizer | `.../ingestion/parser.go`, `.../pipeline/tokenizer.go` | none | `ParseSyslogRFC3164`, `Tokenize` |
| flush loop | `engine/cmd/server/main.go:88-143` | batch, `batchSize`, ticker | `select`: item, 15 ms tick, signal; `flush`; deferred closes |
| storage | `.../storage/leveldb.go`, `schema.go` | LevelDB | `WriteBatch`, key encoding |
| memory index | `.../search/memory_index.go` | term -> posting list, RWMutex | `Add`, `Query` |
| query engine | `.../search/query.go` | none between calls | `SearchTerm`: memory tier, then LevelDB tier |
| gRPC server | `.../ipc/grpc_server.go` | socket file | `Query`, `StreamQuery`, `Start`, `Stop` |
| Node server | `server/src/server.js`, `controllers/`, `services/logClient.js` | HTTP and WebSocket servers, one gRPC client | search, `/ws/logs`, `/health`, shutdown |
| live tail | `server/src/services/liveTail.js` | `stopped`, `timer`, `activeCall`, `seen` per socket | `poll`, its callback, `stop` |
| web client | `web/src/App.jsx`, `components/`, `lib/` | query, results, socket, reconnect timer, live buffer | `runQuery`, live effect, `parseQuery`, filters |
| tools, demos, generated code | `engine/cmd/{query,test_client,bench_*}`, `scripts/`, `*.pb.go` | none | single requests |

How they interact. A listener hands packets (references to recycled buffers) to
its forwarder over a channel, the forwarder submits them to `rawQueue`, a worker
parses and tokenizes, stamps the line with the time of parsing, gives the buffer
back and sends an item over `outQueue` to the select loop of main. The loop puts
a raw entry and one index entry per term in a batch, adds postings to the memory
index at once, and writes the batch when it holds 2500 puts or when the 15 ms
ticker fires. Searches run in goroutines of their own and share with the loop
the memory index (a lock per operation) and LevelDB (atomic batches, snapshot
iterators). The live tail repeats a search over the last five minutes, 400 ms
after the previous answer, and sends what it takes for new. Searches and tails of
the Node server share one gRPC client, which its shutdown closes when the last
connection is gone. The page puts what a tail sends into a buffer and every 350
ms the buffer on top of its table, which each search's answer replaces.

What is hard, and what makes each part right:

* **Flush loop.** Two tiers that are updated at different times, batches that
  fail, a process that dies. A line must be pending, stored or knowingly lost;
  the index on disk must agree with the records; nothing may wait for ever.
* **Search.** Nothing is locked across its steps and records move from one tier
  to the other underneath it. Answers must be complete for what was on disk at
  the start, without repetition, within the limit, and correct.
* **Pipeline.** Up to five goroutine kinds, bounded channels and buffers that
  are reused before the item made from them is consumed. A line must be in one
  place at every time, and a buffer must have one owner.
* **Shutdown.** A signal ends the reader of `outQueue` while everything before
  it still runs. What the loop had taken must be durable, and closing order
  matters.
* **Live tail.** Entries have no identity; callbacks of cancelled calls still
  come. One poll at a time, nothing after `stop`, no entry twice, none missed.
* **Node server.** Connections become WebSockets, close and linger while a shutdown
  waits for them. No tail may outlive its socket, nothing may be asked of a closed
  client, and a shutdown must come to its end.
* **Live session.** A line passes the store, a tail, a connection that may break, a
  buffer and a table that searches replace. It must appear, once per connection,
  and the marks and expansions of the rows around it must stay theirs.
* **Parser, keys, query parser.** Each relies on what another did: the scan on the
  order of keys, the client's filters on what the engine kept of a line, a search
  on the terms under which a line was indexed.
* **Web client.** Responses of older searches may overtake newer ones; a socket
  reconnects while the effect that owns it is torn down, and closes long after. A
  live tail must have one socket or one timer, and its lines must stay its own.

## 2. Modules

| module | models | builds on |
|---|---|---|
| `FlushLoop` | select loop, batch, LevelDB contents, memory index; write failures and crashes | |
| `QueryEngine` | `SearchTerm` step by step, any number of calls | EXTENDS `FlushLoop`; refines `LogService` |
| `LogService` | the promise to clients of the Query RPC | |
| `Pipeline` | UDP reader, HTTP handlers, forwarders, workers, main's deferred calls | EXTENDS `FlushLoop` and refines it |
| `LiveTail` | one WebSocket's tail against the promise of `LogService` | refines `TailLoop` |
| `TailLoop` | what any tail promises of its timer and calls | `LiveTail` and, per connection, `NodeServer` refine it |
| `NodeServer` | connections, searches and their validation, upgrades, tails, the gRPC client, the shutdown | |
| `LiveView` | a live session end to end: store, tail, connection, page, table | |
| `WebClient` | `App.jsx` and the controls of `QueryBar.jsx`: searches, the live effect, the user | |
| `TextPath` | parser, tokenizer, query parser, normalization and label filters, composed for one line and one query | |
| `KeySchema` | key encoding byte by byte, and the prefix scan | |
| `MC*` | values for the constants of one module | |
| `FlushLoopProofs`, `QueryEngineProofs`, `PipelineProofs`, `LiveTailProofs`, `NodeServerProofs`, `WebClientProofs`, `LiveViewProofs`, `TextAndKeyProofs` | theorems | each EXTENDS its module; `QueryEngineProofs` and `PipelineProofs` EXTEND `FlushLoopProofs`, `TextAndKeyProofs` both `KeySchema` and `TextPath`, which have no state in common |

### FlushLoop

`batch` is the net effect of the `leveldb.Batch` (later puts win), `batchSize`
the loop's own counter, `raw` and `index` the two LevelDB keyspaces, `postings`
the memory index. `idOf` and `lost` are history: which record ID a line was
handed over with, and which lines a fault dropped. `Receive` is the
`<-pipe.Output()` arm with the flush at the end of it, whatever item comes;
`Handle` adds what the loop relies on and does not check, that no line comes twice
and, with unique keys, none under a key in use. Here that is assumed;
`Pipeline`, whose loop takes any item by `Receive`, has to make it good. `Tick` is
the ticker arm,
`Crash` a death of the process followed by a restart. `Flush` has three
outcomes: nothing to do (the counter is zero), written, or failed, when the
batch is logged and reset all the same (`main.go:99-103`).

A raw key is `0x01|stream|ts` and an index key `0x02|term|0x00|ts|stream`; the
model keeps the record ID (`stream`, `ts`) and the pair of term and record ID,
and for the scan the order the encoding gives them (`KeyLeq`). `UniqueKeys`
says whether two lines may get the same ID: the code does nothing against it
beyond the resolution of the clock. `Handle` is one step: a search uses one term
and reads that term's postings under the lock in one go, and what it could see
between `Add` and the flush that follows is what it sees when the batch is not
full yet.

### QueryEngine

Each step between which the loop may run is an action: `Begin` (through
`MemoryIndex.Query`), `FetchHit` per memory match, `OpenIterator` (the LevelDB
snapshot), `ScanNext` per index key (`SkipEarly`, `StopLate` or `FetchKey`),
`ScanEnd`, and `Respond`. `fetchLog` marks a record as seen before it looks it
up, and so does `FetchLog`. `must` is history: the matching records on disk at
`Begin`. The refinement mapping to `LogService` shows a search as `open` until
it is done, and its answer as empty until then.

### Pipeline

Channels hold buffers, `mem` says what a buffer holds, `pool` is
`bufferPool`. `make([]byte, 2048)` is a buffer nobody refers to (`Fresh`);
which one is immaterial, so one is picked. Buffers suffice for every line in
flight. A worker's `Release` puts any buffer in the UDP pool, also one of an
HTTP handler, as `worker_pool.go:70` does. The signal's arm of the select is
`Signal`; `mPc` then walks through the deferred calls in the order Go runs them.
`FwdPanic` is the send on a closed `rawQueue`.

`WorkerParse` reads the wall clock, which may show one value to two workers, or be
set back between them: any reading will do. `stamped` is history, the record IDs
made so far, and two parameters limit the clock where a property is about that:
`UniqueKeys` has clock and facility tell all lines apart, `SteadyClock` has the
clock never step back. `Consume` is `Receive` of whatever is at the head of
`outQueue`; that a line does not come twice, and a key not twice when
workers make it once, has to follow from the queues.

When reading a body fails, `bufio.Scanner` first hands out what it has of the
current line as if it ended there, and the loop of `handleIngest` sends that piece
before `Err` makes the answer a 400. `CutOf` has the pieces there may be of each
line, the whole line without its newline among them or not, and `ScanCut` sends
one: the request is then `cut`, and `ScanEnds` has only the 400 left for it.
Reading may also fail between two lines, and a line over 64 KiB is refused
without a piece: then the 400 comes without `ScanCut`.

### LiveTail

`call` is `activeCall` with what has become of it; the callback of a cancelled
call is a step of its own. `seen` is keyed by the message alone, for
the engine fills in no other field and `entryKey` hashes nothing else.
`floor` and `reply` are `LogService`'s bounds on an answer. Without its data the
tail is a loop of polls: `Loop` maps it to `TailLoop`, a call that is asked,
answered or failed to one that is out.

### NodeServer

Each callback of the event loop is an action. A connection is one TCP connection;
`conn` says what it is used for. The tails are those of `LiveTail` without their
data: `Poll` is `poll` with both its outcomes, `TailAnswered` the callback with an
answer or an error, which arms the timer either way, `CallEnds` that of a
cancelled call. When the connection of a WebSocket breaks, `readyState` changes
before its close event is delivered and before any timer runs: `dropped` is the
time between. `Shutdown` happens once per kind of signal, for `process.once`
listens to each; `CloseClientIfDrained` is the callback of `server.close`, which
waits for every connection that still counts. `Requests` are what the three
parameters of a search parse to (absent, not a number, or a number), `asked` what
then goes to the engine. A request's own time is `Now`: the clock stands still in
this module, for nothing in it compares times of two moments. `late` is history:
connections that became WebSockets when the shutdown had already told the others
to close.

### LiveView

One page and one record stream from end to end, with what the other modules
settle left out: the socket's states (`WebClient`: there is one connection or one
on its way) and the tail's counts (`LiveTail`: with distinct messages that stay in
the window they are a set). Records are numbered in the order they are stored.
`Finds` is the engine's match of a query's first term, `Keeps` the labels.
A connection ends with all it carried (`Disconnect`); `Lose` arms the reconnect
timer, `Connect` gives the page a tail that has seen nothing. `Receive` is
`onmessage` with the identifier `normalizeLogEntry` makes of the time, `Flush` the
interval, `RunQuery` and `Settle` the two halves of a search around its `await`,
`Table` what `LogViewer` draws of it all. `Reload` starts the page anew from its
URL. A row is its record, where it comes from (a search, or live, and then when),
and its identifier, which is all that expansion knows of it. `Connect` waits for an
empty buffer: 1000 ms pass before the timer connects again, 350 ms before the
interval empties the buffer. `clicked`, `raced`, `wiped` and `tails` are history.

### WebClient

Handlers, effects and callbacks are actions; each runs to completion. A run of
the live effect has a number (`effect`), and `stopped`, `timer` and the
`effect` of a socket say whose closure they belong to: `stopped` is the set of
runs whose variable of that name is true. `SwitchOff` is the cleanup together
with the effect's next run, which has nothing left to close. A socket that is
closed while it connects is `muted`: `onopen` then closes it and its other
handlers are null, while `onclose` stays. `ClickSlider` and `LabelClicks` are
the two clicks a browser makes of one on the slider: the first bubbles to the
`div` (`QueryBar.jsx:233`), the second is the label's, on the checkbox.
A search stands for its rows by one; a live line is a number. `asked` and
`lines` are history. What is shown only (severities, row layout, execution
times) is left out; rows and the URL are in `LiveView`.

### TextPath

A line is a PRI and words with one space between them; a word has a length, for
the timestamp is found by the place of three spaces (`parser.go:47`), and the
fields that `strings.FieldsFunc` makes of it. `Ingest` is a worker's parse and
tokenize, `Search` what `runQuery` does up to `setLogs`. Syslog forms of
`normalizeLogEntry` cannot match a stored message, whose PRI the engine has
removed, so `Normalized` has the plain branch alone. `>>` and `&` on a negative
PRI are the floor division and remainder. `Offset` is a recursive function: it says
where each word ends, and the header of a line is recognized by that alone. Three
spaces in those places are a timestamp to the parser whatever stands between them:
a text like `a b cd efghijkl host message` loses its first four words with the
"timestamp" and the fifth to the host. `IsPlainText` leaves such texts out, and the
run has some.

### KeySchema

Bytes have `Base` values and numbers `Width` bytes. `Write` stores the two keys
of a line with one term, the rest is the iterator loop of `SearchTerm`
without a limit; LevelDB's comparer, `BytesPrefix` and the iterator are external.
`QueryEngine` assumes what is checked here, and proved in section 4 (`KeyLeq` and that
keys of one term are contiguous). Timestamps are those of a clock after 1970 and windows are not
negative, as `queryController.js:9` requires; facilities may be negative.

## 3. Runs

Every run has a small instance and is exhaustive for it.

| run | question | instance |
|---|---|---|
| `flush_loop` | Is every line pending, stored or lost to a fault? Is the disk index exact? Does what is pending get written? | 3 lines (two terms, one, none), 2 streams x 2 stamps, batch 4, failures and crashes anywhere |
| `query_engine` | Are answers complete, distinct, correct; does the engine implement `LogService`; do searches end? | 3 matching lines, 3 stamps, every window, limits 1 and default 3, failures and crashes |
| `pipeline` | One owner per buffer, one place per line, what does an HTTP answer tell? | 1 datagram, 1 POST of two lines around an empty one that may break off in either, leaving a piece, 2 workers, channels of 1, a clock of 2 readings in any order |
| `shutdown` | Does what arrives get stored, or another line under its key? Is the stop orderly, is there a record for what the loop took, when can it hang? Does the pipeline implement `FlushLoop`? | 2 lines, or one and a piece, 2 workers, write failures, a signal anywhere or never, a clock of 2 readings in any order |
| `live_tail` | One poll at a time; on and on until stopped, then silence (`TailLoop`); what is sent | 3 records, two with one text, window 1, clock to 3 |
| `node_server` | Is anything asked of a closed client, or badly? Does a tail outlive its socket? What can hold up a shutdown? Is each connection's tail a `TailLoop`? | 3 connections, 10 requests around every bound of the validation, one signal of each kind |
| `live_view` | Does a stored record appear? How often? Which rows are marked, and which expanded? | 2 records, 3 queries (finds both and keeps one, finds none, empty), 2 searches a page, tables of 3 rows, 2 of lost connections, edits, toggles, clicks and reloads |
| `web_client` | One socket or one timer? Whose lines are in the buffer? Does the tail reconnect, and does every socket get closed? | 3 searches, 2 queries, 2 sockets, tail switched on twice, 1 live line |
| `text_path` | Is a syslog line taken apart correctly and found by its message's terms, and a plain one by those it keeps? | lines of 1 to 3 words, alone, behind a timestamp or behind words with a timestamp's spaces, 4 PRIs, 30 queries |
| `key_schema` | Does a scan find its term's lines, in order, and read their keys back? | 4 byte values, 2 bytes a number, 4 terms that begin alike, 4 stamps, facilities -1, 0, 4, 2 lines |
| `socket`, `stale_search` | statements of docs and texts on screen that the code does not meet, see section 5 | |

`MCOwnKeys.cfg` is the instance of `shutdown` with `UniqueKeys`: TLC finds
`ImplementsLoop` and `ArrivedIsStored` true there too, where they say that every key
is new to the loop and every line stored as it is. It stands beside the runs; the
theorems `PipelineIsLoop` and `OwnRecordIsDurable` cover the case.

Why these bounds suffice. With a batch limit of 4 and at most 3 puts per line a
batch flushes full after two lines, and the ticker flushes partial ones, so a
line meets both ways to the disk in one behaviour, and lines are on disk, in the
batch and yet to come at the same time. Three lines are what a search needs to
find one on disk before it starts, one that moves during it, and one behind its
limit. A channel of capacity 1 is full or empty at every step; the longest
queue in the program differs from it only in how long it takes to get there.
Two workers overtake each other; a third adds no relation between two lines.
Three records and a window of 1 let a text be answered, age out and return.
Two runs of the live effect let a socket of the first close, open or fail at every
point of the second, and two sockets let one be on its way out while the other
is in use; three searches leave room for the two that one click starts beside
the initial one. Two lines decide about the order of two keys and about a key that
ends a scan; terms that begin alike, a term that ends with the largest byte, zero
bytes in numbers and a carry between bytes are the cases an encoding can get wrong.
`Stamps` and `MaxTime` bound the clocks, `Buffers` the memory, `MaxSearches`,
`MaxEffects`, `MaxLines` and `MaxActs` what a user and the network do; nothing else is
counted. Three connections are one that becomes a tail before the shutdown, one
after it, and one that searches meanwhile. Two records can share a batch, a
millisecond or a lost connection, and a search can lie between them; a table of 3
rows is full when both come again by another connection, and two acts are a
connection lost or the tail switched off and on again, a row clicked before one of
those, or a reload after it. `MCSymmetry` permutes buffers and workers,
which no definition tells apart but for the arbitrary pick in `Fresh`, whose
outcomes are equal up to renaming; the runs with liveness do without it.

Deadlock is not checked: with three lines and a bounded clock every instance
comes to rest, and `shutdown` ends in `exited` or `panicked`. What a deadlock
would hide is asked as liveness instead (`EventuallyStored`, `SearchTerminates`,
`ArrivedIsStored`, `ShutdownStallsOnlyWhenFull`, `ImplementsTailLoop`,
`ShutdownHeldUpOnly`, `AppearsOrWiped`, `Reconnects`, `SocketsClose`).

**Fairness.** `FlushLoop`: weak fairness of `Tick`, for Go's select picks among
its ready arms at random and the ticker is ready again and again. `QueryEngine`:
weak fairness per search, a goroutine that never blocks. `Pipeline`: weak
fairness for the goroutines that can run, for main's consuming arm, its ticker arm
and the deferred calls; none for datagrams, requests, handlers and the signal. The
reader's `UdpGet` needs none, for it holds no line. `LiveTail`: timers fire and
callbacks run in Node's event loop; the engine flushes, and answers or fails.
The last is an assumption about the engine: `logClient.js` sets no deadline.
`WebClient`: timers fire, a handshake ends one way or the other, and so does a
fetch; nothing is assumed of the user, or of a connection that is open.
`NodeServer`: timers fire, events are delivered, Node ends connections that are
kept alive and idle, and `ws` ends a closing handshake after 30 s. Neither
browsers nor the engine owe anything: `ShutdownHeldUpOnly` names what they can do
to hold up a shutdown. `LiveView`: the page connects again until it succeeds,
polls, deliveries and the interval happen, searches are answered; nothing of the
user, and connections may break as often as the bound has it.

## 4. Proofs

TLAPS proves, for every value of the constants under the modules' named
assumptions:

* `FlushLoopProofs`: `LoopTypeCorrect`, `CounterCorrect`, `AccountedCorrect`,
  `IndexLeadsToRecord`, `StoredForeverCorrect`, `IndexExactCorrect` and
  `PostingsBackedCorrect`. The invariant of the first five is `LoopInv`. That
  index keys lead to records is inductive only together with the same fact about
  the pending batch (`KeysBacked`). A line is filed only under its own ID
  (`UnderOwnKey`), and an ID that was used has a record or a line that was lost with
  it (`Kept`), be it unique or not. `Accounted`, that no line is forgotten,
  follows (`KeptAccounts`) where no two lines share an ID (`KeysUnique`, part of
  `LoopInv` under `UniqueKeys` alone): otherwise a put or a write may replace another
  line.
  `IndexInv` adds that the keys of the batch are exactly those of its records, as
  those on disk are (`KeysExact`, of both). A write then lays exact keys over exact
  keys, and neither side replaces a record of the other, since no line is handed
  over twice.
* `QueryEngineProofs`: `TypeCorrect`, `AnswerCompleteCorrect`,
  `AnswerDistinctCorrect`, `AnswerMatchesCorrect` and `EngineServes`. `QueryInv` adds
  for every search that its record of
  work is `Grounded` in the postings, that the owed records are on disk with
  their keys (`MustStored`), that each is in the answer, or unseen and still ahead
  of the iterator (`MustAhead`), and that the answer consists of seen records
  (`Distinct`). The heart of completeness: a record that was on disk at `Begin` is
  never looked up in vain, since records are never removed, so marking as seen
  before looking up costs only records that came later; and the scan goes
  in key order, so stopping at the first key behind the window leaves nothing. That
  theorem does not need unique keys: a colliding line replaces a record's text,
  not its presence. `AnswerMatches` does, and assumes `UniqueKeys`; `MCCoarseClock.cfg`
  shows it false otherwise. `MatchInv` says that the postings a search still has to
  look up are in its window and that the iterator has keys of its term, and with
  `IndexInv` that whatever record a posting leads to is its own line.
  `EngineServes` is the refinement of `LogService`: a write that succeeds is a
  commit, a crash a restart, the last step of a search its answer, and every other
  step leaves the service as it is; that the answer is one the service may give
  is `AnswerComplete`, `AnswerDistinct` and `AnswerMatches`.
* `PipelineProofs`: `PipeTypeCorrect`, `PipelineIsLoop` (initial states and steps
  of the pipeline are those of `FlushLoop`), `ConsumedIsDurableCorrect`,
  `OwnRecordIsDurable`, `OrderlyExitCorrect`, `AnswerTellsPrefixCorrect`,
  `BufferOwnedCorrect` and `OnePlaceCorrect`. Only `OwnRecordIsDurable` assumes
  unique keys; the others hold on any clock.
  `PipeInv` adds that every reference under way leads to a buffer with a line in it
  (`Loaded`). `PipelineIsLoop` is about what `FlushLoop` assumes of its items
  (`LoopStepInside`). That a line does not come twice is `LineInv`: a line in
  `outQueue` is nowhere else and has not been handed over. That with unique keys its
  key does not either is `KeyInv`: the keys of items, of `outQueue` and of lines
  taken were all made by workers (`KeysStamped`), and each is with one of them
  (`KeysApart`), whichever worker is ahead.
  `DurableInv` combines these with `LoopInv`, `CounterTracksBatch`, that
  nothing is pending once the loop has ended (`NothingPending`), and that a queue
  is closed only after that. `StopInv` says how much is closed at each step of
  main's way out, and that a worker has ended only when `rawQueue` was closed and
  empty; that there is a worker at all is an assumption (`runtime.NumCPU`). `SentInv`
  is about a handler: the lines of a body that arrived are those before `next`
  (`LinesSent`), and of pieces there is at most one, of the line at `next`, and
  only of a request that was cut (`PiecesSent`); since a line that arrived has a place
  (`PlaceOfLine`), `AnswerTellsPrefix` follows. That lines and pieces are told apart
  from datagrams and those of other bodies is `OccurrenceAssumption`: a member of
  `Logs` is one occurrence of a line, not its text.
  `OwnInv` is about holders (`Holds`): a buffer has at most one (`OneHolder`), a queue
  has none twice, and a goroutine has one only while it needs it (`EmptyHanded`).
  `OnePlace` counts, so it needs more: a line is on exactly one stage of its way
  (`OneStage`: not yet taken, in a buffer under way, in a worker's item, in `outQueue`,
  or handed to main), and on a stage there is one holder of it (`Apart`). Then the
  places of a line are at most one, and whoever is on a stage has a place.
* `LiveTailProofs`: `SingleFlightCorrect`, `QuietAfterStopCorrect`,
  `TailImplementsLoop` and `SentExactlyCorrect`, for any records, texts, window
  and limit. The first three rest on `TailInv`: only a stopped tail has a cancelled
  call. `SentExactly` needs `DataInv`: a call that is out cannot miss an answered
  record that its window still has (`AskedAgain`), and the counts cover all that
  may be answered again (`Covered`, for the time of the last answered call), so
  what exceeds them was never answered. It takes that stored records stay, and that
  an answer of full length holds all there is when the limit does not cut.
* `NodeServerProofs`: `NoOrphanTailCorrect`, `AskedProperlyCorrect` and
  `TailsAreLoopsCorrect`, for any number of connections and any requests. The
  invariant says per connection which of timer, call and stop go with which state
  of it, and that a closed client means a server that is closed and has no
  connection left that could still ask.
* `WebClientProofs`: `TypeCorrect`, `OneLifelineCorrect` and `BufferFreshCorrect`, for
  any number of sockets, searches and lines. `OneLifeline` alone is not inductive: a
  socket given up by an earlier run of the effect must not arm a timer when it closes,
  which takes that its run was cleaned up (`CleanedUp`, `Owned`). `BufferInv` adds
  that the buffer names lines that were received; lines come from sockets in use
  only, whose run is the current one by `LifeInv`. The bounds in `TypeOK` rest on the
  same: a timer that is armed belongs to a run there has been, and the table is cut
  wherever it grows.
* `LiveViewProofs`: `MarkedAreLiveCorrect`, `OncePerConnectionCorrect` and
  `LiveRowsKeepExpansionCorrect`, for any records, queries, searches, table size and
  any use of the page. `ViewInv`: the first `newCount` rows are live, and a search that
  is out finds no mark or a race (`MarkedRows`). `ExpandInv`: the identifier of a
  millisecond is expanded if and only if the rows of that millisecond that were
  clicked an odd number of times are odd in number; a row alone in its millisecond
  is then told by itself. `SentInv` counts: what a record has on the wire, in the
  buffer and in the table, and what the running tail still owes it (`Owed`), never
  exceeds the connections there were. `Count` has the lemmas on sequences this takes.
* `TextAndKeyProofs`: `ScanExactCorrect` about `KeySchema`, and `SyslogFindableCorrect`
  and `PlainTextByTermCorrect` about `TextPath`, for any bytes, words, fields and
  queries.
  A number is read off its bytes from the left (`Leading`: what the first `i` bytes
  say is the number divided by a power of `Base`), and each byte adds a digit
  (`LeadingSteps`). Two consequences carry the rest: a number is read back
  from its bytes (`UintOfPut`), and the bytes of the smaller number are smaller where
  the two first differ (`FirstDifference`). Hence a key decodes to its line alone, as
  the delimiter is its first zero (`KeyDecodes`), the keys of a term are in order of
  time and stream (`KeyOrder`), and between the prefix of a term and its limit lie its
  own keys and no other (`InRange`, from the first byte in which two terms differ,
  `TermsDiffer`). `ScanInv` then is short: what was found are the matches among the
  lines seen (`Seen`), in order, and the keys ahead are those of the rest (`AheadExact`).
  The argument about texts is about `Offset`: words have at least a byte
  (`LengthOf`), so offsets grow (`OffsetGrows`), and the place behind the third space
  of a timestamp is the only one there; and `Tokenize` makes of a message just the
  terms it should be found by (`TokenizeExact`).

Proving changed three things. `PlainTextByTerm` had been stated for texts whose first
word has not three bytes, which is not enough: see `TextPath` in section 2; TLC
had no such line before. `OnePlace` needed the places in a body, and the pieces of its lines, told
apart, hence `OccurrenceAssumption`. And `Rows`, `InOrder`, `Offset` and `Power` are written with
`CHOOSE`, `Cardinality` and recursive functions instead of the folds of the community
modules and `^`, of which the prover knows nothing. Induction over numbers goes by a
least counterexample (`LeastNumber`, from the well-foundedness of strict inclusion
among finite sets, and `UpTo`, induction about a set of numbers): that a set can be
listed in order (`Listable`), that offsets and powers exist, that offsets grow and
that bytes give back their number are proved that way.

Only model-checked: all liveness (`EventuallyStored`, `SearchTerminates`,
`ArrivedIsStored`, `ShutdownStallsOnlyWhenFull`, `ShutdownHeldUpOnly`, `Reconnects`,
`SocketsClose`, `AppearsOrWiped`, and the fairness part of `ImplementsLoop` and
`ImplementsTailLoop`), which is beyond the prover.

## 5. What the code does not do

Each of these is a run, or stands beside the runs as a configuration, in which TLC
finds the statement violated. The runs:

* `socket`: on SIGTERM `pipe.Close` closes `rawQueue` while listeners and
  forwarders still run; a packet under way makes its forwarder panic, the socket
  file stays and LevelDB is not closed. What the loop had taken is on disk by then.
* `stale_search`: `runQuery` shows each answer when it comes. The empty answer of
  an earlier search replaces what the last one found, and the page says that
  nothing was found for the current query. The same way, the answer of a search
  sent before a live line came removes the line from view.

The configurations (`tlc -config MCHotTier.cfg MCQueryEngine.tla`, and so on):

* `MCHotTier.cfg` (`MCQueryEngine`, `HotTierServes`): `README.md:270` has the
  memory index serve fresh terms without waiting for the store. `fetchLog` looks
  each match up in LevelDB (`query.go:54`) and drops it when it is not there.
* `MCCoarseClock.cfg` (`MCQueryEngine`, `AnswerMatches` without `UniqueKeys`): two
  lines of one facility stamped in the same nanosecond share their raw key. One is
  overwritten, and its terms lead to the other's text.
* `MCChronology.cfg` (`MCPipeline`, `PostingsChronological`): posting lists are in
  order of arrival, not of time as `memory_index.go:40` says.
* `MCAccepted.cfg` (`MCPipeline`, `AcceptedSurvives`): no text of the repository says
  so, but a client may take a 202 for it. Nobody reads the channels and `outQueue`
  once a signal has ended the loop, and the lines in them are gone although the stop
  is orderly.
* `MCSlider.cfg` (`WebClient`, `SwitchToggles`): a click on the slider itself toggles
  the tail twice.
* `MCBareQuery.cfg` (`MCTextPath`, `BareQueryFindable`): `README.md:187` has the
  reader type `chronologdemo`; without a pipe the client sends no term.
* `MCHostLabel.cfg` (`MCTextPath`, `HostLabelFindable`): a host label is compared with
  the message's second word, for the host itself is not stored.
* `MCPlainText.cfg` (`MCTextPath`, `PlainTextFindable`): `README.md:3` has plain-text
  logs indexed. The word in front of the first space is taken for a host whatever
  the line is, and is neither stored nor indexed.
* `MCTailMisses.cfg` (`MCLiveTail`, `NewRecordsAppear`): `README.md:263` has new
  messages appear. Counts of texts outlive the records; when one record ages out as
  another of the same text comes, the new one is not sent.
* `MCLostLine.cfg` (`MCLiveView`, `Appears`): the same statement of the page. A line
  that comes while a search is out is drawn behind the placeholder at most, and
  the search's answer, which was made without it, replaces it (`App.jsx:111`); the
  tail does not send it again. `AppearsOrWiped` says that this is the only way.
* `MCClickExpands.cfg` (`MCLiveView`, `ClickExpandsRow`): `LogViewer.jsx:388` has a
  click expand a row. Lines of one millisecond share an identifier and are expanded
  together, and a search's rows, identified by their place, inherit what was
  expanded at that place before. `LiveRowsKeepExpansion` is what does hold.

Met on the way and not a run of its own: `shutdown` may hang. `pipe.Close`
waits for workers that may wait for room in an `outQueue` nobody reads.
`ShutdownStallsOnlyWhenFull` says that this is the only way.

## 6. Not modelled

* LevelDB iterator errors, lookups that fail for other reasons than absence, and
  partial writes (batches are atomic by LevelDB's contract).
* HTTP lines beyond 2048 bytes (cut) and responses lost to `WriteTimeout`: both
  change what a client learns, not where a line is. `ScanCut` and `ScanEnds` have the
  400 of every read error, and what is sent before it.
* `GracefulStop` is taken to end: searches do. Searches in flight while main
  closes things are not composed with `Pipeline` yet.
* Start-up (stale socket removal, `chmod`), `/health`, CORS and configuration of the
  Node server; a second signal of one kind, which kills it.
* The scrolling, highlighting and severities of `LogViewer.jsx`, and the custom
  range of `QueryBar.jsx:164-207`, which changes nothing; lines with several spaces
  in a row or words that begin with a bracket.
* In `LiveView`: messages that repeat or leave the window (`LiveTail`), and searches
  the limit of 500 cuts.
* Live-tail answers that `LIMIT` (5000) cuts: `SentExactly` is stated for others.
* Two details of the engine as seen from afar. `LiveTail` stores all that has
  arrived at once (`Store`), where the loop stores what is in its batch and the rest
  later. `LiveView` lists answers by time (`InOrder`), where the engine lists hits of
  the memory tier first, in order of arrival (`MCChronology.cfg`). No property depends
  on either: those of `LiveTail` are about what an answer has, and those of
  `LiveView` about which rows a table has, how they are marked and expanded.
* Batches of live lines longer than the page's table, whose newest lines are cut
  (`App.jsx:184`): in `WebClient` and `LiveView` a batch fits, and no property says
  what is lost.
* What an orderly stop loses on its way to the loop is told by `MCAccepted.cfg` alone.
  The runs have what the loop had taken (`ConsumedIsDurable`), and when the stop hangs.
* Generated code, benchmarks, command-line tools and demos. `scripts/mock_go_engine.js`
  loads a schema that is not in the repository and speaks a protocol of its own;
  `mockData.js` is used for its list of time ranges alone.

## 7. Plan

1. *Done:* `FlushLoop`, `QueryEngine` with `LogService`, `Pipeline`, `LiveTail`;
   proofs of the write side, of answers, and of durability at a signal.
2. *Done:* `WebClient` with its proofs, `TextPath`, `KeySchema`.
3. *Done:* `TailLoop` with its refinements, `NodeServer` and `LiveView`; proofs of the
   tail, what it sends included, and of the Node server.
4. Tails over answers the limit cuts, which needs the order of postings.
5. `Engine`: `Pipeline` and `QueryEngine` together through the shutdown (no search
   touches a closed LevelDB).
6. *Done:* proofs of all safety properties of the runs, the refinement of
   `LogService` included.
