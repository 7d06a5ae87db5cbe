------------------------------ MODULE Pipeline ------------------------------
(***************************************************************************)
(* The Chronolog engine from the network to LevelDB, and its shutdown: the  *)
(* UDP reader, the HTTP handlers, the two forwarders, the worker pool       *)
(* (internal/ingestion, internal/pipeline), the select loop of main (taken  *)
(* from FlushLoop.tla) and the deferred calls that run when a signal ends   *)
(* that loop (cmd/server/main.go).                                          *)
(*                                                                          *)
(* Packets are not copied on their way: what travels through the channels   *)
(* is a reference to a buffer, and buffers are recycled.  A buffer here is  *)
(* a member of Buffers, mem says which line it holds, and a channel is a    *)
(* sequence of buffers.                                                     *)
(***************************************************************************)
EXTENDS FlushLoop

CONSTANTS
  Buffers,     \* packet buffers, enough of them for every line in flight
  NoBuf,       \* nobody holds a buffer here
  Blank,       \* an empty line of an HTTP body
  Datagrams,   \* the lines that come by UDP
  Posts,       \* the requests to /ingest
  BodyOf,      \* BodyOf[p]: the lines of the body of p
  CutOf,       \* CutOf[p][i]: what may come of line i should the body break off there
  FacilityOf,  \* FacilityOf[l]: the stream ParseSyslogRFC3164 finds in l
  Workers,     \* tokenization workers (runtime.NumCPU() in the code)
  ChanCap,     \* capacity of the two listener channels (20000 and 10000)
  RawCap,      \* capacity of rawQueue (20000)
  OutCap,      \* capacity of outQueue (20000)
  SteadyClock, \* TRUE: the wall clock is never set back
  Signals      \* TRUE: SIGINT or SIGTERM may arrive

Sources == {"udp", "http"}

Items == [log : Logs, id : RecordID]

ASSUME PipelineAssumption ==
  /\ NoBuf \notin Buffers
  /\ Blank \notin Logs
  /\ NoLog # Blank /\ NoLog \notin Items
  /\ Datagrams \subseteq Logs
  /\ BodyOf \in [Posts -> Seq(Logs \cup {Blank})]
  /\ DOMAIN CutOf = Posts
  /\ \A p \in Posts : CutOf[p] \in [1 .. Len(BodyOf[p]) -> SUBSET Logs]
  /\ FacilityOf \in [Logs -> Streams]
  /\ {ChanCap, RawCap, OutCap} \subseteq Nat \ {0}
  /\ {SteadyClock, Signals} \subseteq BOOLEAN
  /\ Workers # {}    \* runtime.NumCPU() is at least 1

(* A member of Logs stands for one occurrence of a line, not for its text:  *)
(* it comes by UDP, from one place in one body, or is what is left of that  *)
(* line (up to all of it but the newline) when the body breaks off there.   *)
(* Of an empty line nothing is left.                                        *)
ASSUME OccurrenceAssumption ==
  /\ \A p \in Posts : \A i \in 1 .. Len(BodyOf[p]) :
       /\ BodyOf[p][i] \notin Datagrams
       /\ CutOf[p][i] \cap Datagrams = {}
       /\ BodyOf[p][i] = Blank => CutOf[p][i] = {}
  /\ \A p, r \in Posts : \A i \in 1 .. Len(BodyOf[p]), j \in 1 .. Len(BodyOf[r]) :
       /\ BodyOf[p][i] \notin CutOf[r][j]
       /\ BodyOf[p][i] = BodyOf[r][j] /\ BodyOf[p][i] # Blank => p = r /\ i = j
       /\ CutOf[p][i] \cap CutOf[r][j] # {} => p = r /\ i = j

VARIABLES
  mem,      \* buffer -> the line it holds
  pool,     \* UDPListener.bufferPool
  udpPc,    \* the UDP reader: "get", "read", "send" or "done"
  udpBuf,   \* the buffer the UDP reader works with
  chan,     \* UDPListener.outChan and main's rawIngestChan
  post,     \* request -> "new", "reading", "cut" (the body has broken off and
            \* the rest was sent), or the answer: 202, 400 or 405
  next,     \* request -> the next line of its body
  fwd,      \* the two forwarders of main: the packet each one holds
  rawQueue, rawClosed,  \* Pipeline.rawQueue
  wPc,      \* worker -> "take", "parse", "emit" or "done"
  wBuf,     \* worker -> the packet it parses
  wItem,    \* worker -> the item it emits
  outQueue, outClosed,  \* Pipeline.outQueue
  stamped,  \* history: the record IDs the workers have made
  mPc,      \* main: "loop", then the deferred call it is at, or the end
  httpOpen, udpOpen, socket, dbOpen,  \* listeners, socket file, LevelDB
  arrived   \* history: lines taken from the network

readerVars == <<udpPc, udpBuf>>
httpVars == <<post, next>>
workVars == <<wPc, wBuf, wItem, stamped>>
mainVars == <<mPc, httpOpen, udpOpen, socket, dbOpen, rawClosed, outClosed>>
pipeVars == <<mem, pool, readerVars, chan, httpVars, fwd, rawQueue, workVars,
              outQueue, mainVars, arrived>>

vars == <<loopVars, pipeVars>>

(* Goroutines run until main returns or one of them panics.                 *)
Running == mPc \notin {"exited", "panicked"}

InSeq(b, s) == \E i \in 1 .. Len(s) : s[i] = b

(* Somebody has a reference to buffer b.                                    *)
Referenced(b) ==
  \/ b \in pool
  \/ udpBuf = b
  \/ \E s \in Sources : fwd[s] = b \/ InSeq(b, chan[s])
  \/ InSeq(b, rawQueue)
  \/ \E w \in Workers : wBuf[w] = b

(* What make([]byte, 2048) returns: memory nobody else can reach.  Which    *)
(* of the unreferenced buffers it is makes no difference, so this is the    *)
(* singleton of one of them, or empty should Buffers be too small.          *)
Fresh ==
  LET free == {b \in Buffers : ~Referenced(b)}
  IN {b \in free : b = CHOOSE c \in free : TRUE}

----------------------------------------------------------------------------

Init ==
  /\ LoopInit
  /\ mem = [b \in Buffers |-> NoLog]
  /\ pool = {}
  /\ udpPc = "get"
  /\ udpBuf = NoBuf
  /\ chan = [s \in Sources |-> <<>>]
  /\ post = [p \in Posts |-> "new"]
  /\ next = [p \in Posts |-> 1]
  /\ fwd = [s \in Sources |-> NoBuf]
  /\ rawQueue = <<>>
  /\ wPc = [w \in Workers |-> "take"]
  /\ wBuf = [w \in Workers |-> NoBuf]
  /\ wItem = [w \in Workers |-> NoLog]
  /\ outQueue = <<>>
  /\ stamped = {}
  /\ mPc = "loop"
  /\ rawClosed = FALSE /\ outClosed = FALSE
  /\ httpOpen = TRUE /\ udpOpen = TRUE
  /\ socket = TRUE /\ dbOpen = TRUE
  /\ arrived = {}

(*************************** UDP reader ************************************)

(* bufferPool.Get: a recycled buffer, or a new one.  A sync.Pool may hand   *)
(* out a new one although it holds others.                                  *)
UdpGet ==
  /\ Running
  /\ udpPc = "get"
  /\ \E b \in pool \cup Fresh :
       /\ udpBuf' = b
       /\ pool' = pool \ {b}
  /\ udpPc' = "read"
  /\ UNCHANGED <<loopVars, mem, chan, httpVars, fwd, rawQueue, workVars, outQueue, mainVars,
                 arrived>>

(* ReadFromUDP fills the buffer with a datagram.                            *)
UdpRead(l) ==
  /\ Running
  /\ udpPc = "read" /\ udpOpen
  /\ l \notin arrived
  /\ mem' = [mem EXCEPT ![udpBuf] = l]
  /\ arrived' = arrived \cup {l}
  /\ udpPc' = "send"
  /\ UNCHANGED <<loopVars, pool, udpBuf, chan, httpVars, fwd, rawQueue, workVars, outQueue,
                 mainVars>>

(* ReadFromUDP fails: the reader ends when the listener was closed, and     *)
(* otherwise starts over with another buffer, dropping this one.            *)
UdpReadError ==
  /\ Running
  /\ udpPc = "read"
  /\ udpPc' = IF udpOpen THEN "get" ELSE "done"
  /\ udpBuf' = NoBuf
  /\ UNCHANGED <<loopVars, mem, pool, chan, httpVars, fwd, rawQueue, workVars, outQueue,
                 mainVars, arrived>>

(* u.outChan <- packet waits for room.                                      *)
UdpSend ==
  /\ Running
  /\ udpPc = "send"
  /\ Len(chan["udp"]) < ChanCap
  /\ chan' = [chan EXCEPT !["udp"] = Append(@, udpBuf)]
  /\ udpBuf' = NoBuf
  /\ udpPc' = "get"
  /\ UNCHANGED <<loopVars, mem, pool, httpVars, fwd, rawQueue, workVars, outQueue, mainVars,
                 arrived>>

(*************************** HTTP handlers *********************************)

(* handleIngest is called; anything but a POST is refused.                  *)
Request(p) ==
  /\ Running
  /\ httpOpen
  /\ post[p] = "new"
  /\ \E answer \in {"reading", "405"} : post' = [post EXCEPT ![p] = answer]
  /\ UNCHANGED <<loopVars, mem, pool, readerVars, chan, next, fwd, rawQueue, workVars,
                 outQueue, mainVars, arrived>>

(* A line is copied to a new buffer and sent, waiting for room in the       *)
(* channel.  Until it is sent the buffer is the handler's own, so copy and  *)
(* send are one step.                                                       *)
SendLine(line) ==
  /\ Len(chan["http"]) < ChanCap
  /\ \E b \in Fresh : /\ mem' = [mem EXCEPT ![b] = line]
                      /\ chan' = [chan EXCEPT !["http"] = Append(@, b)]
  /\ arrived' = arrived \cup {line}

(* Mutated form: a line is skipped when the channel is full.                *)
ScanLineOrDrop(p) ==
  /\ Running
  /\ post[p] = "reading"
  /\ next[p] <= Len(BodyOf[p])
  /\ next' = [next EXCEPT ![p] = @ + 1]
  /\ LET line == BodyOf[p][next[p]] IN
       \/ SendLine(line) /\ line # Blank
       \/ /\ line = Blank \/ Len(chan["http"]) = ChanCap
          /\ UNCHANGED <<mem, chan, arrived>>
  /\ UNCHANGED <<loopVars, pool, readerVars, post, fwd, rawQueue, workVars, outQueue, mainVars>>

(* One turn of the scanner loop: an empty line is skipped, any other is     *)
(* sent.  A handler survives httpListener.Close.                            *)
ScanLine(p) ==
  /\ Running
  /\ post[p] = "reading"
  /\ next[p] <= Len(BodyOf[p])
  /\ next' = [next EXCEPT ![p] = @ + 1]
  /\ LET line == BodyOf[p][next[p]] IN
       \/ /\ line = Blank
          /\ UNCHANGED <<mem, chan, arrived>>
       \/ /\ line # Blank
          /\ SendLine(line)
  /\ UNCHANGED <<loopVars, pool, readerVars, post, fwd, rawQueue, workVars, outQueue, mainVars>>

(* The body breaks off within a line (a timeout, a closed connection).      *)
(* Before Scan reports the error it hands out what it has got of the line,  *)
(* as if it ended there, and the loop sends this piece like any line.       *)
ScanCut(p) ==
  /\ Running
  /\ post[p] = "reading"
  /\ next[p] <= Len(BodyOf[p])
  /\ \E piece \in CutOf[p][next[p]] : SendLine(piece)
  /\ post' = [post EXCEPT ![p] = "cut"]
  /\ UNCHANGED <<loopVars, pool, readerVars, next, fwd, rawQueue, workVars, outQueue, mainVars>>

(* Scan returns FALSE: at the end of the body, answered with 202, or for an *)
(* error, answered with 400: reading failed, behind a piece or where there  *)
(* is none, or a line was over 64 KiB, of which nothing is handed out.      *)
(* What was sent so far stays sent.                                         *)
ScanEnds(p) ==
  /\ Running
  /\ \/ /\ post[p] = "reading" /\ next[p] > Len(BodyOf[p])
        /\ post' = [post EXCEPT ![p] = "202"]
     \/ /\ post[p] \in {"reading", "cut"}
        /\ post' = [post EXCEPT ![p] = "400"]
  /\ UNCHANGED <<loopVars, mem, pool, readerVars, chan, next, fwd, rawQueue, workVars,
                 outQueue, mainVars, arrived>>

(*************************** forwarders ************************************)

FwdTake(s) ==
  /\ Running
  /\ fwd[s] = NoBuf
  /\ chan[s] # <<>>
  /\ fwd' = [fwd EXCEPT ![s] = Head(chan[s])]
  /\ chan' = [chan EXCEPT ![s] = Tail(@)]
  /\ UNCHANGED <<loopVars, mem, pool, readerVars, httpVars, rawQueue, workVars, outQueue,
                 mainVars, arrived>>

(* Mutated form: a packet is dropped when rawQueue is full.                 *)
FwdSubmitOrDrop(s) ==
  /\ Running
  /\ fwd[s] # NoBuf
  /\ ~rawClosed
  /\ rawQueue' = IF Len(rawQueue) < RawCap THEN Append(rawQueue, fwd[s]) ELSE rawQueue
  /\ fwd' = [fwd EXCEPT ![s] = NoBuf]
  /\ UNCHANGED <<loopVars, mem, pool, readerVars, chan, httpVars, workVars, outQueue, mainVars,
                 arrived>>

(* Mutated form: a forwarder submits its packet over and over.              *)
FwdSubmitKeeps(s) ==
  /\ Running
  /\ fwd[s] # NoBuf
  /\ ~rawClosed
  /\ Len(rawQueue) < RawCap
  /\ rawQueue' = Append(rawQueue, fwd[s])
  /\ UNCHANGED <<loopVars, mem, pool, readerVars, chan, httpVars, fwd, workVars, outQueue,
                 mainVars, arrived>>

(* pipe.Submit waits for room in rawQueue.                                  *)
FwdSubmit(s) ==
  /\ Running
  /\ fwd[s] # NoBuf
  /\ ~rawClosed
  /\ Len(rawQueue) < RawCap
  /\ rawQueue' = Append(rawQueue, fwd[s])
  /\ fwd' = [fwd EXCEPT ![s] = NoBuf]
  /\ UNCHANGED <<loopVars, mem, pool, readerVars, chan, httpVars, workVars, outQueue, mainVars,
                 arrived>>

(* A send on the closed rawQueue, or one that waits while it is closed, is  *)
(* a panic, and ends the process.                                           *)
FwdPanic(s) ==
  /\ Running
  /\ fwd[s] # NoBuf
  /\ rawClosed
  /\ mPc' = "panicked"
  /\ UNCHANGED <<loopVars, mem, pool, readerVars, chan, httpVars, fwd, rawQueue, workVars,
                 outQueue, httpOpen, udpOpen, socket, dbOpen, rawClosed, outClosed, arrived>>

(*************************** workers ***************************************)

(* Mutated form: the buffer is released as soon as the packet is taken.     *)
WorkerTakeReleases(w) ==
  /\ Running
  /\ wPc[w] = "take"
  /\ rawQueue # <<>>
  /\ wBuf' = [wBuf EXCEPT ![w] = Head(rawQueue)]
  /\ pool' = pool \cup {Head(rawQueue)}
  /\ rawQueue' = Tail(rawQueue)
  /\ wPc' = [wPc EXCEPT ![w] = "parse"]
  /\ UNCHANGED <<loopVars, mem, readerVars, chan, httpVars, fwd, wItem, stamped, outQueue,
                 mainVars, arrived>>

(* Mutated form: a worker ends when it finds the queue empty.               *)
WorkerTakeOrEnd(w) ==
  /\ Running
  /\ wPc[w] = "take"
  /\ \/ /\ rawQueue # <<>>
        /\ wBuf' = [wBuf EXCEPT ![w] = Head(rawQueue)]
        /\ rawQueue' = Tail(rawQueue)
        /\ wPc' = [wPc EXCEPT ![w] = "parse"]
     \/ /\ rawQueue = <<>>
        /\ wPc' = [wPc EXCEPT ![w] = "done"]
        /\ UNCHANGED <<wBuf, rawQueue>>
  /\ UNCHANGED <<loopVars, mem, pool, readerVars, chan, httpVars, fwd, wItem, stamped, outQueue,
                 mainVars, arrived>>

(* for pkt := range p.rawQueue: take a packet, or end when the queue is     *)
(* closed and drained.                                                      *)
WorkerTake(w) ==
  /\ Running
  /\ wPc[w] = "take"
  /\ \/ /\ rawQueue # <<>>
        /\ wBuf' = [wBuf EXCEPT ![w] = Head(rawQueue)]
        /\ rawQueue' = Tail(rawQueue)
        /\ wPc' = [wPc EXCEPT ![w] = "parse"]
     \/ /\ rawQueue = <<>> /\ rawClosed
        /\ wPc' = [wPc EXCEPT ![w] = "done"]
        /\ UNCHANGED <<wBuf, rawQueue>>
  /\ UNCHANGED <<loopVars, mem, pool, readerVars, chan, httpVars, fwd, wItem, stamped, outQueue,
                 mainVars, arrived>>

(* ParseSyslogRFC3164 stamps the line with time.Now().UnixNano(), the       *)
(* message is copied and tokenized, and only then is the buffer released,   *)
(* into the UDP pool wherever it came from.  Nothing keeps two workers from *)
(* reading the same nanosecond, nor the wall clock from being set back, so  *)
(* any reading is possible but for what UniqueKeys and SteadyClock say.     *)
WorkerParse(w) ==
  /\ Running
  /\ wPc[w] = "parse"
  /\ \E ts \in Stamps :
       LET l == mem[wBuf[w]]
           id == [streamID |-> FacilityOf[l], ts |-> ts]
       IN /\ UniqueKeys => id \notin stamped
          /\ SteadyClock => \A earlier \in stamped : earlier.ts <= ts
          /\ wItem' = [wItem EXCEPT ![w] = [log |-> l, id |-> id]]
          /\ stamped' = stamped \cup {id}
  /\ pool' = pool \cup {wBuf[w]}
  /\ wBuf' = [wBuf EXCEPT ![w] = NoBuf]
  /\ wPc' = [wPc EXCEPT ![w] = "emit"]
  /\ UNCHANGED <<loopVars, mem, readerVars, chan, httpVars, fwd, rawQueue, outQueue, mainVars,
                 arrived>>

(* p.outQueue <- item waits for room.                                       *)
WorkerEmit(w) ==
  /\ Running
  /\ wPc[w] = "emit"
  /\ Len(outQueue) < OutCap
  /\ outQueue' = Append(outQueue, wItem[w])
  /\ wItem' = [wItem EXCEPT ![w] = NoLog]
  /\ wPc' = [wPc EXCEPT ![w] = "take"]
  /\ UNCHANGED <<loopVars, mem, pool, readerVars, chan, httpVars, fwd, rawQueue, wBuf, stamped,
                 mainVars, arrived>>

(*************************** main ******************************************)

(* The two arms of the select loop that FlushLoop describes.  The first     *)
(* takes whatever item is there.                                            *)
Consume ==
  /\ mPc = "loop"
  /\ outQueue # <<>>
  /\ Receive(Head(outQueue).log, Head(outQueue).id)
  /\ outQueue' = Tail(outQueue)
  /\ UNCHANGED <<mem, pool, readerVars, chan, httpVars, fwd, rawQueue, workVars, mainVars,
                 arrived>>

(* Mutated form: the ticker flushes only when outQueue is drained and the   *)
(* batch is full.                                                           *)
TickerFiresIfFull ==
  /\ mPc = "loop"
  /\ outQueue = <<>> /\ batchSize >= MaxBatchSize
  /\ Tick
  /\ UNCHANGED pipeVars

TickerFires ==
  /\ mPc = "loop"
  /\ Tick
  /\ UNCHANGED pipeVars

(* Mutated form: the loop returns without flushing.                         *)
SignalNoFlush ==
  /\ Signals
  /\ mPc = "loop"
  /\ mPc' = "closeHTTP"
  /\ UNCHANGED <<loopVars, mem, pool, readerVars, chan, httpVars, fwd, rawQueue, workVars,
                 outQueue, httpOpen, udpOpen, socket, dbOpen, rawClosed, outClosed, arrived>>

(* case <-sigChan: flush and return.  select may take this arm although     *)
(* outQueue holds items.                                                    *)
Signal ==
  /\ Signals
  /\ mPc = "loop"
  /\ Flush(batch, batchSize)
  /\ mPc' = "closeHTTP"
  /\ UNCHANGED <<postings, idOf, mem, pool, readerVars, chan, httpVars, fwd, rawQueue, workVars,
                 outQueue, httpOpen, udpOpen, socket, dbOpen, rawClosed, outClosed, arrived>>

(* The deferred calls, last deferred first (the ticker's Stop changes       *)
(* nothing modelled): httpListener.Close,                                   *)
CloseHTTP ==
  /\ mPc = "closeHTTP"
  /\ httpOpen' = FALSE
  /\ mPc' = "closePipe"
  /\ UNCHANGED <<udpOpen, socket, dbOpen, rawClosed, outClosed>>

(* Mutated form: pipe.Close waits before it closes rawQueue.                *)
ClosePipeLater ==
  /\ mPc = "closePipe"
  /\ mPc' = "waitWorkers"
  /\ UNCHANGED <<httpOpen, udpOpen, socket, dbOpen, rawClosed, outClosed>>

(* pipe.Close: close rawQueue,                                              *)
ClosePipe ==
  /\ mPc = "closePipe"
  /\ rawClosed' = TRUE
  /\ mPc' = "waitWorkers"
  /\ UNCHANGED <<httpOpen, udpOpen, socket, dbOpen, outClosed>>

(* Mutated form: nobody waits for the workers.                              *)
WaitForNobody ==
  /\ mPc = "waitWorkers"
  /\ outClosed' = TRUE
  /\ mPc' = "closeUDP"
  /\ UNCHANGED <<httpOpen, udpOpen, socket, dbOpen, rawClosed>>

(* wait for the workers, close outQueue,                                    *)
WaitWorkers ==
  /\ mPc = "waitWorkers"
  /\ \A w \in Workers : wPc[w] = "done"
  /\ outClosed' = TRUE
  /\ mPc' = "closeUDP"
  /\ UNCHANGED <<httpOpen, udpOpen, socket, dbOpen, rawClosed>>

(* udpListener.Close,                                                       *)
CloseUDP ==
  /\ mPc = "closeUDP"
  /\ udpOpen' = FALSE
  /\ mPc' = "stopGRPC"
  /\ UNCHANGED <<httpOpen, socket, dbOpen, rawClosed, outClosed>>

(* grpcServer.Stop: wait for the searches in flight, unlink the socket,     *)
StopGRPC ==
  /\ mPc = "stopGRPC"
  /\ socket' = FALSE
  /\ mPc' = "closeDB"
  /\ UNCHANGED <<httpOpen, udpOpen, dbOpen, rawClosed, outClosed>>

(* db.Close, and main returns.                                              *)
CloseDB ==
  /\ mPc = "closeDB"
  /\ dbOpen' = FALSE
  /\ mPc' = "exited"
  /\ UNCHANGED <<httpOpen, udpOpen, socket, rawClosed, outClosed>>

Defers ==
  /\ CloseHTTP \/ ClosePipe \/ WaitWorkers \/ CloseUDP \/ StopGRPC \/ CloseDB
  /\ UNCHANGED <<loopVars, mem, pool, readerVars, chan, httpVars, fwd, rawQueue, workVars,
                 outQueue, arrived>>

----------------------------------------------------------------------------

ReaderStep == UdpGet \/ UdpReadError \/ UdpSend
Handler(p) == ScanLine(p) \/ ScanCut(p) \/ ScanEnds(p)
Forward(s) == FwdTake(s) \/ FwdSubmit(s) \/ FwdPanic(s)
WorkerStep(w) == WorkerTake(w) \/ WorkerParse(w) \/ WorkerEmit(w)

Next ==
  \/ ReaderStep
  \/ \E l \in Datagrams : UdpRead(l)
  \/ \E p \in Posts : Request(p) \/ Handler(p)
  \/ \E s \in Sources : Forward(s)
  \/ \E w \in Workers : WorkerStep(w)
  \/ Consume \/ TickerFires \/ Signal \/ Defers

(* Goroutines that can run do run.  The network owes nothing: no fairness   *)
(* for UdpRead, Request, Signal or a handler's reading.                     *)
Fairness ==
  /\ WF_vars(UdpSend)
  /\ \A s \in Sources : WF_vars(Forward(s))
  /\ \A w \in Workers : WF_vars(WorkerStep(w))
  /\ WF_vars(Consume)
  /\ WF_vars(TickerFires)
  /\ WF_vars(Defers)

Spec == Init /\ [][Next]_vars /\ Fairness

----------------------------------------------------------------------------
(* Properties *)

(* Shape of the pipeline's state.                                           *)
PipeTypeOK ==
  /\ LoopTypeOK
  /\ mem \in [Buffers -> Logs \cup {NoLog}]
  /\ pool \subseteq Buffers
  /\ udpPc \in {"get", "read", "send", "done"}
  /\ udpBuf \in Buffers \cup {NoBuf}
  /\ chan \in [Sources -> Seq(Buffers)]
  /\ post \in [Posts -> {"new", "reading", "cut", "202", "400", "405"}]
  /\ next \in [Posts -> Nat \ {0}]
  /\ fwd \in [Sources -> Buffers \cup {NoBuf}]
  /\ rawQueue \in Seq(Buffers)
  /\ wPc \in [Workers -> {"take", "parse", "emit", "done"}]
  /\ wBuf \in [Workers -> Buffers \cup {NoBuf}]
  /\ wItem \in [Workers -> Items \cup {NoLog}]
  /\ outQueue \in Seq(Items)
  /\ stamped \subseteq RecordID
  /\ mPc \in {"loop", "closeHTTP", "closePipe", "waitWorkers", "closeUDP", "stopGRPC",
              "closeDB", "exited", "panicked"}
  /\ rawClosed \in BOOLEAN /\ outClosed \in BOOLEAN
  /\ httpOpen \in BOOLEAN /\ udpOpen \in BOOLEAN
  /\ socket \in BOOLEAN /\ dbOpen \in BOOLEAN
  /\ arrived \subseteq Logs

(* The references to packets that travel to a worker: <<place, buffer>>.  A *)
(* place is a kind, whose it is, and a position.                            *)
InFlight ==
  {<<<<"forwarder", s, 0>>, fwd[s]>> : s \in {s \in Sources : fwd[s] # NoBuf}}
    \cup (UNION {{<<<<"channel", s, i>>, chan[s][i]>> : i \in 1 .. Len(chan[s])} : s \in Sources})
    \cup {<<<<"rawQueue", "main", i>>, rawQueue[i]>> : i \in 1 .. Len(rawQueue)}
    \cup {<<<<"worker", w, 0>>, wBuf[w]>> : w \in {w \in Workers : wBuf[w] # NoBuf}}

Reading == IF udpBuf = NoBuf THEN {} ELSE {<<<<"reader", "udp", 0>>, udpBuf>>}

Pooled == {<<"pool", "udp", 0>>} \X pool

(* A buffer has one owner at a time: the pool, the UDP reader, or one       *)
(* packet on its way.  In particular a buffer that an HTTP handler made and *)
(* a worker released into the UDP pool is not overwritten while it is in    *)
(* use.                                                                     *)
BufferOwned ==
  LET refs == InFlight \cup Reading \cup Pooled
  IN \A r1, r2 \in refs : r1[2] = r2[2] => r1 = r2

(* Where line l is, by the contents of the buffers and items there.         *)
Places(l) ==
  {r[1] : r \in {r \in InFlight : mem[r[2]] = l}}
    \cup {r[1] : r \in {r \in Reading : udpPc = "send" /\ mem[r[2]] = l}}
    \cup {<<"item", w, 0>> : w \in {w \in Workers : wItem[w] # NoLog /\ wItem[w].log = l}}
    \cup {<<"outQueue", "main", i>> : i \in {i \in 1 .. Len(outQueue) : outQueue[i].log = l}}
    \cup {<<"main", "main", 0>> : x \in {x \in {l} : idOf[x] # NoID}}

(* A line that was taken from the network is in exactly one place, up to    *)
(* the end of the process: no packet is overwritten, dropped or processed   *)
(* twice between the socket and the select loop, whichever way the          *)
(* goroutines interleave and buffers are reused.                            *)
OnePlace ==
  \A l \in Logs : Cardinality(Places(l)) = IF l \in arrived THEN 1 ELSE 0

InEngine(l) == Places(l) # {}

(* What the answer to a POST says about what the engine has of its body,    *)
(* whenever one looks and wherever the lines have got to by then.  202 or a *)
(* scan that goes on: exactly the lines before the place the scan has       *)
(* reached (all of them, for 202), and no piece of another.  400: those and *)
(* at most one piece, which was left of the line at that place; whoever     *)
(* sends the body again doubles the lines and leaves the piece.  405, or a  *)
(* request that has not begun: nothing.                                     *)
AnswerTellsPrefix ==
  \A p \in Posts :
    LET places == 1 .. Len(BodyOf[p])
        pieces == {f \in UNION {CutOf[p][i] : i \in places} : InEngine(f)}
    IN /\ post[p] \in {"new", "405"} => next[p] = 1
       /\ post[p] = "202" => next[p] = Len(BodyOf[p]) + 1
       /\ \A i \in places : BodyOf[p][i] # Blank => (InEngine(BodyOf[p][i]) <=> i < next[p])
       /\ \A f, g \in pieces : f = g
       /\ \A f \in pieces : /\ post[p] \in {"cut", "400"}
                           /\ next[p] \in places /\ f \in CutOf[p][next[p]]

(* The engine behind the network is an instance of FlushLoop, although the  *)
(* loop takes whatever comes out of outQueue.  No item comes twice; with    *)
(* UniqueKeys, which says that the clock and the facility told the lines    *)
(* apart when they were parsed, no two lines share a key when they get to   *)
(* the loop, whichever way workers overtake each other.  And no batch is    *)
(* left unwritten, not even by the signal that ends the loop.               *)
ImplementsLoop == LoopSpec

(* The key of line l has a record, of l or of a line that was parsed to the *)
(* same key, or such a line was in a batch that could not be written.  With *)
(* unique keys there is no such line but l.                                 *)
Settled(l) ==
  /\ idOf[l] # NoID
  /\ \E k \in Logs : idOf[k] = idOf[l] /\ (k \in lost \/ raw[idOf[l]] = k)

(* While nothing stops the engine, every line that was taken from the       *)
(* network gets to its key in LevelDB, unless a batch could not be written: *)
(* also when the clock repeats itself or is set back, and a line replaces   *)
(* one that has the same key.                                               *)
ArrivedIsStored == \A l \in Logs : l \in arrived ~> (Settled(l) \/ mPc # "loop")

(* An orderly stop is complete: main returns only after every worker has    *)
(* ended, with nothing unparsed in rawQueue, the listeners closed, the      *)
(* socket file gone, and no worker is left to send on the closed outQueue.  *)
OrderlyExit ==
  /\ outClosed => \A w \in Workers : wPc[w] = "done"
  /\ mPc = "exited" => rawQueue = <<>> /\ ~socket /\ ~dbOpen /\ ~udpOpen

(* What the select loop had taken before the signal survives it.  What was  *)
(* still on its way to the loop need not: see AcceptedSurvives.             *)
ConsumedIsDurable == mPc # "loop" => \A l \in Logs : idOf[l] # NoID => Settled(l)

(* A shutdown ends, in main's return or in a panic, unless the workers are  *)
(* blocked on a full outQueue: main no longer reads it, and waits for them. *)
ShutdownStallsOnlyWhenFull ==
  mPc = "closeHTTP" ~> (~Running \/ Len(outQueue) = OutCap)

(* README.md:279 speaks of a stale socket file only after an unexpected     *)
(* exit, and Stop promises to unlink it: once a signal has ended the loop   *)
(* and the process is gone, so is the socket file.  The code panics in a    *)
(* forwarder when a packet is under way while pipe.Close closes rawQueue.   *)
SignalUnlinksSocket == ~Running => ~socket

(* After an orderly stop every line of a body that was answered with 202    *)
(* has its record.  It does not hold: nobody drains the channels and        *)
(* outQueue once the loop has returned.                                     *)
AcceptedSurvives ==
  mPc = "exited" =>
    \A p \in Posts : post[p] = "202" =>
      \A i \in 1 .. Len(BodyOf[p]) : BodyOf[p][i] # Blank => Settled(BodyOf[p][i])

(* memory_index.go:40 calls a posting list a chronological array.  A worker *)
(* stamps a line when it parses it, and another may overtake it on the way  *)
(* to outQueue, be the clock as steady as it may.                           *)
PostingsChronological ==
  \A t \in Terms : \A i, j \in 1 .. Len(postings[t]) :
    i < j => postings[t][i].ts <= postings[t][j].ts

=============================================================================
