--------------------------- MODULE PipelineProofs ---------------------------
(***************************************************************************)
(* The engine from socket to LevelDB, for any number of lines, requests,    *)
(* buffers and workers, every channel capacity and any clock: its state     *)
(* keeps its shape, a buffer and a line are in one place each, the answer   *)
(* to a POST tells what the engine has of its body, an instance of the      *)
(* flush loop runs behind the network, what the loop has taken is durable   *)
(* once a signal has ended it, and the engine is left in order.             *)
(***************************************************************************)
EXTENDS Pipeline, FlushLoopProofs

(* A buffer on its way to a worker holds a line, and a goroutine that needs *)
(* a buffer or an item has one.                                             *)
Loaded ==
  /\ udpPc = "read" => udpBuf \in Buffers
  /\ udpPc = "send" => udpBuf \in Buffers /\ mem[udpBuf] \in Logs
  /\ \A s \in Sources : /\ fwd[s] # NoBuf => mem[fwd[s]] \in Logs
                        /\ \A i \in 1 .. Len(chan[s]) : mem[chan[s][i]] \in Logs
  /\ \A i \in 1 .. Len(rawQueue) : mem[rawQueue[i]] \in Logs
  /\ \A w \in Workers : /\ wPc[w] = "parse" => wBuf[w] \in Buffers /\ mem[wBuf[w]] \in Logs
                        /\ wPc[w] = "emit" => wItem[w] \in Items

LEMMA FreshIsBuffer == Fresh \subseteq Buffers
BY DEF Fresh

LEMMA HeadTail ==
  ASSUME NEW S, NEW s \in Seq(S), s # << >>
  PROVE  /\ Head(s) \in S /\ Head(s) = s[1] /\ Tail(s) \in Seq(S)
         /\ Len(s) \in Nat /\ Len(s) >= 1 /\ Len(Tail(s)) = Len(s) - 1
         /\ \A i \in 1 .. Len(Tail(s)) : Tail(s)[i] = s[i + 1] /\ i + 1 \in 1 .. Len(s)
OBVIOUS

LEMMA Appended ==
  ASSUME NEW S, NEW s \in Seq(S), NEW e \in S
  PROVE  /\ Append(s, e) \in Seq(S)
         /\ \A i \in 1 .. Len(Append(s, e)) :
              Append(s, e)[i] = e \/ (i \in 1 .. Len(s) /\ Append(s, e)[i] = s[i])
OBVIOUS

----------------------------------------------------------------------------
(* Type correctness *)

(* The loop's variables.  That a step of the pipeline is one of the loop    *)
(* comes later (LoopStepInside); this needs less.                           *)
LEMMA LoopTypeInside ==
  ASSUME PipeTypeOK, [Next]_vars
  PROVE  LoopTypeOK'
<1>t. LoopTypeOK
  BY DEF PipeTypeOK
<1>1. CASE Consume
  <2>1. outQueue \in Seq(Items) /\ outQueue # << >>
    BY <1>1 DEF Consume, PipeTypeOK
  <2>2. Head(outQueue) \in Items
    BY <2>1, HeadTail
  <2>3. Head(outQueue).log \in Logs /\ Head(outQueue).id \in RecordID
    BY <2>2 DEF Items
  <2> QED BY <1>1, <1>t, <2>3, ReceiveType DEF Consume
<1>2. CASE TickerFires \/ Signal
  BY <1>2, <1>t, TickType DEF TickerFires, Signal, Tick
<1>3. CASE UNCHANGED loopVars
  BY <1>3, <1>t DEF loopVars, LoopTypeOK
<1>4. CASE Defers \/ ReaderStep \/ \E l \in Datagrams : UdpRead(l)
  BY <1>3, <1>4 DEF Defers, ReaderStep, UdpGet, UdpReadError, UdpSend, UdpRead
<1>5. CASE \E p \in Posts : Request(p) \/ Handler(p)
  BY <1>3, <1>5 DEF Request, Handler, ScanLine, ScanCut, ScanEnds
<1>6. CASE \E s \in Sources : Forward(s)
  BY <1>3, <1>6 DEF Forward, FwdTake, FwdSubmit, FwdPanic
<1>7. CASE \E w \in Workers : WorkerStep(w)
  BY <1>3, <1>7 DEF WorkerStep, WorkerTake, WorkerParse, WorkerEmit
<1>8. CASE UNCHANGED vars
  BY <1>3, <1>8 DEF vars
<1> QED BY <1>1, <1>2, <1>4, <1>5, <1>6, <1>7, <1>8 DEF Next

PipeInv == PipeTypeOK /\ Loaded

LEMMA PipeInvInit == Init => PipeInv
<1> SUFFICES ASSUME Init
             PROVE  PipeInv
  OBVIOUS
<1>1. LoopTypeOK
  BY LoopTypeInit DEF Init
<1>2. PipeTypeOK
  <2>1. << >> \in Seq(Buffers) /\ << >> \in Seq(Items)
    OBVIOUS
  <2>2. /\ mem \in [Buffers -> Logs \cup {NoLog}]
        /\ chan \in [Sources -> Seq(Buffers)]
        /\ fwd \in [Sources -> Buffers \cup {NoBuf}]
        /\ post \in [Posts -> {"new", "reading", "cut", "202", "400", "405"}]
        /\ next \in [Posts -> Nat \ {0}]
    BY <2>1 DEF Init
  <2>3. /\ wPc \in [Workers -> {"take", "parse", "emit", "done"}]
        /\ wBuf \in [Workers -> Buffers \cup {NoBuf}]
        /\ wItem \in [Workers -> Items \cup {NoLog}]
    BY DEF Init
  <2>4. /\ pool \subseteq Buffers /\ arrived \subseteq Logs /\ stamped \subseteq RecordID
        /\ udpPc = "get" /\ udpBuf = NoBuf /\ mPc = "loop"
        /\ rawQueue \in Seq(Buffers) /\ outQueue \in Seq(Items)
    BY <2>1 DEF Init
  <2>5. /\ rawClosed \in BOOLEAN /\ outClosed \in BOOLEAN
        /\ httpOpen \in BOOLEAN /\ udpOpen \in BOOLEAN
        /\ socket \in BOOLEAN /\ dbOpen \in BOOLEAN
    BY DEF Init
  <2> QED BY <1>1, <2>2, <2>3, <2>4, <2>5 DEF PipeTypeOK
<1>3. Loaded
  BY PipelineAssumption DEF Init, Loaded
<1> QED BY <1>2, <1>3 DEF PipeInv

(* One lemma per goroutine.  The loop's variables are LoopTypeInside's.     *)

LEMMA ReaderType ==
  ASSUME PipeInv, LoopTypeOK', ReaderStep \/ \E l \in Datagrams : UdpRead(l)
  PROVE  PipeInv'
<1>t. PipeTypeOK /\ Loaded /\ NoBuf \notin Buffers /\ Datagrams \subseteq Logs
  BY PipelineAssumption DEF PipeInv
<1>1. CASE UdpGet
  <2>1. PICK b \in pool \cup Fresh : udpBuf' = b /\ pool' = pool \ {b}
    BY <1>1 DEF UdpGet
  <2>2. b \in Buffers
    BY <1>t, FreshIsBuffer DEF PipeTypeOK
  <2>3. PipeTypeOK'
    BY <1>t, <1>1, <2>1, <2>2 DEF UdpGet, PipeTypeOK, readerVars, httpVars, workVars, mainVars
  <2>4. Loaded'
    BY <1>t, <1>1, <2>1, <2>2 DEF UdpGet, Loaded, httpVars, workVars, mainVars
  <2> QED BY <2>3, <2>4 DEF PipeInv
<1>2. ASSUME NEW l \in Datagrams, UdpRead(l)
      PROVE  PipeInv'
  <2>1. /\ udpPc = "read" /\ udpBuf \in Buffers /\ udpBuf' = udpBuf /\ udpPc' = "send"
        /\ mem' = [mem EXCEPT ![udpBuf] = l] /\ l \in Logs
    BY <1>t, <1>2 DEF UdpRead, Loaded
  <2>2. /\ mem' \in [Buffers -> Logs \cup {NoLog}] /\ mem'[udpBuf] = l
        /\ \A b : mem[b] \in Logs /\ b \in Buffers => mem'[b] \in Logs
    BY <1>t, <2>1 DEF PipeTypeOK
  <2>3. PipeTypeOK'
    BY <1>t, <1>2, <2>1, <2>2 DEF UdpRead, PipeTypeOK, httpVars, workVars, mainVars
  <2>4. Loaded'
    <3>1. \A s \in Sources : /\ fwd[s] \in Buffers \cup {NoBuf}
                             /\ \A i \in 1 .. Len(chan[s]) : chan[s][i] \in Buffers
      BY <1>t DEF PipeTypeOK
    <3>2. \A i \in 1 .. Len(rawQueue) : rawQueue[i] \in Buffers
      BY <1>t DEF PipeTypeOK
    <3> QED BY <1>t, <1>2, <2>1, <2>2, <3>1, <3>2 DEF UdpRead, Loaded, httpVars, workVars, mainVars
  <2> QED BY <2>3, <2>4 DEF PipeInv
<1>3. CASE UdpReadError
  <2>1. PipeTypeOK'
    BY <1>t, <1>3 DEF UdpReadError, PipeTypeOK, httpVars, workVars, mainVars
  <2>2. Loaded'
    BY <1>t, <1>3 DEF UdpReadError, Loaded, httpVars, workVars, mainVars
  <2> QED BY <2>1, <2>2 DEF PipeInv
<1>4. CASE UdpSend
  <2>1. udpBuf \in Buffers /\ mem[udpBuf] \in Logs
    BY <1>t, <1>4 DEF UdpSend, Loaded
  <2>2. chan["udp"] \in Seq(Buffers) /\ "udp" \in Sources
    BY <1>t DEF PipeTypeOK, Sources
  <2>3. /\ Append(chan["udp"], udpBuf) \in Seq(Buffers)
        /\ \A i \in 1 .. Len(Append(chan["udp"], udpBuf)) :
             mem[Append(chan["udp"], udpBuf)[i]] \in Logs
    BY <1>t, <2>1, <2>2, Appended DEF Loaded
  <2>4. chan' = [chan EXCEPT !["udp"] = Append(chan["udp"], udpBuf)] /\ chan \in [Sources -> Seq(Buffers)]
    BY <1>t, <1>4 DEF UdpSend, PipeTypeOK
  <2>5. PipeTypeOK'
    BY <1>t, <1>4, <2>2, <2>3, <2>4 DEF UdpSend, PipeTypeOK, httpVars, workVars, mainVars
  <2>6. Loaded'
    <3>1. \A s \in Sources : \A i \in 1 .. Len(chan'[s]) : mem[chan'[s][i]] \in Logs
      BY <1>t, <2>2, <2>3, <2>4 DEF Loaded
    <3> QED BY <1>t, <1>4, <3>1 DEF UdpSend, Loaded, httpVars, workVars, mainVars
  <2> QED BY <2>5, <2>6 DEF PipeInv
<1> QED BY <1>1, <1>2, <1>3, <1>4 DEF ReaderStep

(* A line that a handler sends.                                             *)
LEMMA SendType ==
  ASSUME PipeTypeOK, Loaded, NEW line \in Logs, SendLine(line)
  PROVE  /\ mem' \in [Buffers -> Logs \cup {NoLog}]
         /\ chan' \in [Sources -> Seq(Buffers)]
         /\ arrived' \subseteq Logs
         /\ \A c \in Buffers : mem[c] \in Logs => mem'[c] \in Logs
         /\ \A s \in Sources : \A i \in 1 .. Len(chan'[s]) : mem'[chan'[s][i]] \in Logs
<1>1. PICK b \in Fresh : /\ mem' = [mem EXCEPT ![b] = line]
                         /\ chan' = [chan EXCEPT !["http"] = Append(@, b)]
  BY DEF SendLine
<1>2. b \in Buffers
  BY FreshIsBuffer
<1>3. /\ mem' \in [Buffers -> Logs \cup {NoLog}] /\ mem'[b] = line
      /\ \A c \in Buffers : mem[c] \in Logs => mem'[c] \in Logs
  BY <1>1, <1>2 DEF PipeTypeOK
<1>4. chan["http"] \in Seq(Buffers) /\ "http" \in Sources /\ chan \in [Sources -> Seq(Buffers)]
  BY DEF PipeTypeOK, Sources
<1>5. Append(chan["http"], b) \in Seq(Buffers)
  BY <1>2, <1>4
<1>6. \A s \in Sources : \A i \in 1 .. Len(chan[s]) : chan[s][i] \in Buffers
  BY DEF PipeTypeOK
<1>7. \A s \in Sources : \A i \in 1 .. Len(chan'[s]) : mem'[chan'[s][i]] \in Logs
  <2>1. ASSUME NEW i \in 1 .. Len(Append(chan["http"], b))
        PROVE  mem'[Append(chan["http"], b)[i]] \in Logs
    <3>1. Append(chan["http"], b)[i] = b
          \/ (i \in 1 .. Len(chan["http"]) /\ Append(chan["http"], b)[i] = chan["http"][i])
      BY <1>2, <1>4, <2>1, Appended
    <3> QED BY <1>3, <1>4, <1>6, <3>1 DEF Loaded
  <2>2. \A s \in Sources \ {"http"} : chan'[s] = chan[s]
    BY <1>1, <1>4
  <2>3. chan'["http"] = Append(chan["http"], b)
    BY <1>1, <1>4
  <2> QED BY <1>3, <1>6, <2>1, <2>2, <2>3 DEF Loaded
<1>8. chan' \in [Sources -> Seq(Buffers)] /\ arrived' \subseteq Logs
  BY <1>1, <1>4, <1>5 DEF SendLine, PipeTypeOK
<1> QED BY <1>3, <1>7, <1>8

LEMMA HandlerType ==
  ASSUME PipeInv, LoopTypeOK', NEW p \in Posts, Request(p) \/ Handler(p)
  PROVE  PipeInv'
<1>t. PipeTypeOK /\ Loaded /\ NoBuf \notin Buffers
  BY PipelineAssumption DEF PipeInv
<1>p. /\ post' \in [Posts -> {"new", "reading", "cut", "202", "400", "405"}]
      /\ next' \in [Posts -> Nat \ {0}]
  <2>1. CASE Request(p)
    BY <1>t, <2>1 DEF Request, PipeTypeOK
  <2>2. CASE ScanLine(p)
    BY <1>t, <2>2 DEF ScanLine, PipeTypeOK
  <2>3. CASE ScanCut(p)
    BY <1>t, <2>3 DEF ScanCut, PipeTypeOK
  <2>4. CASE ScanEnds(p)
    BY <1>t, <2>4 DEF ScanEnds, PipeTypeOK
  <2> QED BY <2>1, <2>2, <2>3, <2>4 DEF Handler
<1>u. UNCHANGED <<pool, readerVars, fwd, rawQueue, workVars, outQueue, mainVars>>
  BY DEF Request, Handler, ScanLine, ScanCut, ScanEnds
<1>1. CASE UNCHANGED <<mem, chan, arrived>>
  <2>1. PipeTypeOK'
    BY <1>t, <1>p, <1>u, <1>1 DEF PipeTypeOK, readerVars, workVars, mainVars
  <2>2. Loaded'
    BY <1>t, <1>u, <1>1 DEF Loaded, readerVars, workVars, mainVars
  <2> QED BY <2>1, <2>2 DEF PipeInv
<1>2. ASSUME NEW line \in Logs, SendLine(line)
      PROVE  PipeInv'
  <2>1. /\ mem' \in [Buffers -> Logs \cup {NoLog}]
        /\ chan' \in [Sources -> Seq(Buffers)]
        /\ arrived' \subseteq Logs
        /\ \A c \in Buffers : mem[c] \in Logs => mem'[c] \in Logs
        /\ \A s \in Sources : \A i \in 1 .. Len(chan'[s]) : mem'[chan'[s][i]] \in Logs
    BY <1>t, <1>2, SendType
  <2>2. PipeTypeOK'
    BY <1>t, <1>p, <1>u, <2>1 DEF PipeTypeOK, readerVars, workVars, mainVars
  <2>3. Loaded'
    <3>1. \A i \in 1 .. Len(rawQueue) : rawQueue[i] \in Buffers
      BY <1>t DEF PipeTypeOK
    <3>2. \A s \in Sources : fwd[s] \in Buffers \cup {NoBuf}
      BY <1>t DEF PipeTypeOK
    <3> QED BY <1>t, <1>u, <2>1, <3>1, <3>2 DEF Loaded, readerVars, workVars, mainVars
  <2> QED BY <2>2, <2>3 DEF PipeInv
<1>3. CASE ScanLine(p) \/ ScanCut(p)
  <2>1. next[p] \in 1 .. Len(BodyOf[p])
    BY <1>t, <1>3 DEF ScanLine, ScanCut, PipeTypeOK
  <2>2. BodyOf[p][next[p]] \in Logs \cup {Blank} /\ CutOf[p][next[p]] \subseteq Logs
    BY <2>1, PipelineAssumption
  <2> QED BY <1>1, <1>2, <1>3, <2>2 DEF ScanLine, ScanCut
<1> QED BY <1>1, <1>3 DEF Request, Handler, ScanEnds

LEMMA ForwarderType ==
  ASSUME PipeInv, LoopTypeOK', NEW s \in Sources, Forward(s)
  PROVE  PipeInv'
<1>t. PipeTypeOK /\ Loaded /\ NoBuf \notin Buffers
  BY PipelineAssumption DEF PipeInv
<1>c. chan \in [Sources -> Seq(Buffers)] /\ fwd \in [Sources -> Buffers \cup {NoBuf}]
      /\ rawQueue \in Seq(Buffers)
  BY <1>t DEF PipeTypeOK
<1>1. CASE FwdTake(s)
  <2>1. chan[s] \in Seq(Buffers) /\ chan[s] # << >>
    BY <1>c, <1>1 DEF FwdTake
  <2>2. /\ Head(chan[s]) \in Buffers /\ Head(chan[s]) = chan[s][1] /\ Tail(chan[s]) \in Seq(Buffers)
        /\ 1 \in 1 .. Len(chan[s])
        /\ \A i \in 1 .. Len(Tail(chan[s])) : Tail(chan[s])[i] = chan[s][i + 1]
                                             /\ i + 1 \in 1 .. Len(chan[s])
    BY <2>1, HeadTail
  <2>3. /\ fwd' \in [Sources -> Buffers \cup {NoBuf}] /\ fwd'[s] = chan[s][1]
        /\ chan' \in [Sources -> Seq(Buffers)] /\ chan'[s] = Tail(chan[s])
        /\ \A r \in Sources \ {s} : fwd'[r] = fwd[r] /\ chan'[r] = chan[r]
    BY <1>c, <1>1, <2>2 DEF FwdTake
  <2>4. PipeTypeOK'
    BY <1>t, <1>1, <2>3 DEF FwdTake, PipeTypeOK, readerVars, httpVars, workVars, mainVars
  <2>5. \A r \in Sources : /\ fwd'[r] # NoBuf => mem[fwd'[r]] \in Logs
                           /\ \A i \in 1 .. Len(chan'[r]) : mem[chan'[r][i]] \in Logs
    <3>1. \A r \in Sources : /\ fwd[r] # NoBuf => mem[fwd[r]] \in Logs
                             /\ \A i \in 1 .. Len(chan[r]) : mem[chan[r][i]] \in Logs
      BY <1>t DEF Loaded
    <3>2. mem[fwd'[s]] \in Logs
      BY <2>2, <2>3, <3>1
    <3>3. \A i \in 1 .. Len(chan'[s]) : mem[chan'[s][i]] \in Logs
      BY <2>2, <2>3, <3>1
    <3> QED BY <2>3, <3>1, <3>2, <3>3
  <2>6. Loaded'
    BY <1>t, <1>1, <2>5 DEF FwdTake, Loaded, readerVars, httpVars, workVars, mainVars
  <2> QED BY <2>4, <2>6 DEF PipeInv
<1>2. CASE FwdSubmit(s)
  <2>1. fwd[s] \in Buffers /\ mem[fwd[s]] \in Logs
    BY <1>t, <1>c, <1>2 DEF FwdSubmit, Loaded
  <2>2. rawQueue' = Append(rawQueue, fwd[s]) /\ rawQueue' \in Seq(Buffers)
    BY <1>c, <1>2, <2>1 DEF FwdSubmit
  <2>3. \A i \in 1 .. Len(rawQueue') : mem[rawQueue'[i]] \in Logs
    BY <1>t, <1>c, <2>1, <2>2, Appended DEF Loaded
  <2>4. fwd' = [fwd EXCEPT ![s] = NoBuf]
    BY <1>2 DEF FwdSubmit
  <2>5. PipeTypeOK'
    BY <1>t, <1>2, <2>2, <2>4 DEF FwdSubmit, PipeTypeOK, readerVars, httpVars, workVars, mainVars
  <2>6. Loaded'
    BY <1>t, <1>c, <1>2, <2>3, <2>4 DEF FwdSubmit, Loaded, readerVars, httpVars, workVars, mainVars
  <2> QED BY <2>5, <2>6 DEF PipeInv
<1>3. CASE FwdPanic(s)
  <2>1. PipeTypeOK'
    BY <1>t, <1>3 DEF FwdPanic, PipeTypeOK, readerVars, httpVars, workVars
  <2>2. Loaded'
    BY <1>t, <1>3 DEF FwdPanic, Loaded, readerVars, httpVars, workVars
  <2> QED BY <2>1, <2>2 DEF PipeInv
<1> QED BY <1>1, <1>2, <1>3 DEF Forward

LEMMA WorkerType ==
  ASSUME PipeInv, LoopTypeOK', NEW w \in Workers, WorkerStep(w)
  PROVE  PipeInv'
<1>t. PipeTypeOK /\ Loaded /\ NoBuf \notin Buffers
  BY PipelineAssumption DEF PipeInv
<1>c. /\ wPc \in [Workers -> {"take", "parse", "emit", "done"}]
      /\ wBuf \in [Workers -> Buffers \cup {NoBuf}]
      /\ wItem \in [Workers -> Items \cup {NoLog}]
      /\ rawQueue \in Seq(Buffers) /\ outQueue \in Seq(Items) /\ stamped \subseteq RecordID /\ pool \subseteq Buffers
  BY <1>t DEF PipeTypeOK
<1>1. CASE WorkerTake(w) /\ rawQueue # << >> /\ rawQueue' = Tail(rawQueue)
           /\ wBuf' = [wBuf EXCEPT ![w] = Head(rawQueue)] /\ wPc' = [wPc EXCEPT ![w] = "parse"]
  <2>1. /\ Head(rawQueue) \in Buffers /\ Head(rawQueue) = rawQueue[1]
        /\ Tail(rawQueue) \in Seq(Buffers) /\ 1 \in 1 .. Len(rawQueue)
        /\ \A i \in 1 .. Len(Tail(rawQueue)) : Tail(rawQueue)[i] = rawQueue[i + 1]
                                              /\ i + 1 \in 1 .. Len(rawQueue)
    BY <1>c, <1>1, HeadTail
  <2>2. PipeTypeOK'
    BY <1>t, <1>c, <1>1, <2>1 DEF WorkerTake, PipeTypeOK, readerVars, httpVars, mainVars
  <2>3. \A i \in 1 .. Len(rawQueue') : mem[rawQueue'[i]] \in Logs
    BY <1>t, <1>1, <2>1 DEF Loaded
  <2>4. Loaded'
    BY <1>t, <1>c, <1>1, <2>1, <2>3 DEF WorkerTake, Loaded, readerVars, httpVars, mainVars
  <2> QED BY <2>2, <2>4 DEF PipeInv
<1>2. CASE WorkerTake(w) /\ wPc' = [wPc EXCEPT ![w] = "done"] /\ UNCHANGED <<wBuf, rawQueue>>
  <2>1. PipeTypeOK'
    BY <1>t, <1>c, <1>2 DEF WorkerTake, PipeTypeOK, readerVars, httpVars, mainVars
  <2>2. Loaded'
    BY <1>t, <1>c, <1>2 DEF WorkerTake, Loaded, readerVars, httpVars, mainVars
  <2> QED BY <2>1, <2>2 DEF PipeInv
<1>3. CASE WorkerParse(w)
  <2> DEFINE l == mem[wBuf[w]]
  <2>1. l \in Logs /\ wBuf[w] \in Buffers
    BY <1>t, <1>3 DEF WorkerParse, Loaded
  <2>2. PICK ts \in Stamps :
          /\ wItem' = [wItem EXCEPT ![w] = [log |-> l, id |-> [streamID |-> FacilityOf[l], ts |-> ts]]]
          /\ stamped' = stamped \cup {[streamID |-> FacilityOf[l], ts |-> ts]}
    BY <1>3 DEF WorkerParse
  <2> DEFINE id == [streamID |-> FacilityOf[l], ts |-> ts]
             item == [log |-> l, id |-> id]
  <2>3. item \in Items /\ id \in RecordID
    BY <2>1, PipelineAssumption DEF Items, RecordID
  <2>4. /\ wItem' = [wItem EXCEPT ![w] = item] /\ wBuf' = [wBuf EXCEPT ![w] = NoBuf]
        /\ wPc' = [wPc EXCEPT ![w] = "emit"] /\ pool' = pool \cup {wBuf[w]}
        /\ stamped' = stamped \cup {id}
    BY <1>3, <2>2 DEF WorkerParse
  <2> HIDE DEF id, item
  <2>5. PipeTypeOK'
    BY <1>t, <1>c, <1>3, <2>1, <2>3, <2>4
       DEF WorkerParse, PipeTypeOK, readerVars, httpVars, mainVars
  <2>6. Loaded'
    BY <1>t, <1>c, <1>3, <2>3, <2>4 DEF WorkerParse, Loaded, readerVars, httpVars, mainVars
  <2> QED BY <2>5, <2>6 DEF PipeInv
<1>4. CASE WorkerEmit(w)
  <2>1. wItem[w] \in Items
    BY <1>t, <1>4 DEF WorkerEmit, Loaded
  <2>2. outQueue' \in Seq(Items)
    BY <1>c, <1>4, <2>1 DEF WorkerEmit
  <2>3. PipeTypeOK'
    BY <1>t, <1>c, <1>4, <2>2 DEF WorkerEmit, PipeTypeOK, readerVars, httpVars, mainVars
  <2>4. Loaded'
    BY <1>t, <1>c, <1>4 DEF WorkerEmit, Loaded, readerVars, httpVars, mainVars
  <2> QED BY <2>3, <2>4 DEF PipeInv
<1> QED BY <1>1, <1>2, <1>3, <1>4 DEF WorkerStep, WorkerTake

LEMMA MainType ==
  ASSUME PipeInv, LoopTypeOK', Consume \/ TickerFires \/ Signal \/ Defers
  PROVE  PipeInv'
<1>t. PipeTypeOK /\ Loaded
  BY DEF PipeInv
<1>1. CASE Consume
  <2>1. outQueue' \in Seq(Items)
    BY <1>t, <1>1, HeadTail DEF Consume, PipeTypeOK
  <2>2. PipeTypeOK'
    BY <1>t, <1>1, <2>1 DEF Consume, PipeTypeOK, readerVars, httpVars, workVars, mainVars
  <2>3. Loaded'
    BY <1>t, <1>1 DEF Consume, Loaded, readerVars, httpVars, workVars, mainVars
  <2> QED BY <2>2, <2>3 DEF PipeInv
<1>2. CASE TickerFires
  BY <1>t, <1>2 DEF TickerFires, PipeInv, PipeTypeOK, Loaded, pipeVars, readerVars, httpVars,
     workVars, mainVars
<1>3. CASE Signal
  <2>1. PipeTypeOK'
    BY <1>t, <1>3 DEF Signal, PipeTypeOK, readerVars, httpVars, workVars
  <2>2. Loaded'
    BY <1>t, <1>3 DEF Signal, Loaded, readerVars, httpVars, workVars
  <2> QED BY <2>1, <2>2 DEF PipeInv
<1>4. CASE Defers
  <2>1. /\ mPc' \in {"closePipe", "waitWorkers", "closeUDP", "stopGRPC", "closeDB", "exited"}
        /\ rawClosed' \in BOOLEAN /\ outClosed' \in BOOLEAN
        /\ httpOpen' \in BOOLEAN /\ udpOpen' \in BOOLEAN
        /\ socket' \in BOOLEAN /\ dbOpen' \in BOOLEAN
    BY <1>t, <1>4 DEF Defers, PipeTypeOK, CloseHTTP, ClosePipe, WaitWorkers, CloseUDP, StopGRPC,
       CloseDB
  <2>2. PipeTypeOK'
    BY <1>t, <1>4, <2>1 DEF Defers, PipeTypeOK, readerVars, httpVars, workVars
  <2>3. Loaded'
    BY <1>t, <1>4 DEF Defers, Loaded, readerVars, httpVars, workVars
  <2> QED BY <2>2, <2>3 DEF PipeInv
<1> QED BY <1>1, <1>2, <1>3, <1>4

LEMMA PipeInvNext == PipeInv /\ [Next]_vars => PipeInv'
<1> SUFFICES ASSUME PipeInv, [Next]_vars
             PROVE  PipeInv'
  OBVIOUS
<1>1. LoopTypeOK'
  BY LoopTypeInside DEF PipeInv
<1>2. CASE UNCHANGED vars
  BY <1>2 DEF PipeInv, PipeTypeOK, LoopTypeOK, Loaded, vars, loopVars, pipeVars, readerVars,
     httpVars, workVars, mainVars
<1> QED BY <1>1, <1>2, ReaderType, HandlerType, ForwarderType, WorkerType, MainType DEF Next

(* The inductive invariant of the pipeline: the shape of its state, and      *)
(* every reference under way leads to a buffer that holds a line.           *)
THEOREM PipeInvariant == Spec => []PipeInv
BY PipeInvInit, PipeInvNext, PTL DEF Spec

(* The pipeline's state keeps its shape: a worker never parses a buffer     *)
(* without a line, and only items reach the loop.                           *)
THEOREM PipeTypeCorrect == Spec => []PipeTypeOK
<1>1. PipeInv => PipeTypeOK
  BY DEF PipeInv
<1> QED BY <1>1, PipeInvariant, PTL

----------------------------------------------------------------------------
(* What a handler has sent *)

LinesSent ==
  \A p \in Posts : \A i \in 1 .. Len(BodyOf[p]) :
    BodyOf[p][i] # Blank => (BodyOf[p][i] \in arrived <=> i < next[p])

(* A piece is sent once, of the line the scan has come to.                  *)
PiecesSent ==
  \A p \in Posts : \A i \in 1 .. Len(BodyOf[p]) : \A f \in CutOf[p][i] :
    f \in arrived => /\ i = next[p] /\ post[p] \in {"cut", "400"}
                     /\ \A g \in CutOf[p][i] : g \in arrived => f = g

(* How far the scan of request p has come.                                  *)
Scanned(p) ==
  /\ next[p] <= Len(BodyOf[p]) + 1
  /\ post[p] \in {"new", "405"} => next[p] = 1
  /\ post[p] = "202" => next[p] = Len(BodyOf[p]) + 1

SentInv == PipeTypeOK /\ (\A p \in Posts : Scanned(p)) /\ LinesSent /\ PiecesSent

(* Only UdpRead, ScanLine and ScanCut take lines from the network.          *)
LEMMA SentInvNext == SentInv /\ PipeTypeOK' /\ [Next]_vars => SentInv'
<1> DEFINE Goal == (\A p \in Posts : Scanned(p)') /\ LinesSent' /\ PiecesSent'
<1> SUFFICES ASSUME SentInv, PipeTypeOK', [Next]_vars
             PROVE  Goal
  BY DEF SentInv
<1>t. PipeTypeOK /\ (\A p \in Posts : Scanned(p)) /\ LinesSent /\ PiecesSent
  BY DEF SentInv
<1>l. \A p \in Posts : Len(BodyOf[p]) \in Nat /\ next[p] \in Nat
  BY <1>t, PipelineAssumption DEF PipeTypeOK
<1>1. CASE UNCHANGED <<post, next, arrived>>
  BY <1>t, <1>1 DEF Scanned, LinesSent, PiecesSent
<1>2. ASSUME NEW l \in Datagrams, UdpRead(l)
      PROVE  Goal
  <2>1. UNCHANGED <<post, next>> /\ arrived' = arrived \cup {l}
    BY <1>2 DEF UdpRead, httpVars
  <2>2. \A p \in Posts : \A i \in 1 .. Len(BodyOf[p]) : BodyOf[p][i] # l /\ l \notin CutOf[p][i]
    BY OccurrenceAssumption
  <2> QED BY <1>t, <2>1, <2>2 DEF Scanned, LinesSent, PiecesSent
<1>3. ASSUME NEW p \in Posts, Request(p) \/ ScanEnds(p)
      PROVE  Goal
  <2>1. /\ UNCHANGED <<next, arrived>> /\ \A r \in Posts \ {p} : post'[r] = post[r]
    BY <1>t, <1>3 DEF Request, ScanEnds, PipeTypeOK
  <2>2. \/ post[p] = "new" /\ post'[p] \in {"reading", "405"}
        \/ post[p] = "reading" /\ post'[p] = "202" /\ next[p] > Len(BodyOf[p])
        \/ post[p] \in {"reading", "cut"} /\ post'[p] = "400"
    BY <1>t, <1>3 DEF Request, ScanEnds, PipeTypeOK
  <2>3. \A r \in Posts : Scanned(r)'
    BY <1>t, <1>l, <2>1, <2>2 DEF Scanned
  <2>4. PiecesSent'
    <3>1. post[p] \in {"cut", "400"} => post'[p] \in {"cut", "400"}
      BY <2>2
    <3> QED BY <1>t, <2>1, <3>1 DEF PiecesSent
  <2> QED BY <1>t, <2>1, <2>3, <2>4 DEF LinesSent
<1>4. ASSUME NEW p \in Posts, ScanLine(p)
      PROVE  Goal
  <2>0. PICK line : line = BodyOf[p][next[p]]
    OBVIOUS
  <2>1. /\ post' = post /\ post[p] = "reading" /\ next[p] \in 1 .. Len(BodyOf[p])
        /\ next'[p] = next[p] + 1 /\ \A r \in Posts \ {p} : next'[r] = next[r]
    BY <1>t, <1>l, <1>4 DEF ScanLine, PipeTypeOK
  <2>2. \/ line = Blank /\ arrived' = arrived
        \/ line # Blank /\ arrived' = arrived \cup {line}
    BY <1>4, <2>0 DEF ScanLine, SendLine
  <2>3. \A r \in Posts : Scanned(r)'
    BY <1>t, <1>l, <2>1 DEF Scanned
  <2>4. ASSUME NEW r \in Posts, NEW i \in 1 .. Len(BodyOf[r]), BodyOf[r][i] # Blank
        PROVE  BodyOf[r][i] \in arrived' <=> i < next'[r]
    <3>1. BodyOf[r][i] \in arrived <=> i < next[r]
      BY <1>t, <2>4 DEF LinesSent
    <3>2. BodyOf[r][i] = line => r = p /\ i = next[p]
      BY <2>0, <2>1, <2>4, OccurrenceAssumption
    <3>3. CASE r = p /\ i = next[p]
      BY <1>l, <2>0, <2>1, <2>2, <2>4, <3>3
    <3>4. CASE ~(r = p /\ i = next[p])
      <4>1. BodyOf[r][i] \in arrived' <=> BodyOf[r][i] \in arrived
        BY <2>2, <3>2, <3>4
      <4>2. i < next'[r] <=> i < next[r]
        BY <1>l, <2>1, <3>4
      <4> QED BY <3>1, <4>1, <4>2
    <3> QED BY <3>3, <3>4
  <2>5. PiecesSent'
    <3>1. \A r \in Posts : \A i \in 1 .. Len(BodyOf[r]) : \A f \in CutOf[r][i] : f # line
      BY <2>0, <2>1, OccurrenceAssumption
    <3>2. \A i \in 1 .. Len(BodyOf[p]) : \A f \in CutOf[p][i] : f \notin arrived
      BY <1>t, <2>1 DEF PiecesSent
    <3>3. \A r \in Posts : \A i \in 1 .. Len(BodyOf[r]) : \A f \in CutOf[r][i] :
            f \in arrived' <=> f \in arrived
      BY <2>2, <3>1
    <3> QED BY <1>t, <2>1, <3>2, <3>3 DEF PiecesSent
  <2> QED BY <2>3, <2>4, <2>5 DEF LinesSent
<1>5. ASSUME NEW p \in Posts, ScanCut(p)
      PROVE  Goal
  <2>1. /\ next' = next /\ post[p] = "reading" /\ next[p] \in 1 .. Len(BodyOf[p])
        /\ post'[p] = "cut" /\ \A r \in Posts \ {p} : post'[r] = post[r]
    BY <1>t, <1>l, <1>5 DEF ScanCut, PipeTypeOK
  <2>2. PICK piece \in CutOf[p][next[p]] : arrived' = arrived \cup {piece}
    BY <1>5 DEF ScanCut, SendLine
  <2>3. \A r \in Posts : Scanned(r)'
    BY <1>t, <2>1 DEF Scanned
  <2>4. \A r \in Posts : \A i \in 1 .. Len(BodyOf[r]) : BodyOf[r][i] # piece
    BY <2>1, <2>2, OccurrenceAssumption
  <2>5. \A r \in Posts : \A i \in 1 .. Len(BodyOf[r]) : piece \in CutOf[r][i] => r = p /\ i = next[p]
    BY <2>1, <2>2, OccurrenceAssumption
  <2>6. \A i \in 1 .. Len(BodyOf[p]) : \A f \in CutOf[p][i] : f \notin arrived
    BY <1>t, <2>1 DEF PiecesSent
  <2>7. LinesSent'
    BY <1>t, <2>1, <2>2, <2>4 DEF LinesSent
  <2>8. PiecesSent'
    BY <1>t, <2>1, <2>2, <2>5, <2>6 DEF PiecesSent
  <2> QED BY <2>3, <2>7, <2>8
<1> HIDE DEF Goal
<1>6. CASE ReaderStep \/ Consume \/ TickerFires \/ Signal \/ Defers \/ UNCHANGED vars
  BY <1>1, <1>6 DEF ReaderStep, UdpGet, UdpReadError, UdpSend, Consume, TickerFires, Signal, Defers,
     vars, pipeVars, httpVars
<1>7. CASE (\E s \in Sources : Forward(s)) \/ (\E w \in Workers : WorkerStep(w))
  BY <1>1, <1>7 DEF Forward, FwdTake, FwdSubmit, FwdPanic, WorkerStep, WorkerTake, WorkerParse,
     WorkerEmit, httpVars
<1> QED BY <1>2, <1>3, <1>4, <1>5, <1>6, <1>7 DEF Next, Handler

(* The lines of a body are sent in order, each once, and behind them at     *)
(* most one piece of the next one.                                          *)
THEOREM SentInvariant == Spec => []SentInv
<1>1. Init /\ PipeTypeOK => SentInv
  <2> SUFFICES ASSUME Init, PipeTypeOK
               PROVE  SentInv
    OBVIOUS
  <2>1. \A p \in Posts : next[p] = 1 /\ post[p] = "new" /\ Len(BodyOf[p]) \in Nat
    BY PipelineAssumption DEF Init
  <2>2. arrived = {}
    BY DEF Init
  <2> QED BY <2>1, <2>2 DEF SentInv, Scanned, LinesSent, PiecesSent
<1> QED BY <1>1, SentInvNext, PipeTypeCorrect, PTL DEF Spec

----------------------------------------------------------------------------
(* Who has a buffer.  A holder is a kind and whose it is, as in a place.    *)

Holds(k, o, b) ==
  \/ k = "pool" /\ o = "udp" /\ b \in pool
  \/ k = "reader" /\ o = "udp" /\ udpBuf = b
  \/ k = "forwarder" /\ o \in Sources /\ fwd[o] = b
  \/ k = "channel" /\ o \in Sources /\ InSeq(b, chan[o])
  \/ k = "rawQueue" /\ o = "main" /\ InSeq(b, rawQueue)
  \/ k = "worker" /\ o \in Workers /\ wBuf[o] = b

OneHolder ==
  \A b \in Buffers : \A k1, o1, k2, o2 :
    Holds(k1, o1, b) /\ Holds(k2, o2, b) => k1 = k2 /\ o1 = o2

Unrepeated(s) == \A i, j \in 1 .. Len(s) : s[i] = s[j] => i = j

(* A goroutine has a buffer or an item only while it needs one.             *)
EmptyHanded ==
  \A w \in Workers : /\ wPc[w] # "parse" => wBuf[w] = NoBuf
                     /\ wPc[w] # "emit" => wItem[w] = NoLog

OwnInv ==
  /\ PipeInv /\ EmptyHanded /\ OneHolder
  /\ Unrepeated(rawQueue) /\ \A s \in Sources : Unrepeated(chan[s])

LEMMA AppendUnrepeated ==
  ASSUME NEW S, NEW s \in Seq(S), NEW e \in S
  PROVE  /\ Unrepeated(s) /\ ~InSeq(e, s) => Unrepeated(Append(s, e))
         /\ \A x : InSeq(x, Append(s, e)) <=> InSeq(x, s) \/ x = e
<1>1. /\ Len(s) \in Nat /\ Len(Append(s, e)) = Len(s) + 1 /\ Append(s, e)[Len(s) + 1] = e
      /\ \A i \in 1 .. Len(s) : Append(s, e)[i] = s[i]
  OBVIOUS
<1>2. \A x : InSeq(x, Append(s, e)) <=> InSeq(x, s) \/ x = e
  BY <1>1 DEF InSeq
<1>3. ASSUME Unrepeated(s), ~InSeq(e, s), NEW i \in 1 .. Len(s) + 1, NEW j \in 1 .. Len(s) + 1,
             Append(s, e)[i] = Append(s, e)[j]
      PROVE  i = j
  BY <1>1, <1>3 DEF Unrepeated, InSeq
<1> QED BY <1>1, <1>2, <1>3 DEF Unrepeated

LEMMA TailUnrepeated ==
  ASSUME NEW S, NEW s \in Seq(S), s # << >>
  PROVE  /\ \A x : InSeq(x, s) <=> x = Head(s) \/ InSeq(x, Tail(s))
         /\ Unrepeated(s) => Unrepeated(Tail(s)) /\ ~InSeq(Head(s), Tail(s))
<1>1. /\ Head(s) = s[1] /\ Len(s) \in Nat /\ Len(s) >= 1 /\ Len(Tail(s)) = Len(s) - 1
      /\ \A i \in 1 .. Len(Tail(s)) : Tail(s)[i] = s[i + 1]
  BY HeadTail
<1>2. ASSUME NEW x
      PROVE  InSeq(x, s) <=> x = Head(s) \/ InSeq(x, Tail(s))
  <2>1. ASSUME NEW i \in 1 .. Len(s), s[i] = x, i # 1
        PROVE  InSeq(x, Tail(s))
    <3>1. i - 1 \in 1 .. Len(Tail(s)) /\ Tail(s)[i - 1] = x
      BY <1>1, <2>1
    <3> QED BY <3>1 DEF InSeq
  <2>2. InSeq(x, Tail(s)) => InSeq(x, s)
    BY <1>1 DEF InSeq
  <2>3. InSeq(Head(s), s)
    BY <1>1 DEF InSeq
  <2> QED BY <1>1, <2>1, <2>2, <2>3 DEF InSeq
<1>3. ASSUME Unrepeated(s)
      PROVE  Unrepeated(Tail(s)) /\ ~InSeq(Head(s), Tail(s))
  BY <1>1, <1>3 DEF Unrepeated, InSeq
<1> QED BY <1>2, <1>3

(* A buffer is passed on: the only new holder is <<k, o>>, the only one     *)
(* that b has afterwards.                                                   *)
LEMMA PassedOn ==
  ASSUME OneHolder, NEW b, NEW k, NEW o,
         \A c \in Buffers : \A h, u : Holds(h, u, c)' /\ c # b => Holds(h, u, c),
         \A h, u : Holds(h, u, b)' => h = k /\ u = o
  PROVE  OneHolder'
BY DEF OneHolder

(* Buffers are kept or dropped.                                             *)
LEMMA NoneTaken ==
  ASSUME OneHolder, \A c \in Buffers : \A h, u : Holds(h, u, c)' => Holds(h, u, c)
  PROVE  OneHolder'
BY DEF OneHolder

LEMMA FreshUnheld ==
  ASSUME NEW b \in Fresh
  PROVE  b \in Buffers /\ \A h, u : ~Holds(h, u, b)
BY DEF Fresh, Referenced, Holds

LEMMA ReaderOwn ==
  ASSUME OwnInv, PipeInv', ReaderStep \/ \E l \in Datagrams : UdpRead(l)
  PROVE  OwnInv'
<1>t. /\ PipeTypeOK /\ Loaded /\ EmptyHanded /\ OneHolder /\ NoBuf \notin Buffers
      /\ Unrepeated(rawQueue) /\ \A s \in Sources : Unrepeated(chan[s])
  BY PipelineAssumption DEF OwnInv, PipeInv
<1>e. /\ UNCHANGED <<fwd, rawQueue, wPc, wBuf, wItem>> /\ EmptyHanded'
  BY <1>t DEF ReaderStep, UdpGet, UdpReadError, UdpSend, UdpRead, workVars, EmptyHanded
<1>1. CASE UdpGet
  <2>1. PICK b \in pool \cup Fresh : udpBuf' = b /\ pool' = pool \ {b}
    BY <1>1 DEF UdpGet
  <2>2. chan' = chan /\ b \in Buffers
    BY <1>t, <1>1, FreshIsBuffer DEF UdpGet, PipeTypeOK
  <2>3. \A h, u : Holds(h, u, b) => h = "pool"
    <3>1. CASE b \in pool
      <4>1. Holds("pool", "udp", b)
        BY <3>1 DEF Holds
      <4> QED BY <1>t, <2>2, <4>1 DEF OneHolder
    <3>2. CASE b \in Fresh
      BY <3>2, FreshUnheld
    <3> QED BY <3>1, <3>2
  <2>4. \A h, u : Holds(h, u, b)' => h = "reader" /\ u = "udp"
    BY <1>e, <2>1, <2>2, <2>3 DEF Holds
  <2>5. \A c \in Buffers : \A h, u : Holds(h, u, c)' /\ c # b => Holds(h, u, c)
    BY <1>e, <2>1, <2>2 DEF Holds
  <2>6. OneHolder'
    BY <1>t, <2>4, <2>5, PassedOn
  <2> QED BY <1>t, <1>e, <2>2, <2>6 DEF OwnInv
<1>2. CASE UdpReadError \/ \E l \in Datagrams : UdpRead(l)
  <2>1. pool' = pool /\ chan' = chan /\ udpBuf' \in {udpBuf, NoBuf}
    BY <1>2 DEF UdpReadError, UdpRead
  <2>2. \A c \in Buffers : \A h, u : Holds(h, u, c)' => Holds(h, u, c)
    BY <1>t, <1>e, <2>1 DEF Holds
  <2>3. OneHolder'
    BY <1>t, <2>2, NoneTaken
  <2> QED BY <1>t, <1>e, <2>1, <2>3 DEF OwnInv
<1>3. CASE UdpSend
  <2>0. PICK b : b = udpBuf
    OBVIOUS
  <2>1. b \in Buffers /\ pool' = pool /\ udpBuf' = NoBuf
    BY <2>0, <1>t, <1>3 DEF UdpSend, Loaded
  <2>2. /\ chan["udp"] \in Seq(Buffers) /\ chan'["udp"] = Append(chan["udp"], b)
        /\ \A s \in Sources \ {"udp"} : chan'[s] = chan[s]
    BY <2>0, <1>t, <1>3 DEF UdpSend, PipeTypeOK, Sources
  <2>3. Holds("reader", "udp", b)
    BY <2>0 DEF Holds
  <2>4. \A h, u : Holds(h, u, b) => h = "reader"
    BY <1>t, <2>1, <2>3 DEF OneHolder
  <2>5. ~InSeq(b, chan["udp"])
    BY <2>4 DEF Holds, Sources
  <2>6. Unrepeated(chan'["udp"]) /\ \A x : InSeq(x, chan'["udp"]) <=> InSeq(x, chan["udp"]) \/ x = b
    BY <1>t, <2>1, <2>2, <2>5, AppendUnrepeated DEF Sources
  <2>7. \A h, u : Holds(h, u, b)' => h = "channel" /\ u = "udp"
    BY <1>t, <1>e, <2>1, <2>2, <2>4, <2>6 DEF Holds
  <2>8. \A c \in Buffers : \A h, u : Holds(h, u, c)' /\ c # b => Holds(h, u, c)
    BY <1>t, <1>e, <2>1, <2>2, <2>6 DEF Holds
  <2>9. OneHolder'
    BY <1>t, <2>7, <2>8, PassedOn
  <2>10. \A s \in Sources : Unrepeated(chan'[s])
    BY <1>t, <2>2, <2>6
  <2> QED BY <1>t, <1>e, <2>9, <2>10 DEF OwnInv
<1> QED BY <1>1, <1>2, <1>3 DEF ReaderStep

LEMMA HandlerOwn ==
  ASSUME OwnInv, PipeInv', NEW p \in Posts, Request(p) \/ Handler(p)
  PROVE  OwnInv'
<1>t. /\ PipeTypeOK /\ EmptyHanded /\ OneHolder /\ NoBuf \notin Buffers
      /\ Unrepeated(rawQueue) /\ \A s \in Sources : Unrepeated(chan[s])
  BY PipelineAssumption DEF OwnInv, PipeInv
<1>e. /\ UNCHANGED <<pool, udpBuf, fwd, rawQueue, wPc, wBuf, wItem>> /\ EmptyHanded'
  BY <1>t DEF Request, Handler, ScanLine, ScanCut, SendLine, ScanEnds, readerVars, workVars, EmptyHanded
<1>1. CASE chan' = chan
  <2>1. \A c \in Buffers : \A h, u : Holds(h, u, c)' => Holds(h, u, c)
    BY <1>e, <1>1 DEF Holds
  <2>2. OneHolder'
    BY <1>t, <2>1, NoneTaken
  <2> QED BY <1>t, <1>e, <1>1, <2>2 DEF OwnInv
<1>2. ASSUME NEW b \in Fresh, chan' = [chan EXCEPT !["http"] = Append(@, b)]
      PROVE  OwnInv'
  <2>1. b \in Buffers /\ \A h, u : ~Holds(h, u, b)
    BY FreshUnheld
  <2>2. /\ chan["http"] \in Seq(Buffers) /\ chan'["http"] = Append(chan["http"], b)
        /\ \A s \in Sources \ {"http"} : chan'[s] = chan[s]
    BY <1>t, <1>2 DEF PipeTypeOK, Sources
  <2>3. ~InSeq(b, chan["http"])
    BY <2>1 DEF Holds, Sources
  <2>4. Unrepeated(chan'["http"]) /\ \A x : InSeq(x, chan'["http"]) <=> InSeq(x, chan["http"]) \/ x = b
    BY <1>t, <2>1, <2>2, <2>3, AppendUnrepeated DEF Sources
  <2>5. \A h, u : Holds(h, u, b)' => h = "channel" /\ u = "http"
    BY <1>e, <2>1, <2>2, <2>4 DEF Holds
  <2>6. \A c \in Buffers : \A h, u : Holds(h, u, c)' /\ c # b => Holds(h, u, c)
    BY <1>e, <2>2, <2>4 DEF Holds
  <2>7. OneHolder'
    BY <1>t, <2>5, <2>6, PassedOn
  <2>8. \A s \in Sources : Unrepeated(chan'[s])
    BY <1>t, <2>2, <2>4
  <2> QED BY <1>t, <1>e, <2>7, <2>8 DEF OwnInv
<1> QED BY <1>1, <1>2 DEF Request, Handler, ScanLine, ScanCut, SendLine, ScanEnds

LEMMA ForwarderOwn ==
  ASSUME OwnInv, PipeInv', NEW s \in Sources, Forward(s)
  PROVE  OwnInv'
<1>t. /\ PipeTypeOK /\ EmptyHanded /\ OneHolder /\ NoBuf \notin Buffers
      /\ Unrepeated(rawQueue) /\ \A r \in Sources : Unrepeated(chan[r])
  BY PipelineAssumption DEF OwnInv, PipeInv
<1>e. /\ UNCHANGED <<pool, udpBuf, wPc, wBuf, wItem>> /\ EmptyHanded'
  BY <1>t DEF Forward, FwdTake, FwdSubmit, FwdPanic, readerVars, workVars, EmptyHanded
<1>1. CASE FwdTake(s)
  <2>0. PICK b, T : b = Head(chan[s]) /\ T = Tail(chan[s])
    OBVIOUS
  <2>1. /\ chan[s] \in Seq(Buffers) /\ chan[s] # << >> /\ b \in Buffers
        /\ chan'[s] = T /\ fwd'[s] = b /\ rawQueue' = rawQueue
        /\ \A r \in Sources \ {s} : chan'[r] = chan[r] /\ fwd'[r] = fwd[r]
    BY <2>0, <1>t, <1>1, HeadTail DEF FwdTake, PipeTypeOK
  <2>2. /\ \A x : InSeq(x, chan[s]) <=> x = b \/ InSeq(x, T)
        /\ Unrepeated(T) /\ ~InSeq(b, T)
    BY <2>0, <1>t, <2>1, TailUnrepeated
  <2>3. Holds("channel", s, b)
    BY <2>0, <2>2 DEF Holds
  <2>4. \A h, u : Holds(h, u, b) => h = "channel" /\ u = s
    BY <1>t, <2>1, <2>3 DEF OneHolder
  <2>5. \A h, u : Holds(h, u, b)' => h = "forwarder" /\ u = s
    <3>1. \A u \in Sources : ~InSeq(b, chan'[u])
      BY <2>1, <2>2, <2>4 DEF Holds
    <3>2. \A u \in Sources \ {s} : fwd'[u] # b
      BY <2>1, <2>4 DEF Holds
    <3>3. b \notin pool /\ udpBuf # b /\ ~InSeq(b, rawQueue) /\ \A v \in Workers : wBuf[v] # b
      BY <2>4 DEF Holds
    <3> QED BY <1>e, <2>1, <3>1, <3>2, <3>3 DEF Holds
  <2>6. \A c \in Buffers : \A h, u : Holds(h, u, c)' /\ c # b => Holds(h, u, c)
    <3>1. \A x : \A u \in Sources : InSeq(x, chan'[u]) => InSeq(x, chan[u])
      BY <2>1, <2>2
    <3>2. \A u \in Sources : fwd'[u] = fwd[u] \/ fwd'[u] = b
      BY <2>1
    <3> QED BY <1>e, <2>1, <3>1, <3>2 DEF Holds
  <2>7. OneHolder'
    <3>1. OneHolder
      BY <1>t
    <3> QED BY <2>5, <2>6, <3>1 DEF OneHolder
  <2>8. \A r \in Sources : Unrepeated(chan'[r])
    BY <1>t, <2>1, <2>2
  <2> QED BY <1>t, <1>e, <2>1, <2>7, <2>8 DEF OwnInv
<1>2. CASE FwdSubmit(s)
  <2>0. PICK b : b = fwd[s]
    OBVIOUS
  <2>1. /\ rawQueue \in Seq(Buffers) /\ b \in Buffers /\ chan' = chan
        /\ rawQueue' = Append(rawQueue, b) /\ fwd'[s] = NoBuf
        /\ \A r \in Sources \ {s} : fwd'[r] = fwd[r]
    BY <2>0, <1>t, <1>2 DEF FwdSubmit, PipeTypeOK
  <2>2. Holds("forwarder", s, b)
    BY <2>0 DEF Holds
  <2>3. \A h, u : Holds(h, u, b) => h = "forwarder" /\ u = s
    BY <2>0, <1>t, <2>1, <2>2 DEF OneHolder
  <2>4. ~InSeq(b, rawQueue)
    BY <2>3 DEF Holds
  <2>5. Unrepeated(rawQueue') /\ \A x : InSeq(x, rawQueue') <=> InSeq(x, rawQueue) \/ x = b
    BY <1>t, <2>1, <2>4, AppendUnrepeated
  <2>6. \A h, u : Holds(h, u, b)' => h = "rawQueue" /\ u = "main"
    BY <1>t, <1>e, <2>1, <2>3, <2>5 DEF Holds
  <2>7. \A c \in Buffers : \A h, u : Holds(h, u, c)' /\ c # b => Holds(h, u, c)
    BY <1>t, <1>e, <2>1, <2>5 DEF Holds
  <2>8. OneHolder'
    BY <1>t, <2>6, <2>7, PassedOn
  <2> QED BY <1>t, <1>e, <2>1, <2>5, <2>8 DEF OwnInv
<1>3. CASE FwdPanic(s)
  <2>1. UNCHANGED <<fwd, chan, rawQueue>>
    BY <1>3 DEF FwdPanic
  <2>2. \A c \in Buffers : \A h, u : Holds(h, u, c)' => Holds(h, u, c)
    BY <1>e, <2>1 DEF Holds
  <2>3. OneHolder'
    BY <1>t, <2>2, NoneTaken
  <2> QED BY <1>t, <1>e, <2>1, <2>3 DEF OwnInv
<1> QED BY <1>1, <1>2, <1>3 DEF Forward

LEMMA WorkerOwn ==
  ASSUME OwnInv, PipeInv', NEW w \in Workers, WorkerStep(w)
  PROVE  OwnInv'
<1>t. /\ PipeTypeOK /\ Loaded /\ EmptyHanded /\ OneHolder /\ NoBuf \notin Buffers
      /\ Unrepeated(rawQueue) /\ \A s \in Sources : Unrepeated(chan[s])
  BY PipelineAssumption DEF OwnInv, PipeInv
<1>e. UNCHANGED <<udpBuf, fwd, chan>>
  BY DEF WorkerStep, WorkerTake, WorkerParse, WorkerEmit, readerVars
<1>h. EmptyHanded'
  BY <1>t DEF WorkerStep, WorkerTake, WorkerParse, WorkerEmit, EmptyHanded, PipeTypeOK
<1>1. CASE WorkerTake(w) /\ rawQueue # << >>
  <2>0. PICK b : b = Head(rawQueue)
    OBVIOUS
  <2>1. /\ rawQueue \in Seq(Buffers) /\ b \in Buffers /\ rawQueue' = Tail(rawQueue)
        /\ pool' = pool /\ wBuf'[w] = b
        /\ \A v \in Workers \ {w} : wBuf'[v] = wBuf[v]
    BY <2>0, <1>t, <1>1, HeadTail DEF WorkerTake, PipeTypeOK
  <2>2. /\ \A x : InSeq(x, rawQueue) <=> x = b \/ InSeq(x, Tail(rawQueue))
        /\ Unrepeated(Tail(rawQueue)) /\ ~InSeq(b, Tail(rawQueue))
    BY <2>0, <1>t, <1>1, <2>1, TailUnrepeated
  <2>3. Holds("rawQueue", "main", b)
    BY <2>0, <2>2 DEF Holds
  <2>4. \A h, u : Holds(h, u, b) => h = "rawQueue"
    BY <1>t, <2>1, <2>3 DEF OneHolder
  <2>5. \A h, u : Holds(h, u, b)' => h = "worker" /\ u = w
    BY <1>e, <2>1, <2>2, <2>4 DEF Holds
  <2>6. \A c \in Buffers : \A h, u : Holds(h, u, c)' /\ c # b => Holds(h, u, c)
    BY <1>e, <2>1, <2>2 DEF Holds
  <2>7. OneHolder'
    BY <1>t, <2>5, <2>6, PassedOn
  <2> QED BY <1>t, <1>e, <1>h, <2>1, <2>2, <2>7 DEF OwnInv
<1>2. CASE (WorkerTake(w) /\ rawQueue = << >>) \/ WorkerEmit(w)
  <2>1. UNCHANGED <<pool, wBuf, rawQueue>>
    BY <1>2 DEF WorkerTake, WorkerEmit
  <2>2. \A c \in Buffers : \A h, u : Holds(h, u, c)' => Holds(h, u, c)
    BY <1>e, <2>1 DEF Holds
  <2>3. OneHolder'
    BY <1>t, <2>2, NoneTaken
  <2> QED BY <1>t, <1>e, <1>h, <2>1, <2>3 DEF OwnInv
<1>3. CASE WorkerParse(w)
  <2>0. PICK b : b = wBuf[w]
    OBVIOUS
  <2>1. /\ b \in Buffers /\ pool' = pool \cup {b} /\ rawQueue' = rawQueue
        /\ wBuf'[w] = NoBuf /\ \A v \in Workers \ {w} : wBuf'[v] = wBuf[v]
    BY <2>0, <1>t, <1>3 DEF WorkerParse, Loaded, PipeTypeOK
  <2>2. Holds("worker", w, b)
    BY <2>0 DEF Holds
  <2>3. \A h, u : Holds(h, u, b) => h = "worker" /\ u = w
    BY <2>0, <1>t, <2>1, <2>2 DEF OneHolder
  <2>4. \A h, u : Holds(h, u, b)' => h = "pool" /\ u = "udp"
    BY <1>t, <1>e, <2>1, <2>3 DEF Holds
  <2>5. \A c \in Buffers : \A h, u : Holds(h, u, c)' /\ c # b => Holds(h, u, c)
    BY <1>t, <1>e, <2>1 DEF Holds
  <2>6. OneHolder'
    BY <1>t, <2>4, <2>5, PassedOn
  <2> QED BY <1>t, <1>e, <1>h, <2>1, <2>6 DEF OwnInv
<1> QED BY <1>1, <1>2, <1>3 DEF WorkerStep

LEMMA OwnInvNext == OwnInv /\ PipeInv' /\ [Next]_vars => OwnInv'
<1> SUFFICES ASSUME OwnInv, PipeInv', [Next]_vars
             PROVE  OwnInv'
  OBVIOUS
<1>1. CASE Consume \/ TickerFires \/ Signal \/ Defers \/ UNCHANGED vars
  <2>1. UNCHANGED <<pool, udpBuf, fwd, chan, rawQueue, wPc, wBuf, wItem>>
    BY <1>1 DEF Consume, TickerFires, Signal, Defers, vars, pipeVars, readerVars, workVars
  <2> QED BY <2>1 DEF OwnInv, EmptyHanded, OneHolder, Holds
<1> QED BY <1>1, ReaderOwn, HandlerOwn, ForwarderOwn, WorkerOwn DEF Next

THEOREM OwnInvariant == Spec => []OwnInv
<1>1. Init /\ PipeInv => OwnInv
  <2> SUFFICES ASSUME Init, PipeInv
               PROVE  OwnInv
    OBVIOUS
  <2>1. \A b \in Buffers : \A h, u : ~Holds(h, u, b)
    BY PipelineAssumption DEF Init, Holds, InSeq
  <2> QED BY <2>1 DEF Init, OwnInv, EmptyHanded, OneHolder, Unrepeated
<1> QED BY <1>1, OwnInvNext, PipeInvariant, PTL DEF Spec

(* Buffer b is on its way, with a line that counts as arrived.              *)
UnderWay(b) ==
  \/ udpPc = "send" /\ udpBuf = b
  \/ \E s \in Sources : fwd[s] = b \/ InSeq(b, chan[s])
  \/ InSeq(b, rawQueue)
  \/ \E w \in Workers : wBuf[w] = b

(* Buffer b is at position i of what <<k, o>> has.                          *)
AtPosition(k, o, i, b) ==
  IF k = "channel" THEN o \in Sources /\ i \in 1 .. Len(chan[o]) /\ chan[o][i] = b
  ELSE IF k = "rawQueue" THEN i \in 1 .. Len(rawQueue) /\ rawQueue[i] = b
  ELSE i = 0

(* The references in InFlight, one kind of holder after the other.          *)
LEMMA FlightMember ==
  ASSUME NEW r
  PROVE  r \in InFlight <=>
           \/ \E s \in Sources : fwd[s] # NoBuf /\ r = <<<<"forwarder", s, 0>>, fwd[s]>>
           \/ \E s \in Sources : \E i \in 1 .. Len(chan[s]) : r = <<<<"channel", s, i>>, chan[s][i]>>
           \/ \E i \in 1 .. Len(rawQueue) : r = <<<<"rawQueue", "main", i>>, rawQueue[i]>>
           \/ \E w \in Workers : wBuf[w] # NoBuf /\ r = <<<<"worker", w, 0>>, wBuf[w]>>
<1> DEFINE F == {<<<<"forwarder", s, 0>>, fwd[s]>> : s \in {s \in Sources : fwd[s] # NoBuf}}
           U == UNION {{<<<<"channel", s, i>>, chan[s][i]>> : i \in 1 .. Len(chan[s])} : s \in Sources}
           R == {<<<<"rawQueue", "main", i>>, rawQueue[i]>> : i \in 1 .. Len(rawQueue)}
           W == {<<<<"worker", w, 0>>, wBuf[w]>> : w \in {w \in Workers : wBuf[w] # NoBuf}}
<1>1. InFlight = F \cup U \cup R \cup W
  BY DEF InFlight
<1>2. r \in InFlight <=> r \in F \/ r \in U \/ r \in R \/ r \in W
  <2> HIDE DEF F, U, R, W
  <2> QED BY <1>1
<1>3. r \in F <=> \E s \in Sources : fwd[s] # NoBuf /\ r = <<<<"forwarder", s, 0>>, fwd[s]>>
  OBVIOUS
<1>4. r \in U <=> \E s \in Sources : \E i \in 1 .. Len(chan[s]) : r = <<<<"channel", s, i>>, chan[s][i]>>
  OBVIOUS
<1>5. r \in R <=> \E i \in 1 .. Len(rawQueue) : r = <<<<"rawQueue", "main", i>>, rawQueue[i]>>
  OBVIOUS
<1>6. r \in W <=> \E w \in Workers : wBuf[w] # NoBuf /\ r = <<<<"worker", w, 0>>, wBuf[w]>>
  OBVIOUS
<1> HIDE DEF F, U, R, W
<1> QED BY <1>2, <1>3, <1>4, <1>5, <1>6

LEMMA FlightHeld ==
  ASSUME PipeTypeOK, NEW r \in InFlight
  PROVE  \E k, o, i : \E b \in Buffers : /\ r = <<<<k, o, i>>, b>>
                                         /\ Holds(k, o, b) /\ AtPosition(k, o, i, b)
                                         /\ UnderWay(b)
<1>c. /\ fwd \in [Sources -> Buffers \cup {NoBuf}] /\ wBuf \in [Workers -> Buffers \cup {NoBuf}]
      /\ (\A s \in Sources : \A i \in 1 .. Len(chan[s]) : chan[s][i] \in Buffers)
      /\ (\A i \in 1 .. Len(rawQueue) : rawQueue[i] \in Buffers)
  BY DEF PipeTypeOK
<1>1. ASSUME NEW s \in Sources, fwd[s] # NoBuf
      PROVE  fwd[s] \in Buffers /\ Holds("forwarder", s, fwd[s])
             /\ AtPosition("forwarder", s, 0, fwd[s]) /\ UnderWay(fwd[s])
  BY <1>c, <1>1 DEF Holds, AtPosition, UnderWay
<1>2. ASSUME NEW s \in Sources, NEW i \in 1 .. Len(chan[s])
      PROVE  chan[s][i] \in Buffers /\ Holds("channel", s, chan[s][i])
             /\ AtPosition("channel", s, i, chan[s][i]) /\ UnderWay(chan[s][i])
  BY <1>c DEF Holds, AtPosition, InSeq, UnderWay
<1>3. ASSUME NEW i \in 1 .. Len(rawQueue)
      PROVE  rawQueue[i] \in Buffers /\ Holds("rawQueue", "main", rawQueue[i])
             /\ AtPosition("rawQueue", "main", i, rawQueue[i]) /\ UnderWay(rawQueue[i])
  BY <1>c DEF Holds, AtPosition, InSeq, UnderWay
<1>4. ASSUME NEW w \in Workers, wBuf[w] # NoBuf
      PROVE  wBuf[w] \in Buffers /\ Holds("worker", w, wBuf[w])
             /\ AtPosition("worker", w, 0, wBuf[w]) /\ UnderWay(wBuf[w])
  BY <1>c, <1>4 DEF Holds, AtPosition, UnderWay
<1>5. CASE \E s \in Sources : fwd[s] # NoBuf /\ r = <<<<"forwarder", s, 0>>, fwd[s]>>
  BY <1>5, <1>1
<1>6. CASE \E s \in Sources : \E i \in 1 .. Len(chan[s]) : r = <<<<"channel", s, i>>, chan[s][i]>>
  BY <1>6, <1>2
<1>7. CASE \E i \in 1 .. Len(rawQueue) : r = <<<<"rawQueue", "main", i>>, rawQueue[i]>>
  BY <1>7, <1>3
<1>8. CASE \E w \in Workers : wBuf[w] # NoBuf /\ r = <<<<"worker", w, 0>>, wBuf[w]>>
  BY <1>8, <1>4
<1> QED BY <1>5, <1>6, <1>7, <1>8, FlightMember

LEMMA RefHeld ==
  ASSUME PipeTypeOK, NEW r \in InFlight \cup Reading \cup Pooled
  PROVE  \E k, o, i : \E b \in Buffers : /\ r = <<<<k, o, i>>, b>>
                                         /\ Holds(k, o, b) /\ AtPosition(k, o, i, b)
<1>c. udpBuf \in Buffers \cup {NoBuf} /\ pool \subseteq Buffers
  BY DEF PipeTypeOK
<1>1. CASE r \in Reading
  <2>1. r = <<<<"reader", "udp", 0>>, udpBuf>> /\ udpBuf \in Buffers
    BY <1>c, <1>1 DEF Reading
  <2>2. Holds("reader", "udp", udpBuf) /\ AtPosition("reader", "udp", 0, udpBuf)
    BY DEF Holds, AtPosition
  <2> QED BY <2>1, <2>2
<1>2. CASE r \in Pooled
  <2>1. PICK b \in pool : r = <<<<"pool", "udp", 0>>, b>>
    BY <1>2 DEF Pooled
  <2>2. b \in Buffers /\ Holds("pool", "udp", b) /\ AtPosition("pool", "udp", 0, b)
    BY <1>c DEF Holds, AtPosition
  <2> QED BY <2>1, <2>2
<1>3. CASE r \in InFlight
  BY <1>3, FlightHeld
<1> QED BY <1>1, <1>2, <1>3

(* A buffer has one owner at a time, whichever way packets, workers and the *)
(* pool interleave: nobody writes a buffer that somebody else still reads.  *)
THEOREM BufferOwnedCorrect == Spec => []BufferOwned
<1>1. ASSUME OwnInv, NEW r1 \in InFlight \cup Reading \cup Pooled,
             NEW r2 \in InFlight \cup Reading \cup Pooled, r1[2] = r2[2]
      PROVE  r1 = r2
  <2>t. PipeTypeOK /\ OneHolder /\ Unrepeated(rawQueue) /\ \A s \in Sources : Unrepeated(chan[s])
    BY <1>1 DEF OwnInv, PipeInv
  <2>1. PICK k1, o1, i1 : \E b \in Buffers : /\ r1 = <<<<k1, o1, i1>>, b>>
                                             /\ Holds(k1, o1, b) /\ AtPosition(k1, o1, i1, b)
    BY <2>t, RefHeld
  <2>2. PICK b1 \in Buffers : /\ r1 = <<<<k1, o1, i1>>, b1>>
                              /\ Holds(k1, o1, b1) /\ AtPosition(k1, o1, i1, b1)
    BY <2>1
  <2>3. PICK k2, o2, i2 : \E b \in Buffers : /\ r2 = <<<<k2, o2, i2>>, b>>
                                             /\ Holds(k2, o2, b) /\ AtPosition(k2, o2, i2, b)
    BY <2>t, RefHeld
  <2>4. PICK b2 \in Buffers : /\ r2 = <<<<k2, o2, i2>>, b2>>
                              /\ Holds(k2, o2, b2) /\ AtPosition(k2, o2, i2, b2)
    BY <2>3
  <2>5. b1 = b2
    BY <1>1, <2>2, <2>4
  <2>6. k1 = k2 /\ o1 = o2
    BY <2>t, <2>2, <2>4, <2>5 DEF OneHolder
  <2>7. i1 = i2
    BY <2>t, <2>2, <2>4, <2>5, <2>6 DEF AtPosition, Unrepeated
  <2> QED BY <2>2, <2>4, <2>5, <2>6, <2>7
<1>2. OwnInv => BufferOwned
  BY <1>1 DEF BufferOwned
<1> QED BY <1>2, OwnInvariant, PTL

----------------------------------------------------------------------------
(* Where a line is.  Its stages are a buffer under way, a worker's item,    *)
(* outQueue, and main, that is the select loop.                             *)

InBuffer(l) == \E b \in Buffers : UnderWay(b) /\ mem[b] = l

InItem(l) == \E w \in Workers : wItem[w] # NoLog /\ wItem[w].log = l

InOutput(l) == \E i \in 1 .. Len(outQueue) : outQueue[i].log = l

InMain(l) == idOf[l] # NoID

(* A line has one stage once it has arrived, and none before.               *)
OneStage(l) ==
  /\ l \in arrived <=> InBuffer(l) \/ InItem(l) \/ InOutput(l) \/ InMain(l)
  /\ InBuffer(l) => ~InItem(l) /\ ~InOutput(l) /\ ~InMain(l)
  /\ InItem(l) => ~InOutput(l) /\ ~InMain(l)
  /\ InOutput(l) => ~InMain(l)

(* No two buffers under way hold the same line, no two workers have it.     *)
Apart ==
  /\ \A b, c \in Buffers : UnderWay(b) /\ UnderWay(c) /\ mem[b] = mem[c] => b = c
  /\ \A v, w \in Workers : wItem[v] # NoLog /\ wItem[w] # NoLog /\ wItem[v].log = wItem[w].log
                           => v = w
  /\ \A i, j \in 1 .. Len(outQueue) : outQueue[i].log = outQueue[j].log => i = j

LineInv == Apart /\ \A l \in Logs : OneStage(l)

(* Whether a buffer is under way, told by its holder.                       *)
LEMMA UnderWayHeld ==
  ASSUME NEW b, UnderWay(b)
  PROVE  \E k, o : Holds(k, o, b) /\ k # "pool" /\ (k = "reader" => udpPc = "send")
<1>1. CASE udpPc = "send" /\ udpBuf = b
  <2>1. Holds("reader", "udp", b)
    BY <1>1 DEF Holds
  <2> QED BY <1>1, <2>1
<1>2. ASSUME NEW s \in Sources, fwd[s] = b
      PROVE  Holds("forwarder", s, b)
  BY <1>2 DEF Holds
<1>3. ASSUME NEW s \in Sources, InSeq(b, chan[s])
      PROVE  Holds("channel", s, b)
  BY <1>3 DEF Holds
<1>4. CASE InSeq(b, rawQueue)
  <2>1. Holds("rawQueue", "main", b)
    BY <1>4 DEF Holds
  <2> QED BY <2>1
<1>5. ASSUME NEW w \in Workers, wBuf[w] = b
      PROVE  Holds("worker", w, b)
  BY <1>5 DEF Holds
<1> QED BY <1>1, <1>2, <1>3, <1>4, <1>5 DEF UnderWay

LEMMA FreshNotUnderWay ==
  ASSUME NEW b \in Fresh
  PROVE  ~UnderWay(b)
BY FreshUnheld, UnderWayHeld

(* A step that leaves every line where it is, or in the next buffer queue.  *)
LEMMA LinesStay ==
  ASSUME LineInv, UNCHANGED <<wItem, outQueue, idOf, arrived>>,
         \A b \in Buffers : UnderWay(b)' <=> UnderWay(b),
         \A b \in Buffers : UnderWay(b) => mem'[b] = mem[b]
  PROVE  LineInv'
<1>1. Apart'
  BY DEF LineInv, Apart
<1>2. ASSUME NEW l \in Logs
      PROVE  OneStage(l)'
  <2>1. InBuffer(l)' <=> InBuffer(l)
    BY DEF InBuffer
  <2>2. (InItem(l)' <=> InItem(l)) /\ (InOutput(l)' <=> InOutput(l)) /\ (InMain(l)' <=> InMain(l))
    BY DEF InItem, InOutput, InMain
  <2> QED BY <2>1, <2>2 DEF LineInv, OneStage
<1> QED BY <1>1, <1>2 DEF LineInv

(* Line l arrives in buffer b, which was not under way.                     *)
LEMMA LineArrives ==
  ASSUME LineInv, UNCHANGED <<wItem, outQueue, idOf>>, NEW l \in Logs, l \notin arrived,
         arrived' = arrived \cup {l}, NEW b \in Buffers, ~UnderWay(b),
         UnderWay(b)', mem'[b] = l,
         \A c \in Buffers \ {b} : (UnderWay(c)' <=> UnderWay(c)) /\ mem'[c] = mem[c]
  PROVE  LineInv'
<1>1. ~InBuffer(l) /\ ~InItem(l) /\ ~InOutput(l) /\ ~InMain(l)
  BY DEF LineInv, OneStage
<1>2. \A c \in Buffers : UnderWay(c) => mem[c] # l
  BY <1>1 DEF InBuffer
<1>3. Apart'
  BY <1>2 DEF LineInv, Apart
<1>4. ASSUME NEW k \in Logs
      PROVE  OneStage(k)'
  <2>1. InBuffer(k)' <=> InBuffer(k) \/ k = l
    BY DEF InBuffer
  <2>2. (InItem(k)' <=> InItem(k)) /\ (InOutput(k)' <=> InOutput(k)) /\ (InMain(k)' <=> InMain(k))
    BY DEF InItem, InOutput, InMain
  <2> QED BY <1>1, <2>1, <2>2 DEF LineInv, OneStage
<1> QED BY <1>3, <1>4 DEF LineInv

(* Worker w turns the line of its buffer b into an item.                    *)
LEMMA LineParsed ==
  ASSUME LineInv, UNCHANGED <<mem, outQueue, idOf, arrived>>, NEW w \in Workers,
         wItem[w] = NoLog, \A v \in Workers \ {w} : wItem'[v] = wItem[v],
         NEW b \in Buffers, UnderWay(b), mem[b] \in Logs,
         wItem'[w] # NoLog, wItem'[w].log = mem[b],
         \A c \in Buffers : UnderWay(c)' <=> UnderWay(c) /\ c # b
  PROVE  LineInv'
<1> DEFINE l == mem[b]
<1>1. InBuffer(l) /\ ~InItem(l)
  BY DEF LineInv, OneStage, InBuffer
<1>2. \A v \in Workers : wItem[v] # NoLog => wItem[v].log # l
  BY <1>1 DEF InItem
<1>3. Apart'
  <2>1. \A v, u \in Workers :
          wItem'[v] # NoLog /\ wItem'[u] # NoLog /\ wItem'[v].log = wItem'[u].log => v = u
    BY <1>2 DEF LineInv, Apart
  <2> QED BY <2>1 DEF LineInv, Apart
<1>4. ASSUME NEW k \in Logs
      PROVE  OneStage(k)'
  <2>1. InBuffer(k)' <=> InBuffer(k) /\ k # l
    BY DEF InBuffer, LineInv, Apart
  <2>2. InItem(k)' <=> InItem(k) \/ k = l
    <3>1. CASE k = l
      BY <3>1 DEF InItem
    <3>2. CASE k # l
      <4>1. \A v \in Workers : wItem'[v] # NoLog /\ wItem'[v].log = k
                               <=> wItem[v] # NoLog /\ wItem[v].log = k
        BY <3>2
      <4> QED BY <3>2, <4>1 DEF InItem
    <3> QED BY <3>1, <3>2
  <2>3. (InOutput(k)' <=> InOutput(k)) /\ (InMain(k)' <=> InMain(k))
    BY DEF InOutput, InMain
  <2> QED BY <1>1, <2>1, <2>2, <2>3 DEF LineInv, OneStage
<1> QED BY <1>3, <1>4 DEF LineInv

(* Worker w appends its item to outQueue.                                   *)
LEMMA LineEmitted ==
  ASSUME PipeTypeOK, LineInv, UNCHANGED <<mem, idOf, arrived>>, NEW w \in Workers,
         wItem[w] \in Items, outQueue' = Append(outQueue, wItem[w]),
         wItem'[w] = NoLog, \A v \in Workers \ {w} : wItem'[v] = wItem[v],
         \A c \in Buffers : UnderWay(c)' <=> UnderWay(c)
  PROVE  LineInv'
<1> DEFINE l == wItem[w].log
<1>1. wItem[w] # NoLog /\ l \in Logs
  BY PipelineAssumption DEF Items
<1>2. InItem(l) /\ ~InOutput(l)
  BY <1>1 DEF LineInv, OneStage, InItem
<1>3. /\ Len(outQueue) \in Nat /\ Len(outQueue') = Len(outQueue) + 1
      /\ outQueue'[Len(outQueue) + 1].log = l
      /\ \A i \in 1 .. Len(outQueue) : outQueue'[i] = outQueue[i] /\ outQueue[i].log # l
  BY <1>2 DEF PipeTypeOK, InOutput
<1>4. Apart'
  <2>1. \A i, j \in 1 .. Len(outQueue') : outQueue'[i].log = outQueue'[j].log => i = j
    BY <1>3 DEF LineInv, Apart
  <2> QED BY <2>1 DEF LineInv, Apart
<1>5. ASSUME NEW k \in Logs
      PROVE  OneStage(k)'
  <2>1. (InBuffer(k)' <=> InBuffer(k)) /\ (InMain(k)' <=> InMain(k))
    BY DEF InBuffer, InMain
  <2>2. InItem(k)' <=> InItem(k) /\ k # l
    <3>1. \A v \in Workers : wItem'[v] # NoLog <=> wItem[v] # NoLog /\ v # w
      OBVIOUS
    <3>2. \A v \in Workers : wItem[v] # NoLog /\ v # w => wItem[v].log # l
      BY <1>1 DEF LineInv, Apart
    <3> QED BY <3>1, <3>2 DEF InItem
  <2>3. InOutput(k)' <=> InOutput(k) \/ k = l
    BY <1>3 DEF InOutput
  <2> QED BY <1>2, <2>1, <2>2, <2>3 DEF LineInv, OneStage
<1> QED BY <1>4, <1>5 DEF LineInv

(* Main takes the first item.                                               *)
LEMMA LineTaken ==
  ASSUME PipeTypeOK, LineInv, UNCHANGED <<mem, wItem, arrived>>, outQueue # << >>,
         outQueue' = Tail(outQueue), NEW id \in RecordID, NEW l \in Logs, l = outQueue[1].log,
         idOf' = [idOf EXCEPT ![l] = id],
         \A c \in Buffers : UnderWay(c)' <=> UnderWay(c)
  PROVE  LineInv'
<1>1. /\ Len(outQueue) \in Nat /\ Len(outQueue) >= 1 /\ Len(outQueue') = Len(outQueue) - 1
      /\ \A i \in 1 .. Len(outQueue') : outQueue'[i] = outQueue[i + 1]
  BY HeadTail DEF PipeTypeOK
<1>2. InOutput(l)
  BY <1>1 DEF InOutput
<1>3. \A i \in 1 .. Len(outQueue) : outQueue[i].log = l => i = 1
  BY <1>1 DEF LineInv, Apart
<1>4. Apart'
  <2>1. \A i, j \in 1 .. Len(outQueue') : outQueue'[i].log = outQueue'[j].log => i = j
    BY <1>1 DEF LineInv, Apart
  <2> QED BY <2>1 DEF LineInv, Apart
<1>5. ASSUME NEW k \in Logs
      PROVE  OneStage(k)'
  <2>1. (InBuffer(k)' <=> InBuffer(k)) /\ (InItem(k)' <=> InItem(k))
    BY DEF InBuffer, InItem
  <2>2. InMain(k)' <=> InMain(k) \/ k = l
    BY FlushLoopAssumption DEF InMain, PipeTypeOK, LoopTypeOK
  <2>3. InOutput(k)' <=> InOutput(k) /\ k # l
    <3>1. ASSUME NEW i \in 1 .. Len(outQueue), i # 1
          PROVE  i - 1 \in 1 .. Len(outQueue') /\ outQueue'[i - 1] = outQueue[i]
      BY <1>1, <3>1
    <3>2. InOutput(k) /\ k # l => InOutput(k)'
      BY <3>1 DEF InOutput
    <3>3. InOutput(k)' => InOutput(k) /\ k # l
      BY <1>1, <1>3 DEF InOutput
    <3> QED BY <3>2, <3>3
  <2> QED BY <1>2, <2>1, <2>2, <2>3 DEF LineInv, OneStage
<1> QED BY <1>4, <1>5 DEF LineInv

LEMMA ReaderLines ==
  ASSUME OwnInv, LineInv, ReaderStep \/ \E l \in Datagrams : UdpRead(l)
  PROVE  LineInv'
<1>t. PipeTypeOK /\ Loaded /\ OneHolder /\ NoBuf \notin Buffers /\ Datagrams \subseteq Logs
  BY PipelineAssumption DEF OwnInv, PipeInv
<1>1. CASE UdpGet \/ UdpReadError
  <2>1. /\ UNCHANGED <<mem, wItem, outQueue, idOf, arrived, fwd, chan, rawQueue, wBuf>>
        /\ udpPc # "send" /\ udpPc' # "send"
    BY <1>1 DEF UdpGet, UdpReadError, loopVars, workVars
  <2>2. \A b : UnderWay(b)' <=> UnderWay(b)
    BY <2>1 DEF UnderWay
  <2> QED BY <2>1, <2>2, LinesStay
<1>2. ASSUME NEW l \in Datagrams, UdpRead(l)
      PROVE  LineInv'
  <2>0. PICK b : b = udpBuf
    OBVIOUS
  <2>1. /\ UNCHANGED <<wItem, outQueue, idOf, fwd, chan, rawQueue, wBuf>>
        /\ udpPc = "read" /\ udpPc' = "send" /\ udpBuf' = b /\ b \in Buffers /\ l \in Logs
        /\ l \notin arrived /\ arrived' = arrived \cup {l}
        /\ mem'[b] = l /\ \A c \in Buffers \ {b} : mem'[c] = mem[c]
    BY <1>t, <1>2, <2>0 DEF UdpRead, Loaded, PipeTypeOK, loopVars, workVars
  <2>2. Holds("reader", "udp", b)
    BY <2>0 DEF Holds
  <2>3. ~UnderWay(b)
    BY <1>t, <2>1, <2>2, UnderWayHeld DEF OneHolder
  <2>4. UnderWay(b)' /\ \A c \in Buffers \ {b} : UnderWay(c)' <=> UnderWay(c)
    BY <2>0, <2>1 DEF UnderWay
  <2> QED BY <2>1, <2>3, <2>4, LineArrives
<1>3. CASE UdpSend
  <2>0. PICK b : b = udpBuf
    OBVIOUS
  <2>1. /\ UNCHANGED <<mem, wItem, outQueue, idOf, arrived, fwd, rawQueue, wBuf>>
        /\ udpPc = "send" /\ udpPc' = "get" /\ b \in Buffers
        /\ chan["udp"] \in Seq(Buffers) /\ chan'["udp"] = Append(chan["udp"], b)
        /\ \A s \in Sources \ {"udp"} : chan'[s] = chan[s]
    BY <1>t, <1>3, <2>0 DEF UdpSend, Loaded, PipeTypeOK, Sources, loopVars, workVars
  <2>2. \A x : InSeq(x, chan'["udp"]) <=> InSeq(x, chan["udp"]) \/ x = b
    BY <2>1, AppendUnrepeated
  <2>3. \A c : UnderWay(c)' <=> UnderWay(c)
    <3>1. \A c : (\E s \in Sources : InSeq(c, chan'[s])) <=> (\E s \in Sources : InSeq(c, chan[s])) \/ c = b
      BY <2>1, <2>2 DEF Sources
    <3> QED BY <2>0, <2>1, <3>1 DEF UnderWay
  <2> QED BY <2>1, <2>3, LinesStay
<1> QED BY <1>1, <1>2, <1>3 DEF ReaderStep

LEMMA HandlerLines ==
  ASSUME OwnInv, LineInv, SentInv, NEW p \in Posts, Request(p) \/ Handler(p)
  PROVE  LineInv'
<1>t. PipeTypeOK /\ LinesSent /\ PiecesSent
  BY DEF SentInv
<1>e. UNCHANGED <<wItem, outQueue, idOf, fwd, rawQueue, wBuf, udpPc, udpBuf>>
  BY DEF Request, Handler, ScanLine, ScanCut, ScanEnds, loopVars, workVars, readerVars
<1>1. CASE UNCHANGED <<mem, chan, arrived>>
  <2>1. \A b : UnderWay(b)' <=> UnderWay(b)
    BY <1>e, <1>1 DEF UnderWay
  <2> QED BY <1>e, <1>1, <2>1, LinesStay
<1>2. ASSUME NEW l \in Logs, l \notin arrived, SendLine(l)
      PROVE  LineInv'
  <2>1. PICK b \in Fresh : /\ mem' = [mem EXCEPT ![b] = l]
                           /\ chan' = [chan EXCEPT !["http"] = Append(@, b)]
    BY <1>2 DEF SendLine
  <2>2. /\ b \in Buffers /\ ~UnderWay(b) /\ arrived' = arrived \cup {l}
        /\ mem'[b] = l /\ \A c \in Buffers \ {b} : mem'[c] = mem[c]
        /\ chan["http"] \in Seq(Buffers) /\ chan'["http"] = Append(chan["http"], b)
        /\ \A s \in Sources \ {"http"} : chan'[s] = chan[s]
    BY <1>t, <1>2, <2>1, FreshIsBuffer, FreshNotUnderWay DEF SendLine, PipeTypeOK, Sources
  <2>3. \A x : InSeq(x, chan'["http"]) <=> InSeq(x, chan["http"]) \/ x = b
    BY <2>2, AppendUnrepeated
  <2>4. \A c : (\E s \in Sources : InSeq(c, chan'[s])) <=> (\E s \in Sources : InSeq(c, chan[s])) \/ c = b
    BY <2>2, <2>3 DEF Sources
  <2>5. UnderWay(b)' /\ \A c \in Buffers \ {b} : UnderWay(c)' <=> UnderWay(c)
    BY <1>e, <2>4 DEF UnderWay
  <2> QED BY <1>e, <1>2, <2>2, <2>5, LineArrives
<1>3. CASE ScanLine(p)
  <2>1. next[p] \in 1 .. Len(BodyOf[p])
    BY <1>t, <1>3 DEF ScanLine, PipeTypeOK
  <2>2. BodyOf[p][next[p]] # Blank => BodyOf[p][next[p]] \in Logs /\ BodyOf[p][next[p]] \notin arrived
    BY <1>t, <2>1, PipelineAssumption DEF LinesSent, PipeTypeOK
  <2> QED BY <1>1, <1>2, <1>3, <2>2 DEF ScanLine
<1>4. CASE ScanCut(p)
  <2>1. next[p] \in 1 .. Len(BodyOf[p]) /\ post[p] = "reading"
    BY <1>t, <1>4 DEF ScanCut, PipeTypeOK
  <2>2. PICK piece \in CutOf[p][next[p]] : SendLine(piece)
    BY <1>4 DEF ScanCut
  <2>3. piece \in Logs
    BY <2>1, <2>2, PipelineAssumption
  <2>4. post[p] \notin {"cut", "400"}
    BY <2>1
  <2>5. piece \notin arrived
    BY <1>t, <2>1, <2>2, <2>4 DEF PiecesSent
  <2> QED BY <1>2, <2>2, <2>3, <2>5
<1>5. CASE Request(p) \/ ScanEnds(p)
  BY <1>1, <1>5 DEF Request, ScanEnds
<1> QED BY <1>3, <1>4, <1>5 DEF Handler

LEMMA ForwarderLines ==
  ASSUME OwnInv, LineInv, NEW s \in Sources, Forward(s)
  PROVE  LineInv'
<1>t. PipeTypeOK /\ NoBuf \notin Buffers
  BY PipelineAssumption DEF OwnInv, PipeInv
<1>e. UNCHANGED <<mem, arrived, wItem, outQueue, idOf, wBuf, udpPc, udpBuf>>
  BY DEF Forward, FwdTake, FwdSubmit, FwdPanic, loopVars, workVars, readerVars
<1>1. CASE FwdTake(s)
  <2>0. PICK b, T : b = Head(chan[s]) /\ T = Tail(chan[s])
    OBVIOUS
  <2>1. /\ chan[s] \in Seq(Buffers) /\ chan[s] # << >> /\ rawQueue' = rawQueue
        /\ chan'[s] = T /\ fwd'[s] = b /\ fwd[s] = NoBuf
        /\ \A r \in Sources \ {s} : chan'[r] = chan[r] /\ fwd'[r] = fwd[r]
    BY <1>t, <1>1, <2>0 DEF FwdTake, PipeTypeOK
  <2>2. \A x : InSeq(x, chan[s]) <=> x = b \/ InSeq(x, T)
    BY <2>0, <2>1, TailUnrepeated
  <2>3. \A c \in Buffers : \A r \in Sources :
          (fwd'[r] = c \/ InSeq(c, chan'[r])) <=> (fwd[r] = c \/ InSeq(c, chan[r]))
    <3>1. ASSUME NEW c \in Buffers, NEW r \in Sources, r = s
          PROVE  (fwd'[r] = c \/ InSeq(c, chan'[r])) <=> (fwd[r] = c \/ InSeq(c, chan[r]))
      BY <1>t, <2>1, <2>2, <3>1
    <3>2. ASSUME NEW c \in Buffers, NEW r \in Sources, r # s
          PROVE  (fwd'[r] = c \/ InSeq(c, chan'[r])) <=> (fwd[r] = c \/ InSeq(c, chan[r]))
      BY <2>1, <3>2
    <3> QED BY <3>1, <3>2
  <2>4. \A c \in Buffers : UnderWay(c)' <=> UnderWay(c)
    BY <1>e, <2>1, <2>3 DEF UnderWay
  <2> QED BY <1>e, <2>4, LinesStay
<1>2. CASE FwdSubmit(s)
  <2>0. PICK b : b = fwd[s]
    OBVIOUS
  <2>1. /\ rawQueue \in Seq(Buffers) /\ b \in Buffers /\ chan' = chan
        /\ rawQueue' = Append(rawQueue, b) /\ fwd'[s] = NoBuf
        /\ \A r \in Sources \ {s} : fwd'[r] = fwd[r]
    BY <1>t, <1>2, <2>0 DEF FwdSubmit, PipeTypeOK
  <2>2. \A x : InSeq(x, rawQueue') <=> InSeq(x, rawQueue) \/ x = b
    BY <2>1, AppendUnrepeated
  <2>3. \A c \in Buffers : \A r \in Sources : fwd'[r] = c <=> fwd[r] = c /\ r # s
    BY <1>t, <2>1
  <2>4. \A c \in Buffers : (\E r \in Sources : fwd[r] = c) <=> (\E r \in Sources : fwd'[r] = c) \/ c = b
    BY <2>0, <2>3
  <2>5. \A c \in Buffers : UnderWay(c)' <=> UnderWay(c)
    BY <1>e, <2>1, <2>2, <2>4 DEF UnderWay
  <2> QED BY <1>e, <2>5, LinesStay
<1>3. CASE FwdPanic(s)
  <2>1. UNCHANGED <<fwd, chan, rawQueue>>
    BY <1>3 DEF FwdPanic
  <2>2. \A c : UnderWay(c)' <=> UnderWay(c)
    BY <1>e, <2>1 DEF UnderWay
  <2> QED BY <1>e, <2>2, LinesStay
<1> QED BY <1>1, <1>2, <1>3 DEF Forward

LEMMA WorkerLines ==
  ASSUME OwnInv, LineInv, NEW w \in Workers, WorkerStep(w)
  PROVE  LineInv'
<1>t. PipeTypeOK /\ Loaded /\ EmptyHanded /\ OneHolder /\ NoBuf \notin Buffers
  BY PipelineAssumption DEF OwnInv, PipeInv
<1>e. UNCHANGED <<mem, arrived, idOf, udpPc, udpBuf, fwd, chan>>
  BY DEF WorkerStep, WorkerTake, WorkerParse, WorkerEmit, loopVars, readerVars
<1>1. CASE WorkerTake(w) /\ rawQueue # << >>
  <2>0. PICK b, T : b = Head(rawQueue) /\ T = Tail(rawQueue)
    OBVIOUS
  <2>1. /\ rawQueue \in Seq(Buffers) /\ rawQueue' = T /\ UNCHANGED <<wItem, outQueue>>
        /\ wBuf'[w] = b /\ wBuf[w] = NoBuf /\ \A v \in Workers \ {w} : wBuf'[v] = wBuf[v]
    BY <1>t, <1>1, <2>0 DEF WorkerTake, PipeTypeOK, EmptyHanded
  <2>2. \A x : InSeq(x, rawQueue) <=> x = b \/ InSeq(x, T)
    BY <1>1, <2>0, <2>1, TailUnrepeated
  <2>3. \A c \in Buffers : (\E v \in Workers : wBuf'[v] = c) <=> (\E v \in Workers : wBuf[v] = c) \/ c = b
    BY <1>t, <2>1
  <2>4. \A c \in Buffers : UnderWay(c)' <=> UnderWay(c)
    BY <1>e, <2>1, <2>2, <2>3 DEF UnderWay
  <2> QED BY <1>e, <2>1, <2>4, LinesStay
<1>2. CASE WorkerTake(w) /\ rawQueue = << >>
  <2>1. UNCHANGED <<wBuf, rawQueue, wItem, outQueue>>
    BY <1>2 DEF WorkerTake
  <2>2. \A c : UnderWay(c)' <=> UnderWay(c)
    BY <1>e, <2>1 DEF UnderWay
  <2> QED BY <1>e, <2>1, <2>2, LinesStay
<1>3. CASE WorkerParse(w)
  <2>0. PICK b : b = wBuf[w]
    OBVIOUS
  <2>1. /\ b \in Buffers /\ mem[b] \in Logs /\ UNCHANGED <<rawQueue, outQueue>>
        /\ wBuf'[w] = NoBuf /\ \A v \in Workers \ {w} : wBuf'[v] = wBuf[v]
        /\ wItem[w] = NoLog /\ \A v \in Workers \ {w} : wItem'[v] = wItem[v]
    BY <1>t, <1>3, <2>0 DEF WorkerParse, Loaded, EmptyHanded, PipeTypeOK
  <2>2. wItem'[w].log = mem[b] /\ wItem'[w] # NoLog
    <3>1. PICK ts \in Stamps :
            wItem'[w] = [log |-> mem[b], id |-> [streamID |-> FacilityOf[mem[b]], ts |-> ts]]
      BY <1>t, <1>3, <2>0 DEF WorkerParse, PipeTypeOK
    <3>2. wItem'[w] \in Items
      BY <2>1, <3>1, PipelineAssumption DEF Items, RecordID
    <3> QED BY <3>1, <3>2, PipelineAssumption
  <2>3. UnderWay(b)
    BY <2>0 DEF UnderWay
  <2>4. Holds("worker", w, b)
    BY <2>0 DEF Holds
  <2>5. \A h, u : Holds(h, u, b) => h = "worker" /\ u = w
    BY <1>t, <2>1, <2>4 DEF OneHolder
  <2>6. ~UnderWay(b)'
    <3>1. udpBuf # b /\ ~InSeq(b, rawQueue) /\ \A v \in Workers \ {w} : wBuf[v] # b
      BY <2>5 DEF Holds
    <3>2. \A s \in Sources : fwd[s] # b /\ ~InSeq(b, chan[s])
      BY <2>5 DEF Holds
    <3> QED BY <1>t, <1>e, <2>1, <3>1, <3>2 DEF UnderWay
  <2>7. \A c \in Buffers : UnderWay(c)' <=> UnderWay(c) /\ c # b
    <3>1. \A c \in Buffers : c # b =>
            ((\E v \in Workers : wBuf'[v] = c) <=> (\E v \in Workers : wBuf[v] = c))
      BY <1>t, <2>0, <2>1
    <3> QED BY <1>e, <2>1, <2>6, <3>1 DEF UnderWay
  <2> QED BY <1>e, <2>1, <2>2, <2>3, <2>7, LineParsed
<1>4. CASE WorkerEmit(w)
  <2>1. /\ wItem[w] \in Items /\ outQueue' = Append(outQueue, wItem[w])
        /\ wItem'[w] = NoLog /\ \A v \in Workers \ {w} : wItem'[v] = wItem[v]
        /\ UNCHANGED <<wBuf, rawQueue>>
    BY <1>t, <1>4 DEF WorkerEmit, Loaded, PipeTypeOK
  <2>2. \A c : UnderWay(c)' <=> UnderWay(c)
    BY <1>e, <2>1 DEF UnderWay
  <2> QED BY <1>t, <1>e, <2>1, <2>2, LineEmitted
<1> QED BY <1>1, <1>2, <1>3, <1>4 DEF WorkerStep

LEMMA MainLines ==
  ASSUME OwnInv, LineInv, Consume \/ TickerFires \/ Signal \/ Defers \/ UNCHANGED vars
  PROVE  LineInv'
<1>t. PipeTypeOK
  BY DEF OwnInv, PipeInv
<1>e. UNCHANGED <<mem, arrived, udpPc, udpBuf, fwd, chan, rawQueue, wBuf, wItem>>
  BY DEF Consume, TickerFires, Signal, Defers, vars, pipeVars, readerVars, workVars
<1>u. \A c : UnderWay(c)' <=> UnderWay(c)
  BY <1>e DEF UnderWay
<1>1. CASE Consume
  <2>1. outQueue \in Seq(Items) /\ outQueue # << >>
    BY <1>t, <1>1 DEF Consume, PipeTypeOK
  <2>2. PICK l, id : l = outQueue[1].log /\ id = outQueue[1].id
    OBVIOUS
  <2>3. Head(outQueue) = outQueue[1] /\ l \in Logs /\ id \in RecordID
    <3>1. 1 \in 1 .. Len(outQueue)
      BY <2>1
    <3>2. outQueue[1] \in Items
      BY <2>1, <3>1
    <3>3. Head(outQueue) = outQueue[1]
      BY <2>1
    <3> QED BY <2>2, <3>2, <3>3 DEF Items
  <2>4. outQueue' = Tail(outQueue) /\ idOf' = [idOf EXCEPT ![l] = id]
    BY <1>1, <2>2, <2>3 DEF Consume, Receive
  <2> QED BY <1>t, <1>e, <1>u, <2>1, <2>2, <2>3, <2>4, LineTaken
<1>2. CASE TickerFires \/ Signal \/ Defers \/ UNCHANGED vars
  <2>1. UNCHANGED <<outQueue, idOf>>
    BY <1>2 DEF TickerFires, Tick, Signal, Defers, vars, pipeVars, loopVars
  <2> QED BY <1>e, <1>u, <2>1, LinesStay
<1> QED BY <1>1, <1>2

LEMMA LineInvNext == OwnInv /\ SentInv /\ LineInv /\ [Next]_vars => LineInv'
BY ReaderLines, HandlerLines, ForwarderLines, WorkerLines, MainLines DEF Next

(* Every line that arrived is in one stage, and there only once.            *)
THEOREM LineInvariant == Spec => []LineInv
<1>1. Init => LineInv
  <2> SUFFICES ASSUME Init
               PROVE  LineInv
    OBVIOUS
  <2>1. \A b \in Buffers : ~UnderWay(b)
    BY PipelineAssumption DEF Init, UnderWay, InSeq
  <2>2. Apart
    BY <2>1 DEF Init, Apart
  <2>3. ASSUME NEW l \in Logs
        PROVE  OneStage(l)
    BY <2>1 DEF Init, LoopInit, OneStage, InBuffer, InItem, InOutput, InMain
  <2> QED BY <2>2, <2>3 DEF LineInv
<1> QED BY <1>1, LineInvNext, OwnInvariant, SentInvariant, PTL DEF Spec

(* What is on its way with a line: the packets in flight and the one the    *)
(* UDP reader has filled.                                                   *)
Moves(r) == r \in InFlight \/ (r \in Reading /\ udpPc = "send")

LEMMA MovesUnderWay ==
  ASSUME PipeTypeOK, NEW r, Moves(r)
  PROVE  r[2] \in Buffers /\ UnderWay(r[2])
<1>1. CASE r \in InFlight
  BY <1>1, FlightHeld
<1>2. CASE r \in Reading /\ udpPc = "send"
  <2>1. r = <<<<"reader", "udp", 0>>, udpBuf>> /\ udpBuf \in Buffers
    BY <1>2 DEF Reading, PipeTypeOK
  <2> QED BY <1>2, <2>1 DEF UnderWay
<1> QED BY <1>1, <1>2 DEF Moves

LEMMA UnderWayMoves ==
  ASSUME NEW b \in Buffers, UnderWay(b)
  PROVE  \E r : Moves(r) /\ r[2] = b
<1>n. NoBuf \notin Buffers
  BY PipelineAssumption
<1>1. CASE udpPc = "send" /\ udpBuf = b
  <2>1. <<<<"reader", "udp", 0>>, udpBuf>> \in Reading
    BY <1>n, <1>1 DEF Reading
  <2> QED BY <1>1, <2>1 DEF Moves
<1>2. ASSUME NEW s \in Sources, fwd[s] = b
      PROVE  <<<<"forwarder", s, 0>>, b>> \in InFlight
  BY <1>n, <1>2, FlightMember
<1>3. ASSUME NEW s \in Sources, NEW i \in 1 .. Len(chan[s]), chan[s][i] = b
      PROVE  <<<<"channel", s, i>>, b>> \in InFlight
  BY <1>3, FlightMember
<1>4. ASSUME NEW i \in 1 .. Len(rawQueue), rawQueue[i] = b
      PROVE  <<<<"rawQueue", "main", i>>, b>> \in InFlight
  BY <1>4, FlightMember
<1>5. ASSUME NEW w \in Workers, wBuf[w] = b
      PROVE  <<<<"worker", w, 0>>, b>> \in InFlight
  BY <1>n, <1>5, FlightMember
<1>6. CASE \E r \in InFlight : r[2] = b
  <2>1. PICK r \in InFlight : r[2] = b
    BY <1>6
  <2>2. Moves(r)
    BY DEF Moves
  <2> QED BY <2>1, <2>2
<1>7. CASE ~(udpPc = "send" /\ udpBuf = b)
  <2>1. \E p : <<p, b>> \in InFlight
    BY <1>2, <1>3, <1>4, <1>5, <1>7 DEF UnderWay, InSeq
  <2> QED BY <1>6, <2>1
<1> QED BY <1>1, <1>7

(* The members of Places(l), one stage after the other.                     *)
LEMMA PlaceMember ==
  ASSUME NEW l \in Logs, NEW x
  PROVE  x \in Places(l) <=>
           \/ \E r : Moves(r) /\ mem[r[2]] = l /\ x = r[1]
           \/ \E w \in Workers : wItem[w] # NoLog /\ wItem[w].log = l /\ x = <<"item", w, 0>>
           \/ \E i \in 1 .. Len(outQueue) : outQueue[i].log = l /\ x = <<"outQueue", "main", i>>
           \/ InMain(l) /\ x = <<"main", "main", 0>>
<1> DEFINE F == {r[1] : r \in {r \in InFlight : mem[r[2]] = l}}
           R == {r[1] : r \in {r \in Reading : udpPc = "send" /\ mem[r[2]] = l}}
           I == {<<"item", w, 0>> : w \in {w \in Workers : wItem[w] # NoLog /\ wItem[w].log = l}}
           Q == {<<"outQueue", "main", i>> : i \in {i \in 1 .. Len(outQueue) : outQueue[i].log = l}}
           M == {<<"main", "main", 0>> : y \in {y \in {l} : idOf[y] # NoID}}
<1>1. Places(l) = F \cup R \cup I \cup Q \cup M
  BY DEF Places
<1>2. x \in Places(l) <=> x \in F \/ x \in R \/ x \in I \/ x \in Q \/ x \in M
  <2> HIDE DEF F, R, I, Q, M
  <2> QED BY <1>1
<1>3. x \in F <=> \E r \in InFlight : mem[r[2]] = l /\ x = r[1]
  OBVIOUS
<1>4. x \in R <=> \E r \in Reading : udpPc = "send" /\ mem[r[2]] = l /\ x = r[1]
  OBVIOUS
<1>5. x \in I <=> \E w \in Workers : wItem[w] # NoLog /\ wItem[w].log = l /\ x = <<"item", w, 0>>
  BY Zenon
<1>6. x \in Q <=> \E i \in 1 .. Len(outQueue) : outQueue[i].log = l /\ x = <<"outQueue", "main", i>>
  OBVIOUS
<1>7. x \in M <=> InMain(l) /\ x = <<"main", "main", 0>>
  BY DEF InMain
<1> HIDE DEF F, R, I, Q, M
<1>8. (\E r : Moves(r) /\ mem[r[2]] = l /\ x = r[1]) <=> x \in F \/ x \in R
  <2>1. ASSUME NEW r, Moves(r), mem[r[2]] = l, x = r[1]
        PROVE  x \in F \/ x \in R
    BY <1>3, <1>4, <2>1 DEF Moves
  <2>2. ASSUME x \in F
        PROVE  \E r : Moves(r) /\ mem[r[2]] = l /\ x = r[1]
    <3>1. PICK r \in InFlight : mem[r[2]] = l /\ x = r[1]
      BY <1>3, <2>2
    <3>2. Moves(r)
      BY DEF Moves
    <3> QED BY <3>1, <3>2
  <2>3. ASSUME x \in R
        PROVE  \E r : Moves(r) /\ mem[r[2]] = l /\ x = r[1]
    <3>1. PICK r \in Reading : udpPc = "send" /\ mem[r[2]] = l /\ x = r[1]
      BY <1>4, <2>3
    <3>2. Moves(r)
      BY <3>1 DEF Moves
    <3> QED BY <3>1, <3>2
  <2> QED BY <2>1, <2>2, <2>3
<1> QED BY <1>2, <1>5, <1>6, <1>7, <1>8

(* A line has a place if and only if it arrived, and no second one.         *)
LEMMA PlaceOfLine ==
  ASSUME OwnInv, BufferOwned, LineInv, NEW l \in Logs
  PROVE  /\ Places(l) # {} <=> l \in arrived
         /\ \A x, y \in Places(l) : x = y
<1>t. PipeTypeOK
  BY DEF OwnInv, PipeInv
<1>1. (\E r : Moves(r) /\ mem[r[2]] = l) <=> InBuffer(l)
  BY <1>t, MovesUnderWay, UnderWayMoves DEF InBuffer
<1>2. Places(l) # {} <=> InBuffer(l) \/ InItem(l) \/ InOutput(l) \/ InMain(l)
  <2>1. Places(l) # {} => InBuffer(l) \/ InItem(l) \/ InOutput(l) \/ InMain(l)
    BY <1>1, PlaceMember DEF InItem, InOutput
  <2>2. InBuffer(l) => Places(l) # {}
    BY <1>1, PlaceMember
  <2>3. InItem(l) => Places(l) # {}
    BY PlaceMember DEF InItem
  <2>4. InOutput(l) => Places(l) # {}
    BY PlaceMember DEF InOutput
  <2>5. InMain(l) => Places(l) # {}
    BY PlaceMember
  <2> QED BY <2>1, <2>2, <2>3, <2>4, <2>5
<1>3. ASSUME NEW x \in Places(l), NEW y \in Places(l)
      PROVE  x = y
  <2>1. CASE InBuffer(l)
    <3>1. ~InItem(l) /\ ~InOutput(l) /\ ~InMain(l)
      BY <2>1 DEF LineInv, OneStage
    <3>2. PICK p : Moves(p) /\ mem[p[2]] = l /\ x = p[1]
      BY <3>1, PlaceMember DEF InItem, InOutput
    <3>3. PICK r : Moves(r) /\ mem[r[2]] = l /\ y = r[1]
      BY <3>1, PlaceMember DEF InItem, InOutput
    <3>4. p[2] = r[2]
      BY <1>t, <3>2, <3>3, MovesUnderWay DEF LineInv, Apart
    <3>5. p = r
      BY <3>2, <3>3, <3>4 DEF Moves, BufferOwned
    <3> QED BY <3>2, <3>3, <3>5
  <2>2. CASE InItem(l)
    <3>1. ~InBuffer(l) /\ ~InOutput(l) /\ ~InMain(l)
      BY <2>2 DEF LineInv, OneStage
    <3>a. \A v, w \in Workers : wItem[v] # NoLog /\ wItem[w] # NoLog /\ wItem[v].log = wItem[w].log
                              => v = w
      BY DEF LineInv, Apart
    <3>2. PICK v \in Workers : wItem[v] # NoLog /\ wItem[v].log = l /\ x = <<"item", v, 0>>
      BY <1>1, <3>1, PlaceMember DEF InOutput
    <3>3. PICK w \in Workers : wItem[w] # NoLog /\ wItem[w].log = l /\ y = <<"item", w, 0>>
      BY <1>1, <3>1, PlaceMember DEF InOutput
    <3> QED BY <3>2, <3>3, <3>a
  <2>3. CASE InOutput(l)
    <3>1. ~InBuffer(l) /\ ~InItem(l) /\ ~InMain(l)
      BY <2>3 DEF LineInv, OneStage
    <3>2. PICK i \in 1 .. Len(outQueue) : outQueue[i].log = l /\ x = <<"outQueue", "main", i>>
      BY <1>1, <3>1, PlaceMember DEF InItem
    <3>3. PICK j \in 1 .. Len(outQueue) : outQueue[j].log = l /\ y = <<"outQueue", "main", j>>
      BY <1>1, <3>1, PlaceMember DEF InItem
    <3> QED BY <3>2, <3>3 DEF LineInv, Apart
  <2>4. CASE InMain(l)
    <3>1. ~InBuffer(l) /\ ~InItem(l) /\ ~InOutput(l)
      BY <2>4 DEF LineInv, OneStage
    <3> QED BY <1>1, <3>1, PlaceMember DEF InItem, InOutput
  <2> QED BY <1>2, <2>1, <2>2, <2>3, <2>4
<1> QED BY <1>2, <1>3 DEF LineInv, OneStage

(* A line taken from the network is in exactly one place: nothing between   *)
(* the socket and the select loop loses, doubles or overwrites a packet,    *)
(* for any number of workers and requests and any capacity of the channels. *)
THEOREM OnePlaceCorrect == Spec => []OnePlace
<1>1. ASSUME OwnInv, BufferOwned, LineInv, NEW l \in Logs
      PROVE  Cardinality(Places(l)) = IF l \in arrived THEN 1 ELSE 0
  <2>1. CASE l \in arrived
    <3>1. PICK x : x \in Places(l)
      BY <1>1, <2>1, PlaceOfLine
    <3>2. Places(l) = {x}
      BY <1>1, <3>1, PlaceOfLine
    <3> QED BY <2>1, <3>2, FS_Singleton
  <2>2. CASE l \notin arrived
    <3>1. Places(l) = {}
      BY <1>1, <2>2, PlaceOfLine
    <3> QED BY <2>2, <3>1, FS_EmptySet
  <2> QED BY <2>1, <2>2
<1>2. OwnInv /\ BufferOwned /\ LineInv => OnePlace
  BY <1>1 DEF OnePlace
<1> QED BY <1>2, OwnInvariant, BufferOwnedCorrect, LineInvariant, PTL

----------------------------------------------------------------------------
(* What an answer tells *)

(* Whatever becomes of a line on its way, the engine has of a body what the *)
(* answer says: all of it behind a 202, the lines before the place where it *)
(* broke off and at most one piece of the next behind a 400, nothing behind *)
(* a 405.                                                                   *)
THEOREM AnswerTellsPrefixCorrect == Spec => []AnswerTellsPrefix
<1>1. ASSUME OwnInv, BufferOwned, LineInv, SentInv, NEW p \in Posts
      PROVE  LET places == 1 .. Len(BodyOf[p])
                 pieces == {f \in UNION {CutOf[p][i] : i \in places} : InEngine(f)}
             IN /\ post[p] \in {"new", "405"} => next[p] = 1
                /\ post[p] = "202" => next[p] = Len(BodyOf[p]) + 1
                /\ \A i \in places : BodyOf[p][i] # Blank => (InEngine(BodyOf[p][i]) <=> i < next[p])
                /\ \A f, g \in pieces : f = g
                /\ \A f \in pieces : /\ post[p] \in {"cut", "400"}
                                    /\ next[p] \in places /\ f \in CutOf[p][next[p]]
  <2> DEFINE places == 1 .. Len(BodyOf[p])
             pieces == {f \in UNION {CutOf[p][i] : i \in places} : InEngine(f)}
  <2>1. \A l \in Logs : InEngine(l) <=> l \in arrived
    BY <1>1, PlaceOfLine DEF InEngine
  <2>2. \A i \in places : BodyOf[p][i] # Blank => (InEngine(BodyOf[p][i]) <=> i < next[p])
    <3>1. \A i \in places : BodyOf[p][i] # Blank => BodyOf[p][i] \in Logs
      BY PipelineAssumption
    <3> QED BY <1>1, <2>1, <3>1 DEF SentInv, LinesSent
  <2>3. ASSUME NEW f \in pieces
        PROVE  /\ next[p] \in places /\ f \in CutOf[p][next[p]] /\ post[p] \in {"cut", "400"}
               /\ \A g \in CutOf[p][next[p]] : g \in arrived => f = g
               /\ f \in arrived
    <3>1. PICK i \in places : f \in CutOf[p][i]
      OBVIOUS
    <3>2. f \in Logs
      BY <3>1, PipelineAssumption
    <3>3. f \in arrived
      BY <2>1, <3>2
    <3> QED BY <1>1, <3>1, <3>3 DEF SentInv, PiecesSent
  <2>4. \A f, g \in pieces : f = g
    BY <2>3
  <2>5. Scanned(p)
    BY <1>1 DEF SentInv
  <2> HIDE DEF pieces
  <2> QED BY <2>2, <2>3, <2>4, <2>5 DEF Scanned, pieces
<1>2. OwnInv /\ BufferOwned /\ LineInv /\ SentInv => AnswerTellsPrefix
  BY <1>1 DEF AnswerTellsPrefix
<1> QED BY <1>2, OwnInvariant, BufferOwnedCorrect, LineInvariant, SentInvariant, PTL

----------------------------------------------------------------------------
(* Keys.  With UniqueKeys, the key a worker makes is new to all workers;    *)
(* what is proved is that it still is when its item gets to the loop.       *)

(* Every key on its way or in use was made by a worker.                     *)
KeysStamped ==
  /\ \A w \in Workers : wItem[w] # NoLog => wItem[w].id \in stamped
  /\ \A i \in 1 .. Len(outQueue) : outQueue[i].id \in stamped
  /\ \A l \in Logs : idOf[l] # NoID => idOf[l] \in stamped

(* A key is with one item, or with lines the loop has taken.                *)
KeysApart ==
  /\ \A v, w \in Workers : wItem[v] # NoLog /\ wItem[w] # NoLog /\ wItem[v].id = wItem[w].id
                           => v = w
  /\ \A i, j \in 1 .. Len(outQueue) : outQueue[i].id = outQueue[j].id => i = j
  /\ \A w \in Workers : wItem[w] # NoLog =>
       /\ \A i \in 1 .. Len(outQueue) : outQueue[i].id # wItem[w].id
       /\ \A l \in Logs : idOf[l] # wItem[w].id
  /\ \A i \in 1 .. Len(outQueue) : \A l \in Logs : idOf[l] # outQueue[i].id

KeyInv == UniqueKeys => KeysStamped /\ KeysApart

LEMMA KeyInvNext == OwnInv /\ KeyInv /\ [Next]_vars => KeyInv'
<1> SUFFICES ASSUME OwnInv, KeysStamped, KeysApart, UniqueKeys, [Next]_vars
             PROVE  KeysStamped' /\ KeysApart'
  BY DEF KeyInv
<1>t. /\ PipeTypeOK /\ Loaded /\ EmptyHanded /\ NoID \notin RecordID /\ NoLog \notin Items
      /\ Len(outQueue) \in Nat
      /\ \A i \in 1 .. Len(outQueue) : outQueue[i] \in Items
      /\ idOf \in [Logs -> RecordID \cup {NoID}]
  BY PipelineAssumption, FlushLoopAssumption DEF OwnInv, PipeInv, PipeTypeOK, LoopTypeOK
<1>0. CASE UNCHANGED <<wItem, outQueue, idOf, stamped>>
  BY <1>0 DEF KeysStamped, KeysApart
<1>1. ASSUME NEW w \in Workers, WorkerParse(w)
      PROVE  KeysStamped' /\ KeysApart'
  <2>1. PICK id : id = wItem'[w].id
    OBVIOUS
  <2>2. /\ UNCHANGED <<outQueue, idOf>> /\ id \in RecordID /\ id \notin stamped
        /\ stamped' = stamped \cup {id}
        /\ \A v \in Workers \ {w} : wItem'[v] = wItem[v]
    <3>1. PICK ts \in Stamps :
            /\ UniqueKeys => [streamID |-> FacilityOf[mem[wBuf[w]]], ts |-> ts] \notin stamped
            /\ wItem' = [wItem EXCEPT ![w] = [log |-> mem[wBuf[w]],
                                              id |-> [streamID |-> FacilityOf[mem[wBuf[w]]], ts |-> ts]]]
            /\ stamped' = stamped \cup {[streamID |-> FacilityOf[mem[wBuf[w]]], ts |-> ts]}
      BY <1>1 DEF WorkerParse
    <3>2. FacilityOf[mem[wBuf[w]]] \in Streams
      BY <1>t, <1>1, PipelineAssumption DEF WorkerParse, Loaded
    <3>3. wItem \in [Workers -> Items \cup {NoLog}]
      BY <1>t DEF PipeTypeOK
    <3>4. id = [streamID |-> FacilityOf[mem[wBuf[w]]], ts |-> ts]
      BY <2>1, <3>1, <3>3
    <3>5. UNCHANGED <<outQueue, idOf>>
      BY <1>1 DEF WorkerParse, loopVars
    <3> QED BY <3>1, <3>2, <3>3, <3>4, <3>5 DEF RecordID
  <2>3. /\ \A v \in Workers : wItem[v] # NoLog => wItem[v].id # id
        /\ \A i \in 1 .. Len(outQueue) : outQueue[i].id # id
        /\ \A l \in Logs : idOf[l] # id
    BY <1>t, <2>2 DEF KeysStamped
  <2>4. KeysStamped'
    BY <2>1, <2>2 DEF KeysStamped
  <2>5. KeysApart'
    BY <2>1, <2>2, <2>3 DEF KeysApart
  <2> QED BY <2>4, <2>5
<1>2. ASSUME NEW w \in Workers, WorkerEmit(w)
      PROVE  KeysStamped' /\ KeysApart'
  <2>1. /\ wItem[w] \in Items /\ outQueue \in Seq(Items) /\ outQueue' = Append(outQueue, wItem[w])
        /\ wItem'[w] = NoLog /\ \A v \in Workers \ {w} : wItem'[v] = wItem[v]
        /\ UNCHANGED <<idOf, stamped>>
    BY <1>t, <1>2 DEF WorkerEmit, Loaded, PipeTypeOK, loopVars
  <2>2. wItem[w] # NoLog
    BY <1>t, <2>1
  <2>3. /\ Len(outQueue') = Len(outQueue) + 1 /\ outQueue'[Len(outQueue) + 1] = wItem[w]
        /\ \A i \in 1 .. Len(outQueue) : outQueue'[i] = outQueue[i]
    BY <2>1
  <2>4. \A i \in 1 .. Len(outQueue') :
          i = Len(outQueue) + 1 \/ i \in 1 .. Len(outQueue)
    BY <1>t, <2>3
  <2>5. KeysStamped'
    BY <2>1, <2>2, <2>3, <2>4 DEF KeysStamped
  <2>6. KeysApart'
    BY <2>1, <2>2, <2>3, <2>4 DEF KeysApart
  <2> QED BY <2>5, <2>6
<1>3. CASE Consume
  <2>1. PICK l, id : l = Head(outQueue).log /\ id = Head(outQueue).id
    OBVIOUS
  <2>2. /\ outQueue \in Seq(Items) /\ outQueue # << >> /\ outQueue' = Tail(outQueue)
        /\ UNCHANGED <<wItem, stamped>> /\ idOf' = [idOf EXCEPT ![l] = id]
    BY <1>t, <1>3, <2>1 DEF Consume, Receive, PipeTypeOK, workVars
  <2>3. /\ 1 \in 1 .. Len(outQueue) /\ id = outQueue[1].id
        /\ \A i \in 1 .. Len(outQueue') : outQueue'[i] = outQueue[i + 1] /\ i + 1 \in 1 .. Len(outQueue)
    BY <2>1, <2>2, HeadTail
  <2>4. \A k \in Logs : idOf'[k] = idOf[k] \/ idOf'[k] = id
    BY <1>t, <2>2
  <2>5. KeysStamped'
    BY <2>2, <2>3, <2>4 DEF KeysStamped
  <2>6. KeysApart'
    <3>1. \A i, j \in 1 .. Len(outQueue') : outQueue'[i].id = outQueue'[j].id => i = j
      BY <1>t, <2>3 DEF KeysApart
    <3>2. \A i \in 1 .. Len(outQueue') : outQueue'[i].id # id
      BY <1>t, <2>3 DEF KeysApart
    <3>3. \A i \in 1 .. Len(outQueue') : \A k \in Logs : idOf'[k] # outQueue'[i].id
      BY <2>3, <2>4, <3>2 DEF KeysApart
    <3>4. \A w \in Workers : wItem[w] # NoLog =>
            /\ \A i \in 1 .. Len(outQueue') : outQueue'[i].id # wItem[w].id
            /\ \A k \in Logs : idOf'[k] # wItem[w].id
      BY <2>3, <2>4 DEF KeysApart
    <3> QED BY <2>2, <3>1, <3>3, <3>4 DEF KeysApart
  <2> QED BY <2>5, <2>6
<1>4. ASSUME NEW w \in Workers, WorkerTake(w)
      PROVE  KeysStamped' /\ KeysApart'
  BY <1>0, <1>4 DEF WorkerTake, loopVars
<1>5. CASE ReaderStep \/ (\E l \in Datagrams : UdpRead(l)) \/ (\E s \in Sources : Forward(s))
  BY <1>0, <1>5 DEF ReaderStep, UdpGet, UdpReadError, UdpSend, UdpRead, Forward, FwdTake, FwdSubmit,
     FwdPanic, loopVars, workVars
<1>6. CASE \E p \in Posts : Request(p) \/ Handler(p)
  BY <1>0, <1>6 DEF Request, Handler, ScanLine, ScanCut, ScanEnds, loopVars, workVars
<1>7. CASE TickerFires \/ Signal \/ Defers \/ UNCHANGED vars
  BY <1>0, <1>7 DEF TickerFires, Tick, Signal, Defers, vars, loopVars, pipeVars, workVars
<1> QED BY <1>1, <1>2, <1>3, <1>4, <1>5, <1>6, <1>7 DEF Next, WorkerStep

THEOREM KeyInvariant == Spec => []KeyInv
<1>1. Init => KeyInv
  BY DEF Init, LoopInit, KeyInv, KeysStamped, KeysApart
<1> QED BY <1>1, KeyInvNext, OwnInvariant, PTL DEF Spec

(* The engine's step as a step of the loop.  FlushLoop's Handle asks for a  *)
(* line that has not come before and, with unique keys, for a key nobody    *)
(* has used; the loop itself takes what is at the head of outQueue.  The    *)
(* first is LineInv's (a line in outQueue is nowhere else), the second      *)
(* KeyInv's.                                                                *)
LEMMA LoopStepInside ==
  ASSUME PipeTypeOK, LineInv, KeyInv, [Next]_vars
  PROVE  [LoopNext]_loopVars
<1>1. CASE Consume
  <2>1. outQueue \in Seq(Items) /\ outQueue # << >>
    BY <1>1 DEF Consume, PipeTypeOK
  <2>2. Head(outQueue) \in Items /\ Head(outQueue) = outQueue[1] /\ 1 \in 1 .. Len(outQueue)
    BY <2>1, HeadTail
  <2>3. PICK l, id : l = Head(outQueue).log /\ id = Head(outQueue).id
    OBVIOUS
  <2>4. l \in Logs /\ id \in RecordID
    BY <2>2, <2>3 DEF Items
  <2>5. idOf[l] = NoID
    <3>1. InOutput(l)
      BY <2>2, <2>3 DEF InOutput
    <3> QED BY <2>4, <3>1 DEF LineInv, OneStage, InMain
  <2>6. KeyAllowed(id)
    BY <2>2, <2>3 DEF KeyAllowed, KeyInv, KeysApart
  <2>7. Handle(l, id)
    BY <1>1, <2>3, <2>5, <2>6 DEF Consume, Handle
  <2> QED BY <2>4, <2>7 DEF LoopNext, LoopStep
<1>2. CASE TickerFires \/ Signal
  BY <1>2 DEF TickerFires, Signal, LoopNext, LoopStep, Tick
<1>3. CASE Defers \/ ReaderStep \/ \E l \in Datagrams : UdpRead(l)
  BY <1>3 DEF Defers, ReaderStep, UdpGet, UdpReadError, UdpSend, UdpRead
<1>4. CASE \E p \in Posts : Request(p) \/ Handler(p)
  BY <1>4 DEF Request, Handler, ScanLine, ScanCut, ScanEnds
<1>5. CASE \E s \in Sources : Forward(s)
  BY <1>5 DEF Forward, FwdTake, FwdSubmit, FwdPanic
<1>6. CASE \E w \in Workers : WorkerStep(w)
  BY <1>6 DEF WorkerStep, WorkerTake, WorkerParse, WorkerEmit
<1>7. CASE UNCHANGED vars
  BY <1>7 DEF vars
<1> QED BY <1>1, <1>2, <1>3, <1>4, <1>5, <1>6, <1>7 DEF Next

(* The safety part of ImplementsLoop, for any clock.  However packets and   *)
(* workers overtake each other, the select loop is handed no line twice,    *)
(* and with unique keys no line under a key that another one has: so what   *)
(* is proved of the loop holds of the engine.                               *)
THEOREM PipelineIsLoop == Spec => LoopInit /\ [][LoopNext]_loopVars
<1>1. Init => LoopInit
  BY DEF Init
<1>2. PipeTypeOK /\ LineInv /\ KeyInv /\ [Next]_vars => [LoopNext]_loopVars
  BY LoopStepInside
<1> QED BY <1>1, <1>2, PipeTypeCorrect, LineInvariant, KeyInvariant, PTL DEF Spec

----------------------------------------------------------------------------
(* What the loop has taken survives the signal *)

(* rawQueue is closed only after the loop has ended.                        *)
ClosedAfterLoop == rawClosed => mPc # "loop"

(* Nothing is pending once the loop has ended.                              *)
NothingPending == mPc # "loop" => batch = EmptyBatch

DurableInv == PipeInv /\ LoopInv /\ CounterTracksBatch /\ NothingPending /\ ClosedAfterLoop

LEMMA DurableNext == DurableInv /\ LineInv /\ KeyInv /\ [Next]_vars => DurableInv'
<1> SUFFICES ASSUME DurableInv, LineInv, KeyInv, [Next]_vars
             PROVE  DurableInv'
  OBVIOUS
<1>1. PipeInv'
  BY PipeInvNext DEF DurableInv
<1>2. LoopInv' /\ CounterTracksBatch'
  BY LoopStepInside, LoopInvNext, CounterNext DEF DurableInv, PipeInv, PipeTypeOK
<1>3. NothingPending'
  <2>1. CASE Consume \/ TickerFires
    BY <2>1 DEF Consume, TickerFires, NothingPending, pipeVars, mainVars
  <2>2. CASE Signal
    <3>1. Flush(batch, batchSize) /\ (batchSize = 0 => batch = EmptyBatch)
      BY <2>2 DEF Signal, DurableInv, CounterTracksBatch
    <3> QED BY <3>1 DEF Flush, NothingPending
  <2>3. CASE Defers
    BY <2>3 DEF Defers, DurableInv, NothingPending, loopVars, CloseHTTP, ClosePipe, WaitWorkers,
       CloseUDP, StopGRPC, CloseDB
  <2>4. CASE ReaderStep \/ \E l \in Datagrams : UdpRead(l)
    BY <2>4 DEF ReaderStep, UdpGet, UdpReadError, UdpSend, UdpRead, DurableInv, NothingPending,
       loopVars, mainVars
  <2>5. CASE \E p \in Posts : Request(p) \/ Handler(p)
    BY <2>5 DEF Request, Handler, ScanLine, ScanCut, ScanEnds, DurableInv, NothingPending, loopVars, mainVars
  <2>6. ASSUME NEW s \in Sources, Forward(s)
        PROVE  NothingPending'
    <3>1. FwdPanic(s) => mPc # "loop"
      BY DEF FwdPanic, DurableInv, ClosedAfterLoop
    <3> QED BY <2>6, <3>1 DEF Forward, FwdTake, FwdSubmit, FwdPanic, DurableInv, NothingPending,
       loopVars, mainVars
  <2>7. CASE \E w \in Workers : WorkerStep(w)
    BY <2>7 DEF WorkerStep, WorkerTake, WorkerParse, WorkerEmit, DurableInv, NothingPending,
       loopVars, mainVars
  <2>8. CASE UNCHANGED vars
    BY <2>8 DEF DurableInv, NothingPending, vars, loopVars, pipeVars, mainVars
  <2> QED BY <2>1, <2>2, <2>3, <2>4, <2>5, <2>6, <2>7, <2>8 DEF Next
<1>4. ClosedAfterLoop'
  <2>1. CASE Consume \/ TickerFires
    BY <2>1 DEF Consume, TickerFires, DurableInv, ClosedAfterLoop, pipeVars, mainVars
  <2>2. CASE Signal
    BY <2>2 DEF Signal, ClosedAfterLoop
  <2>3. CASE Defers
    BY <2>3 DEF Defers, DurableInv, ClosedAfterLoop, CloseHTTP, ClosePipe, WaitWorkers,
       CloseUDP, StopGRPC, CloseDB
  <2>4. CASE ReaderStep \/ \E l \in Datagrams : UdpRead(l)
    BY <2>4 DEF ReaderStep, UdpGet, UdpReadError, UdpSend, UdpRead, DurableInv, ClosedAfterLoop,
       mainVars
  <2>5. CASE \E p \in Posts : Request(p) \/ Handler(p)
    BY <2>5 DEF Request, Handler, ScanLine, ScanCut, ScanEnds, DurableInv, ClosedAfterLoop, mainVars
  <2>6. CASE \E s \in Sources : Forward(s)
    BY <2>6 DEF Forward, FwdTake, FwdSubmit, FwdPanic, DurableInv, ClosedAfterLoop, mainVars
  <2>7. CASE \E w \in Workers : WorkerStep(w)
    BY <2>7 DEF WorkerStep, WorkerTake, WorkerParse, WorkerEmit, DurableInv, ClosedAfterLoop,
       mainVars
  <2>8. CASE UNCHANGED vars
    BY <2>8 DEF DurableInv, ClosedAfterLoop, vars, pipeVars, mainVars
  <2> QED BY <2>1, <2>2, <2>3, <2>4, <2>5, <2>6, <2>7, <2>8 DEF Next
<1> QED BY <1>1, <1>2, <1>3, <1>4 DEF DurableInv

THEOREM DurableInvariant == Spec => []DurableInv
<1>1. Init => DurableInv
  <2> SUFFICES ASSUME Init
               PROVE  DurableInv
    OBVIOUS
  <2>1. LoopInit /\ mPc = "loop" /\ rawClosed = FALSE
    BY DEF Init
  <2>2. CounterTracksBatch
    BY <2>1 DEF LoopInit, CounterTracksBatch
  <2> QED BY <2>1, <2>2, PipeInvInit, LoopInvInit DEF DurableInv, NothingPending, ClosedAfterLoop
<1> QED BY <1>1, DurableNext, LineInvariant, KeyInvariant, PTL DEF Spec

(* Whatever the loop had taken before a signal, on whatever way the process *)
(* then ends, and whatever the clock did: there is a record under its key,  *)
(* unless the write of a batch failed.                                      *)
THEOREM ConsumedIsDurableCorrect == Spec => []ConsumedIsDurable
<1>1. DurableInv => ConsumedIsDurable
  <2> SUFFICES ASSUME DurableInv, mPc # "loop", NEW l \in Logs, idOf[l] # NoID
               PROVE  \E k \in Logs : idOf[k] = idOf[l] /\ (k \in lost \/ raw[idOf[l]] = k)
    BY DEF ConsumedIsDurable, Settled
  <2>1. LoopTypeOK /\ UnderOwnKey /\ Kept
    BY DEF DurableInv, LoopInv
  <2>2. idOf[l] \in RecordID /\ lost \subseteq Logs /\ raw \in [RecordID -> Logs \cup {NoLog}]
    BY <2>1 DEF LoopTypeOK
  <2>3. batch.rec[idOf[l]] = NoLog
    BY <2>2 DEF DurableInv, NothingPending, EmptyBatch
  <2>4. CASE \E k \in lost : idOf[k] = idOf[l]
    BY <2>2, <2>4
  <2>5. CASE raw[idOf[l]] # NoLog
    BY <2>1, <2>2, <2>5 DEF UnderOwnKey
  <2> QED BY <2>1, <2>3, <2>4, <2>5 DEF Kept
<1> QED BY <1>1, DurableInvariant, PTL

(* With unique keys that record is the line's own.                          *)
THEOREM OwnRecordIsDurable ==
  ASSUME UniqueKeys
  PROVE  Spec => [](mPc # "loop" => \A l \in Logs : idOf[l] # NoID => l \in lost \/ raw[idOf[l]] = l)
<1>1. DurableInv => (mPc # "loop" => \A l \in Logs : idOf[l] # NoID => l \in lost \/ raw[idOf[l]] = l)
  <2> SUFFICES ASSUME DurableInv, mPc # "loop", NEW l \in Logs, idOf[l] # NoID
               PROVE  l \in lost \/ raw[idOf[l]] = l
    OBVIOUS
  <2>1. LoopTypeOK /\ Accounted
    BY KeptAccounts DEF DurableInv, LoopInv
  <2>2. batch.rec[idOf[l]] = NoLog
    BY <2>1 DEF DurableInv, NothingPending, EmptyBatch, LoopTypeOK
  <2> QED BY <2>1, <2>2, UniqueKeys, FlushLoopAssumption DEF Accounted
<1> QED BY <1>1, DurableInvariant, PTL

----------------------------------------------------------------------------
(* Shutdown.  How far main has come tells what is closed, and a worker ends *)
(* only when it has seen rawQueue closed and empty.                         *)

WorkersEnd ==
  /\ \A w \in Workers : wPc[w] = "done" => rawClosed /\ rawQueue = << >>
  /\ outClosed => \A w \in Workers : wPc[w] = "done"

MainClosed ==
  /\ mPc \in {"closeUDP", "stopGRPC", "closeDB", "exited"} => outClosed
  /\ mPc \in {"stopGRPC", "closeDB", "exited"} => ~udpOpen
  /\ mPc \in {"closeDB", "exited"} => ~socket
  /\ mPc = "exited" => ~dbOpen

StopInv == PipeTypeOK /\ WorkersEnd /\ MainClosed

LEMMA StopNext == StopInv /\ PipeTypeOK' /\ [Next]_vars => StopInv'
<1> SUFFICES ASSUME StopInv, PipeTypeOK', [Next]_vars
             PROVE  WorkersEnd' /\ MainClosed'
  BY DEF StopInv
<1>t. PipeTypeOK /\ WorkersEnd /\ MainClosed
  BY DEF StopInv
<1>1. CASE Consume \/ TickerFires
  BY <1>t, <1>1 DEF Consume, TickerFires, WorkersEnd, MainClosed, pipeVars, workVars, mainVars
<1>2. CASE Signal
  BY <1>t, <1>2 DEF Signal, WorkersEnd, MainClosed, workVars
<1>3. CASE Defers
  <2>1. UNCHANGED <<wPc, rawQueue>>
    BY <1>3 DEF Defers, workVars
  <2>2. WorkersEnd'
    BY <1>t, <1>3, <2>1 DEF Defers, WorkersEnd, CloseHTTP, ClosePipe, WaitWorkers, CloseUDP, StopGRPC,
       CloseDB
  <2>3. MainClosed'
    BY <1>t, <1>3 DEF Defers, MainClosed, CloseHTTP, ClosePipe, WaitWorkers, CloseUDP, StopGRPC,
       CloseDB
  <2> QED BY <2>2, <2>3
<1>4. CASE ReaderStep \/ \E l \in Datagrams : UdpRead(l)
  BY <1>t, <1>4 DEF ReaderStep, UdpGet, UdpReadError, UdpSend, UdpRead, WorkersEnd, MainClosed,
     workVars, mainVars
<1>5. CASE \E p \in Posts : Request(p) \/ Handler(p)
  BY <1>t, <1>5 DEF Request, Handler, ScanLine, ScanCut, ScanEnds, WorkersEnd, MainClosed, workVars, mainVars
<1>6. CASE \E s \in Sources : Forward(s)
  BY <1>t, <1>6 DEF Forward, FwdTake, FwdSubmit, FwdPanic, WorkersEnd, MainClosed, workVars, mainVars
<1>7. ASSUME NEW w \in Workers, WorkerStep(w)
      PROVE  WorkersEnd' /\ MainClosed'
  <2>1. UNCHANGED mainVars /\ UNCHANGED <<rawClosed, outClosed>> /\ wPc[w] # "done"
    BY <1>7 DEF WorkerStep, WorkerTake, WorkerParse, WorkerEmit, mainVars
  <2>2. \A v \in Workers \ {w} : wPc'[v] = wPc[v]
    BY <1>t, <1>7 DEF WorkerStep, WorkerTake, WorkerParse, WorkerEmit, PipeTypeOK
  <2>3. wPc'[w] = "done" => rawClosed /\ rawQueue' = << >>
    BY <1>t, <1>7 DEF WorkerStep, WorkerTake, WorkerParse, WorkerEmit, PipeTypeOK
  <2>4. rawQueue = << >> => rawQueue' = << >>
    BY <1>t, <1>7 DEF WorkerStep, WorkerTake, WorkerParse, WorkerEmit, PipeTypeOK
  <2> QED BY <1>t, <2>1, <2>2, <2>3, <2>4 DEF WorkersEnd, MainClosed, mainVars
<1>8. CASE UNCHANGED vars
  BY <1>t, <1>8 DEF WorkersEnd, MainClosed, vars, pipeVars, workVars, mainVars
<1> QED BY <1>1, <1>2, <1>3, <1>4, <1>5, <1>6, <1>7, <1>8 DEF Next

(* When main returns, everything is closed and no packet is left in         *)
(* rawQueue; a worker never sends on the closed outQueue.                   *)
THEOREM OrderlyExitCorrect == Spec => []OrderlyExit
<1>1. Init /\ PipeTypeOK => StopInv
  <2> SUFFICES ASSUME Init, PipeTypeOK
               PROVE  StopInv
    OBVIOUS
  <2>1. mPc = "loop" /\ ~outClosed /\ \A w \in Workers : wPc[w] = "take"
    BY DEF Init
  <2> QED BY <2>1 DEF StopInv, WorkersEnd, MainClosed
<1>2. StopInv => OrderlyExit
  BY PipelineAssumption DEF StopInv, WorkersEnd, MainClosed, OrderlyExit
<1> QED BY <1>1, <1>2, StopNext, PipeTypeCorrect, PTL DEF Spec

=============================================================================
