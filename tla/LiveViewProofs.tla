--------------------------- MODULE LiveViewProofs ---------------------------
(***************************************************************************)
(* What the page shows, for any number of records, searches and rows and    *)
(* any use of the page: rows marked as new are live lines, a connection     *)
(* shows a record once, and a live line stays as the user left it.          *)
(***************************************************************************)
EXTENDS LiveView, FiniteSetTheorems, TLAPS

(* Rows of the table: live lines, and rows of searches.                     *)
LiveRow ==
  {row \in [rec : Records, from : {0}, at : Nat, id : {"live"} \X Nat] : row.id = <<"live", row.at>>}

FoundRow == [rec : Records, from : Nat \ {0}, at : {0}, id : {"found"} \X Nat]

SearchCall == [query : Queries, floor : SUBSET Records]

(* Shape of the state, as far as the arguments need it.                     *)
ViewShape ==
  /\ stored \in 0 .. MaxRecords /\ seen \subseteq Records /\ wire \in Seq(Records)
  /\ query \in Queries /\ tailQuery \in Queries
  /\ logs \in Seq(LiveRow \cup FoundRow) /\ buffer \in Seq(LiveRow)
  /\ newCount \in Nat /\ newLogCount = newCount
  /\ searches \in Seq(SearchCall \cup {<<>>})
  /\ ms \in Nat

(* What is marked as new is live, and searches that are out find no mark.   *)
MarkedRows ==
  \/ raced
  \/ /\ Out = {} \/ newCount = 0
     /\ \A i \in 1 .. Len(logs) : i <= newCount => Live(logs[i])

ViewInv == ViewShape /\ MarkedRows

----------------------------------------------------------------------------
(* Sets of numbers in order *)

LEMMA LeastNumber ==
  ASSUME NEW T \in SUBSET Nat, T # {}
  PROVE  \E m \in T : \A k \in T : m <= k
<1> DEFINE Below == {0 .. m : m \in T}
<1>1. Below \subseteq FiniteSubsetsOf(Nat) /\ Below # {}
  <2>1. ASSUME NEW m \in T
        PROVE  0 .. m \in FiniteSubsetsOf(Nat)
    <3>1. IsFiniteSet(0 .. m) /\ 0 .. m \subseteq Nat
      BY FS_Interval
    <3> QED BY <3>1 DEF FiniteSubsetsOf
  <2> QED BY <2>1
<1>2. PICK X \in Below : \A Y \in Below : <<Y, X>> \notin StrictSubsetOrdering(Nat)
  <2> HIDE DEF Below
  <2> QED BY <1>1, FS_StrictSubsetOrderingWellFounded, WFMin
<1>3. PICK m \in T : X = 0 .. m
  OBVIOUS
<1>4. ASSUME NEW k \in T, k < m
      PROVE  FALSE
  <2>1. 0 .. k \subseteq 0 .. m /\ 0 .. k # 0 .. m
    BY <1>4
  <2>2. <<0 .. k, 0 .. m>> \in StrictSubsetOrdering(Nat)
    BY <2>1 DEF StrictSubsetOrdering
  <2> QED BY <1>2, <1>3, <2>2
<1> QED BY <1>4

Increasing(s, c) == \A i, j \in 1 .. c : i < j => s[i] < s[j]

(* A finite set of numbers can be listed in order: the least bound for      *)
(* which that failed would need a set with that bound in it, and such a set *)
(* is listed by listing the rest and adding the bound.                      *)
LEMMA Listable ==
  ASSUME NEW n \in Nat, NEW S \in SUBSET (1 .. n)
  PROVE  /\ IsFiniteSet(S) /\ Cardinality(S) \in Nat
         /\ \E s \in [1 .. Cardinality(S) -> S] : Increasing(s, Cardinality(S))
<1> DEFINE Listed(X) == \E s \in [1 .. Cardinality(X) -> X] : Increasing(s, Cardinality(X))
           Bad == {k \in Nat : \E X \in SUBSET (1 .. k) : ~Listed(X)}
<1>1. ASSUME NEW k \in Nat, NEW X \in SUBSET (1 .. k)
      PROVE  IsFiniteSet(X) /\ Cardinality(X) \in Nat
  <2>1. IsFiniteSet(1 .. k)
    BY FS_Interval
  <2> QED BY <2>1, FS_Subset, FS_CardinalityType
<1>2. ASSUME NEW k \in Bad, \A j \in Bad : k <= j
      PROVE  FALSE
  <2>1. PICK X \in SUBSET (1 .. k) : ~Listed(X)
    OBVIOUS
  <2>2. CASE X = {}
    <3>1. Cardinality(X) = 0
      BY <2>2, FS_EmptySet
    <3>2. <<>> \in [1 .. 0 -> X] /\ Increasing(<<>>, 0)
      BY DEF Increasing
    <3> QED BY <2>1, <3>1, <3>2
  <2>3. CASE X # {} /\ k \notin X
    <3>1. k - 1 \in Nat /\ X \in SUBSET (1 .. k - 1)
      <4>1. k \in Nat /\ k # 0
        <5>1. PICK x : x \in X
          BY <2>3
        <5>2. k \in Nat /\ x \in 1 .. k
          BY <2>1, <5>1
        <5> QED BY <5>2
      <4>2. \A x \in X : x \in 1 .. k - 1
        BY <2>1, <2>3, <4>1
      <4> QED BY <4>1, <4>2
    <3>2. k - 1 \in Bad
      BY <2>1, <3>1
    <3>3. k <= k - 1 /\ k \in Nat
      BY <1>2, <3>2
    <3> QED BY <3>3
  <2>4. CASE k \in X
    <3>1. k - 1 \in Nat /\ X \ {k} \in SUBSET (1 .. k - 1)
      BY <2>4
    <3>2. Listed(X \ {k})
      <4>1. k - 1 \notin Bad
        <5>1. k \in Nat /\ (k - 1 \in Bad => k <= k - 1)
          BY <1>2
        <5> HIDE DEF Bad
        <5> QED BY <5>1
      <4> HIDE DEF Listed
      <4> QED BY <3>1, <4>1
    <3>3. PICK c : c = Cardinality(X \ {k})
      OBVIOUS
    <3>4. c \in Nat /\ Cardinality(X) = c + 1
      <4>1. IsFiniteSet(X \ {k}) /\ c \in Nat
        BY <1>1, <3>1, <3>3
      <4>2. X = (X \ {k}) \cup {k}
        BY <2>4
      <4> QED BY <3>3, <4>1, <4>2, FS_AddElement
    <3>5. PICK s \in [1 .. c -> X \ {k}] : Increasing(s, c)
      BY <3>2, <3>3
    <3>6. PICK t : t = [i \in 1 .. c + 1 |-> IF i <= c THEN s[i] ELSE k]
      OBVIOUS
    <3>7. t \in [1 .. c + 1 -> X]
      BY <2>4, <3>4, <3>5, <3>6
    <3>8. ASSUME NEW i \in 1 .. c + 1, NEW j \in 1 .. c + 1, i < j
          PROVE  t[i] < t[j]
      <4>1. i \in 1 .. c /\ t[i] = s[i] /\ s[i] \in X \ {k}
        BY <3>4, <3>5, <3>6, <3>8
      <4>2. CASE j <= c
        BY <3>4, <3>5, <3>6, <3>8, <4>1, <4>2 DEF Increasing
      <4>3. CASE j = c + 1
        <5>1. t[j] = k
          BY <3>4, <3>6, <4>3
        <5>2. s[i] \in 1 .. k - 1
          BY <3>1, <4>1
        <5> QED BY <3>1, <4>1, <5>1, <5>2
      <4> QED BY <3>4, <4>2, <4>3
    <3>9. Increasing(t, c + 1)
      BY <3>8 DEF Increasing
    <3> QED BY <2>1, <3>4, <3>7, <3>9
  <2> QED BY <2>2, <2>3, <2>4
<1>3. Bad = {}
  <2>1. Bad \subseteq Nat
    OBVIOUS
  <2> HIDE DEF Bad
  <2> QED BY <1>2, <2>1, LeastNumber
<1>4. Listed(S)
  BY <1>3
<1> QED BY <1>1, <1>4

(* InOrder lists a set of numbers, none of them twice.                      *)
LEMMA InOrderLists ==
  ASSUME NEW n \in Nat, NEW S \in SUBSET (1 .. n)
  PROVE  /\ InOrder(S) \in Seq(S) /\ Len(InOrder(S)) = Cardinality(S)
         /\ \A i, j \in 1 .. Len(InOrder(S)) : InOrder(S)[i] = InOrder(S)[j] => i = j
<1>1. PICK c : c = Cardinality(S)
  OBVIOUS
<1>2. c \in Nat /\ \E s \in [1 .. c -> S] : Increasing(s, c)
  BY <1>1, Listable
<1>3. InOrder(S) \in [1 .. c -> S] /\ Increasing(InOrder(S), c)
  BY <1>1, <1>2 DEF InOrder, Increasing
<1>4. PICK s : s = InOrder(S)
  OBVIOUS
<1>5. s \in Seq(S) /\ Len(s) = c
  BY <1>2, <1>3, <1>4
<1>6. \A i, j \in 1 .. c : s[i] \in Nat /\ (s[i] = s[j] => i = j)
  <2> TAKE i, j \in 1 .. c
  <2>1. s[i] \in 1 .. n /\ s[j] \in 1 .. n
    BY <1>3, <1>4
  <2>2. i < j \/ j < i => s[i] # s[j]
    BY <1>3, <1>4, <2>1 DEF Increasing
  <2> QED BY <1>2, <2>1, <2>2
<1> QED BY <1>1, <1>4, <1>5, <1>6

----------------------------------------------------------------------------
(* The shape of the state *)

LEMMA FoundRecords ==
  ASSUME NEW q \in Queries
  PROVE  Found(q) \in SUBSET Records
BY LiveViewAssumption DEF Found

LEMMA ListedRecords ==
  ASSUME NEW S \in SUBSET Records
  PROVE  /\ InOrder(S) \in Seq(Records)
         /\ \A i \in 1 .. Len(InOrder(S)) : InOrder(S)[i] \in S
         /\ \A i, j \in 1 .. Len(InOrder(S)) : InOrder(S)[i] = InOrder(S)[j] => i = j
<1>1. PICK s : s = InOrder(S)
  OBVIOUS
<1>2. s \in Seq(S) /\ \A i, j \in 1 .. Len(s) : s[i] = s[j] => i = j
  BY <1>1, InOrderLists, LiveViewAssumption DEF Records
<1>3. s \in Seq(Records) /\ \A i \in 1 .. Len(s) : s[i] \in S
  BY <1>2
<1> QED BY <1>1, <1>2, <1>3

(* The rows of a search are none of live lines.                             *)
LEMMA RowsFound ==
  ASSUME NEW n \in Nat \ {0}, NEW s \in Seq(Records)
  PROVE  Rows(n, s) \in Seq(FoundRow)
<1>1. PICK K, kept : /\ K = {i \in DOMAIN s : s[i] \in Keeps[searches[n].query]}
                     /\ kept = InOrder(K)
  OBVIOUS
<1>2. PICK c : c = Len(s)
  OBVIOUS
<1>3. c \in Nat /\ K \in SUBSET (1 .. c)
  BY <1>1, <1>2
<1>4. kept \in Seq(K)
  BY <1>1, <1>3, InOrderLists
<1>5. PICK d : d = Len(kept)
  OBVIOUS
<1>6. d \in Nat /\ DOMAIN kept = 1 .. d /\ \A j \in 1 .. d : kept[j] \in 1 .. c
  <2>1. \A j \in 1 .. d : kept[j] \in K
    BY <1>4, <1>5
  <2>2. d \in Nat /\ DOMAIN kept = 1 .. d
    BY <1>4, <1>5
  <2> QED BY <1>3, <2>1, <2>2
<1>7. Rows(n, s) = [j \in 1 .. d |-> [rec |-> s[kept[j]], from |-> n, at |-> 0, id |-> <<"found", kept[j]>>]]
  BY <1>1, <1>6 DEF Rows
<1>8. ASSUME NEW j \in 1 .. d
      PROVE  [rec |-> s[kept[j]], from |-> n, at |-> 0, id |-> <<"found", kept[j]>>] \in FoundRow
  <2>1. s[kept[j]] \in Records /\ kept[j] \in Nat
    BY <1>2, <1>6
  <2> QED BY <2>1 DEF FoundRow
<1> QED BY <1>6, <1>7, <1>8

(* What a search's outcome does to the table.                               *)
LEMMA SettleRows ==
  ASSUME ViewShape, NEW n \in DOMAIN searches, Settle(n)
  PROVE  /\ logs' \in Seq(FoundRow)
         /\ n \in Out /\ searches' = [searches EXCEPT ![n] = <<>>]
<1>1. n \in Nat \ {0} /\ searches[n] \in SearchCall
  BY DEF ViewShape, Settle, Out
<1>2. CASE logs' = <<>>
  BY <1>2 DEF Settle
<1>3. ASSUME NEW found \in SUBSET Found(searches[n].query), logs' = Rows(n, InOrder(found))
      PROVE  logs' \in Seq(FoundRow)
  <2>1. found \in SUBSET Records
    BY <1>1, FoundRecords DEF SearchCall
  <2> QED BY <1>1, <1>3, <2>1, ListedRecords, RowsFound
<1>4. \/ logs' = <<>>
      \/ \E found \in SUBSET Found(searches[n].query) : logs' = Rows(n, InOrder(found))
  BY DEF Settle, Replace
<1> QED BY <1>2, <1>3, <1>4 DEF Settle

LEMMA RunQueryCalls ==
  ASSUME ViewShape, RunQuery
  PROVE  searches' \in Seq(SearchCall \cup {<<>>}) /\ newCount' = 0 /\ newLogCount' = 0
<1>1. [query |-> query, floor |-> Found(query)] \in SearchCall
  BY FoundRecords DEF ViewShape, SearchCall
<1> QED BY <1>1 DEF RunQuery, ViewShape

(* A batch of live lines on top of the table.                               *)
LEMMA FlushRows ==
  ASSUME ViewShape, Flush
  PROVE  /\ logs' \in Seq(LiveRow \cup FoundRow)
         /\ Len(logs') <= Len(buffer) + Len(logs)
         /\ \A i \in 1 .. Len(logs') : logs'[i] = IF i <= Len(buffer) THEN buffer[i]
                                                  ELSE logs[i - Len(buffer)]
<1>1. PICK S, merged : S = LiveRow \cup FoundRow /\ merged = buffer \o logs
  OBVIOUS
<1>2. PICK k : k = IF Len(merged) < LiveMaxLines THEN Len(merged) ELSE LiveMaxLines
  OBVIOUS
<1>3. logs' = SubSeq(merged, 1, k)
  BY <1>1, <1>2 DEF Flush
<1>4. buffer \in Seq(S) /\ logs \in Seq(S)
  BY <1>1 DEF ViewShape
<1>5. /\ merged \in Seq(S) /\ Len(merged) = Len(buffer) + Len(logs)
      /\ \A i \in 1 .. Len(merged) : merged[i] = IF i <= Len(buffer) THEN buffer[i]
                                                 ELSE logs[i - Len(buffer)]
  BY <1>1, <1>4
<1>6. k \in 0 .. Len(merged)
  BY <1>2, <1>5, LiveViewAssumption
<1>7. /\ SubSeq(merged, 1, k) \in Seq(S) /\ Len(SubSeq(merged, 1, k)) = k
      /\ \A i \in 1 .. k : SubSeq(merged, 1, k)[i] = merged[i]
  BY <1>5, <1>6
<1> QED BY <1>1, <1>3, <1>4, <1>5, <1>6, <1>7

LEMMA ReceiveRow ==
  ASSUME ViewShape, Receive
  PROVE  /\ wire' \in Seq(Records) /\ ms' \in Nat
         /\ \E row \in LiveRow : row.rec = wire[1] /\ buffer' = Append(buffer, row)
<1>1. wire \in Seq(Records) /\ wire # <<>> /\ wire' = Tail(wire) /\ ms' \in Nat
  BY DEF Receive, ViewShape
<1>2. PICK r, m : r = Head(wire) /\ m = ms'
  OBVIOUS
<1>3. r \in Records /\ r = wire[1] /\ Tail(wire) \in Seq(Records)
  BY <1>1, <1>2
<1>4. PICK row : row = [rec |-> r, from |-> 0, at |-> m, id |-> <<"live", m>>]
  OBVIOUS
<1>5. row \in LiveRow /\ row.rec = r
  BY <1>1, <1>2, <1>3, <1>4 DEF LiveRow
<1>6. buffer' = Append(buffer, row)
  BY <1>2, <1>4 DEF Receive
<1> QED BY <1>1, <1>3, <1>5, <1>6

LEMMA ShapeNext == ViewShape /\ [Next]_vars => ViewShape'
<1> SUFFICES ASSUME ViewShape, [Next]_vars
             PROVE  ViewShape'
  OBVIOUS
<1> USE DEF linkVars, pageVars, tableVars, lineVars
<1>1. CASE Store \/ Connect \/ Lose
  <2>1. CASE Store
    <3>1. stored' \in 0 .. MaxRecords
      BY <2>1, LiveViewAssumption DEF Store, ViewShape
    <3> QED BY <2>1, <3>1 DEF Store, ViewShape
  <2>2. CASE Connect
    BY <2>2 DEF Connect, ViewShape
  <2>3. CASE Lose
    BY <2>3 DEF Lose, Disconnect, ViewShape
  <2> QED BY <1>1, <2>1, <2>2, <2>3
<1>2. CASE Poll
  <2>1. Unseen \in SUBSET Records
    BY FoundRecords DEF Unseen, ViewShape
  <2>2. InOrder(Unseen) \in Seq(Records)
    BY <2>1, ListedRecords
  <2>3. wire' \in Seq(Records) /\ seen' \subseteq Records
    BY <1>2, <2>1, <2>2 DEF Poll, ViewShape
  <2> QED BY <1>2, <2>3 DEF Poll, ViewShape
<1>3. CASE Receive
  <2>1. buffer' \in Seq(LiveRow)
    <3>1. PICK row \in LiveRow : buffer' = Append(buffer, row)
      BY <1>3, ReceiveRow
    <3>2. buffer \in Seq(LiveRow)
      BY DEF ViewShape
    <3> QED BY <3>1, <3>2
  <2> QED BY <1>3, <2>1, ReceiveRow DEF Receive, ViewShape
<1>4. CASE Flush
  <2>1. newCount' \in Nat /\ newLogCount' = newCount' /\ buffer' = <<>>
    BY <1>4 DEF Flush, ViewShape
  <2> QED BY <1>4, <2>1, FlushRows DEF Flush, ViewShape
<1>5. ASSUME NEW n \in DOMAIN searches, Settle(n)
      PROVE  ViewShape'
  <2>1. logs' \in Seq(LiveRow \cup FoundRow)
    BY <1>5, SettleRows
  <2>2. searches' \in Seq(SearchCall \cup {<<>>})
    <3>1. PICK S : S = SearchCall \cup {<<>>}
      OBVIOUS
    <3>2. searches \in Seq(S) /\ <<>> \in S /\ searches' = [searches EXCEPT ![n] = <<>>]
      BY <1>5, <3>1, SettleRows DEF ViewShape
    <3> QED BY <3>1, <3>2
  <2> QED BY <1>5, <2>1, <2>2 DEF Settle, ViewShape
<1>6. CASE Type \/ \E i \in DOMAIN logs : Click(i)
  BY <1>6 DEF Type, Click, ViewShape
<1>7. CASE PressEnter
  BY <1>7, RunQueryCalls DEF PressEnter, ViewShape
<1>8. CASE PressSpace \/ ClickPill
  <2>1. /\ UNCHANGED <<stored, query, logs, ms>> /\ seen' = {} /\ wire' = <<>> /\ buffer' = <<>>
        /\ tailQuery' \in Queries
    BY <1>8 DEF PressSpace, ClickPill, Switch, Disconnect, ViewShape
  <2>2. /\ newCount' \in Nat /\ newLogCount' = newCount'
        /\ searches' \in Seq(SearchCall \cup {<<>>})
    BY <1>8, RunQueryCalls DEF PressSpace, ClickPill, ViewShape
  <2> QED BY <2>1, <2>2 DEF ViewShape
<1>9. CASE Reload
  <2>1. query' \in Queries
    BY <1>9, LiveViewAssumption DEF Reload, ViewShape
  <2>2. [query |-> query', floor |-> Found(query')] \in SearchCall
    <3>1. PICK q : q = query'
      OBVIOUS
    <3> QED BY <2>1, <3>1, FoundRecords DEF SearchCall
  <2>3. searches' \in Seq(SearchCall \cup {<<>>})
    BY <1>9, <2>2 DEF Reload
  <2> QED BY <1>9, <2>1, <2>3 DEF Reload, Disconnect, ViewShape
<1>10. CASE UNCHANGED vars
  BY <1>10 DEF vars, ViewShape
<1> QED BY <1>1, <1>2, <1>3, <1>4, <1>5, <1>6, <1>7, <1>8, <1>9, <1>10 DEF Next

LEMMA ShapeInit == Init => ViewShape
<1> SUFFICES ASSUME Init
             PROVE  ViewShape
  OBVIOUS
<1>1. [query |-> query, floor |-> {}] \in SearchCall
  BY DEF Init, SearchCall
<1>2. searches \in Seq(SearchCall \cup {<<>>})
  BY <1>1 DEF Init
<1> QED BY <1>2, LiveViewAssumption DEF Init, ViewShape

----------------------------------------------------------------------------
(* Marks *)

LEMMA LiveRows ==
  /\ \A row \in LiveRow : Live(row) /\ row.rec \in Records /\ row.id = <<"live", row.at>> /\ row.at \in Nat
  /\ \A row \in FoundRow : ~Live(row) /\ \A t : row.id # <<"live", t>>
BY DEF LiveRow, FoundRow, Live

LEMMA MarkedNext == ViewInv /\ [Next]_vars => MarkedRows'
<1> SUFFICES ASSUME ViewInv, [Next]_vars
             PROVE  MarkedRows'
  OBVIOUS
<1>s. ViewShape /\ MarkedRows
  BY DEF ViewInv
<1> USE DEF linkVars, pageVars, tableVars, lineVars
<1>1. ASSUME newCount' = 0, logs' = logs
      PROVE  MarkedRows'
  BY <1>1 DEF MarkedRows
<1>2. CASE UNCHANGED <<raced, searches, newCount, logs>>
  BY <1>s, <1>2 DEF MarkedRows, Out
<1>3. CASE Store \/ Connect \/ Lose \/ Poll \/ Receive \/ Type \/ UNCHANGED vars
           \/ \E i \in DOMAIN logs : Click(i)
  BY <1>2, <1>3 DEF Store, Connect, Lose, Poll, Receive, Type, Click, vars
<1>4. CASE PressEnter \/ ClickPill
  BY <1>1, <1>4 DEF PressEnter, ClickPill, RunQuery, Switch
<1>5. CASE PressSpace
  BY <1>1, <1>2, <1>5 DEF PressSpace, Switch
<1>6. CASE Reload
  BY <1>6 DEF Reload, MarkedRows
<1>7. CASE Flush
  <2>1. CASE raced'
    BY <2>1 DEF MarkedRows
  <2>2. CASE ~raced'
    <3>1. ~raced /\ Out = {} /\ Out' = {}
      BY <1>7, <2>2 DEF Flush, Out
    <3>2. newCount' = newCount + Len(buffer) /\ Len(buffer) \in Nat /\ newCount \in Nat
      BY <1>s, <1>7 DEF Flush, ViewShape
    <3>3. ASSUME NEW i \in 1 .. Len(logs'), i <= newCount'
          PROVE  Live(logs'[i])
      <4>1. CASE i <= Len(buffer)
        <5>1. logs'[i] = buffer[i] /\ buffer[i] \in LiveRow
          BY <1>s, <1>7, <4>1, FlushRows DEF ViewShape
        <5> QED BY <5>1, LiveRows
      <4>2. CASE ~(i <= Len(buffer))
        <5>1. PICK k : k = i - Len(buffer)
          OBVIOUS
        <5>2. logs'[i] = logs[k] /\ k <= newCount /\ k \in 1 .. Len(logs)
          BY <1>s, <1>7, <3>2, <3>3, <4>2, <5>1, FlushRows DEF ViewShape
        <5> QED BY <1>s, <3>1, <5>2 DEF MarkedRows
      <4> QED BY <4>1, <4>2
    <3> QED BY <3>1, <3>3 DEF MarkedRows
  <2> QED BY <2>1, <2>2
<1>8. ASSUME NEW n \in DOMAIN searches, Settle(n)
      PROVE  MarkedRows'
  <2>1. n \in Out /\ logs' \in Seq(FoundRow) /\ raced' = raced /\ newCount' = newCount
    BY <1>s, <1>8, SettleRows DEF Settle
  <2>2. raced \/ newCount = 0
    BY <1>s, <2>1 DEF MarkedRows
  <2>3. \A i \in 1 .. Len(logs') : ~(i <= 0)
    BY <2>1
  <2> QED BY <2>1, <2>2, <2>3 DEF MarkedRows
<1> QED BY <1>3, <1>4, <1>5, <1>6, <1>7, <1>8 DEF Next

LEMMA ViewInvInit == Init => ViewInv
BY ShapeInit DEF Init, ViewInv, MarkedRows

THEOREM ViewInvariant == Spec => []ViewInv
<1>1. ViewInv /\ [Next]_vars => ViewInv'
  BY ShapeNext, MarkedNext DEF ViewInv
<1> QED BY <1>1, ViewInvInit, PTL DEF Spec

(* A row that LogViewer marks as new (LogViewer.jsx:334) is a live line,    *)
(* unless a batch was shown while a search was out.                         *)
THEOREM MarkedAreLiveCorrect == Spec => []MarkedAreLive
<1>1. ViewInv => MarkedAreLive
  <2> SUFFICES ASSUME ViewInv, ~raced, NEW i \in DOMAIN Table, Table[i].isNew
               PROVE  Live(logs[i])
    BY DEF MarkedAreLive
  <2>1. ~isLoading
    BY DEF Table
  <2>2. i \in DOMAIN logs /\ i <= newLogCount
    BY <2>1 DEF Table
  <2> QED BY <2>2 DEF ViewInv, ViewShape, MarkedRows
<1> QED BY <1>1, ViewInvariant, PTL

----------------------------------------------------------------------------
(* Expanded rows.  A click toggles an identifier, and live lines share it   *)
(* when they came in one millisecond: it is expanded when an odd number of  *)
(* them has been clicked an odd number of times.                            *)

ClickedAt(t) == {row \in clicked : Live(row) /\ row.at = t}

Odd(n) == n % 2 = 1

ExpandInv ==
  /\ clicked \subseteq LiveRow \cup FoundRow /\ IsFiniteSet(clicked)
  /\ \A t \in Nat : <<"live", t>> \in expandedIds <=> Odd(Cardinality(ClickedAt(t)))

LEMMA OddNext ==
  ASSUME NEW n \in Nat
  PROVE  /\ Odd(n + 1) <=> ~Odd(n)
         /\ n # 0 => (Odd(n - 1) <=> ~Odd(n))
BY DEF Odd

(* What a click on a row does to the rows of a millisecond.                 *)
LEMMA ClickToggles ==
  ASSUME ViewInv, ExpandInv, NEW i \in DOMAIN logs, Click(i)
  PROVE  ExpandInv'
<1>1. PICK row : row = logs[i]
  OBVIOUS
<1>2. row \in LiveRow \cup FoundRow
  BY <1>1 DEF ViewInv, ViewShape
<1>3. /\ expandedIds' = IF row.id \in expandedIds THEN expandedIds \ {row.id} ELSE expandedIds \cup {row.id}
      /\ clicked' = IF row \in clicked THEN clicked \ {row} ELSE clicked \cup {row}
  BY <1>1 DEF Click
<1>4. clicked' \subseteq LiveRow \cup FoundRow /\ IsFiniteSet(clicked')
  <2>1. clicked' \subseteq LiveRow \cup FoundRow
    BY <1>2, <1>3 DEF ExpandInv
  <2>2. IsFiniteSet(clicked')
    BY <1>3, FS_AddElement, FS_RemoveElement DEF ExpandInv
  <2> QED BY <2>1, <2>2
<1>5. ASSUME NEW t \in Nat
      PROVE  <<"live", t>> \in expandedIds' <=> Odd(Cardinality(ClickedAt(t)'))
  <2>1. IsFiniteSet(ClickedAt(t)) /\ Cardinality(ClickedAt(t)) \in Nat
    BY FS_Subset, FS_CardinalityType DEF ClickedAt, ExpandInv
  <2>2. CASE Live(row) /\ row.at = t
    <3>1. row.id = <<"live", t>>
      BY <1>2, <2>2, LiveRows
    <3>2. CASE row \in clicked
      <4>1. ClickedAt(t)' = ClickedAt(t) \ {row} /\ row \in ClickedAt(t)
        BY <1>3, <2>2, <3>2 DEF ClickedAt, Live
      <4>2. Cardinality(ClickedAt(t)') = Cardinality(ClickedAt(t)) - 1
        BY <2>1, <4>1, FS_RemoveElement
      <4>3. Cardinality(ClickedAt(t)) # 0
        BY <2>1, <4>1, FS_EmptySet
      <4> QED BY <1>3, <2>1, <3>1, <4>2, <4>3, OddNext DEF ExpandInv
    <3>3. CASE row \notin clicked
      <4>1. ClickedAt(t)' = ClickedAt(t) \cup {row} /\ row \notin ClickedAt(t)
        BY <1>3, <2>2, <3>3 DEF ClickedAt, Live
      <4>2. Cardinality(ClickedAt(t)') = Cardinality(ClickedAt(t)) + 1
        BY <2>1, <4>1, FS_AddElement
      <4> QED BY <1>3, <2>1, <3>1, <4>2, OddNext DEF ExpandInv
    <3> QED BY <3>2, <3>3
  <2>3. CASE ~(Live(row) /\ row.at = t)
    <3>1. row.id # <<"live", t>>
      <4>1. CASE row \in LiveRow
        BY <2>3, <4>1, LiveRows
      <4>2. CASE row \in FoundRow
        BY <4>2, LiveRows
      <4> QED BY <1>2, <4>1, <4>2
    <3>2. ClickedAt(t)' = ClickedAt(t)
      BY <1>3, <2>3 DEF ClickedAt, Live
    <3> QED BY <1>3, <3>1, <3>2 DEF ExpandInv
  <2> QED BY <2>2, <2>3
<1> QED BY <1>4, <1>5 DEF ExpandInv

LEMMA ExpandNext == ViewInv /\ ExpandInv /\ [Next]_vars => ExpandInv'
<1> SUFFICES ASSUME ViewInv, ExpandInv, [Next]_vars
             PROVE  ExpandInv'
  OBVIOUS
<1> USE DEF linkVars, pageVars, tableVars, lineVars
<1>1. CASE UNCHANGED <<expandedIds, clicked>>
  BY <1>1 DEF ExpandInv, ClickedAt
<1>2. CASE Reload
  <2>1. expandedIds' = {} /\ clicked' = {}
    BY <1>2 DEF Reload
  <2>2. \A t : ClickedAt(t)' = {}
    BY <2>1 DEF ClickedAt
  <2> QED BY <2>1, <2>2, FS_EmptySet DEF ExpandInv, Odd
<1>3. CASE \E i \in DOMAIN logs : Click(i)
  BY <1>3, ClickToggles
<1>4. CASE \/ Store \/ Connect \/ Lose \/ Poll \/ Receive \/ Flush \/ (\E n \in DOMAIN searches : Settle(n))
           \/ Type \/ PressEnter \/ UNCHANGED vars
  BY <1>1, <1>4 DEF Store, Connect, Lose, Poll, Receive, Flush, Settle, Type, PressEnter, vars
<1>5. CASE PressSpace \/ ClickPill
  BY <1>1, <1>5 DEF PressSpace, ClickPill, Switch
<1> QED BY <1>2, <1>3, <1>4, <1>5 DEF Next

THEOREM ExpandInvariant == Spec => []ExpandInv
<1>1. Init => ExpandInv
  <2> SUFFICES ASSUME Init
               PROVE  ExpandInv
    OBVIOUS
  <2>1. expandedIds = {} /\ clicked = {}
    BY DEF Init
  <2>2. \A t : ClickedAt(t) = {}
    BY <2>1 DEF ClickedAt
  <2> QED BY <2>1, <2>2, FS_EmptySet DEF ExpandInv, Odd
<1> QED BY <1>1, ExpandNext, ViewInvariant, PTL DEF Spec

(* A live line that came alone in its millisecond is expanded as the user   *)
(* left it (LogViewer.jsx:229), whatever has moved it since.                *)
THEOREM LiveRowsKeepExpansionCorrect == Spec => []LiveRowsKeepExpansion
<1>1. ASSUME ViewInv, ExpandInv, NEW i \in DOMAIN Table, Live(logs[i]),
             \A other \in Range(logs) \cup clicked : other.at = logs[i].at => other = logs[i]
      PROVE  Table[i].isExpanded <=> logs[i] \in clicked
  <2>1. PICK row : row = logs[i]
    OBVIOUS
  <2>2. i \in DOMAIN logs /\ (Table[i].isExpanded <=> row.id \in expandedIds)
    <3>1. ~isLoading
      BY DEF Table
    <3> QED BY <2>1, <3>1 DEF Table
  <2>3. row.id = <<"live", row.at>> /\ row.at \in Nat
    <3>1. row \in LiveRow \cup FoundRow
      BY <1>1, <2>1, <2>2 DEF ViewInv, ViewShape
    <3> QED BY <1>1, <2>1, <3>1, LiveRows
  <2>4. ClickedAt(row.at) = IF row \in clicked THEN {row} ELSE {}
    BY <1>1, <2>1 DEF ClickedAt
  <2>5. Odd(Cardinality(ClickedAt(row.at))) <=> row \in clicked
    <3>1. CASE row \in clicked
      <4>1. Cardinality(ClickedAt(row.at)) = 1
        BY <2>4, <3>1, FS_Singleton
      <4> QED BY <3>1, <4>1 DEF Odd
    <3>2. CASE row \notin clicked
      <4>1. Cardinality(ClickedAt(row.at)) = 0
        BY <2>4, <3>2, FS_EmptySet
      <4> QED BY <3>2, <4>1 DEF Odd
    <3> QED BY <3>1, <3>2
  <2> QED BY <1>1, <2>1, <2>2, <2>3, <2>5 DEF ExpandInv
<1>2. ViewInv /\ ExpandInv => LiveRowsKeepExpansion
  BY <1>1 DEF LiveRowsKeepExpansion
<1> QED BY <1>2, ViewInvariant, ExpandInvariant, PTL

----------------------------------------------------------------------------
(* How often a sequence has a member of X *)

Hits(s, X) == {i \in 1 .. Len(s) : s[i] \in X}

Count(s, X) == Cardinality(Hits(s, X))

LEMMA HitsFinite ==
  ASSUME NEW S, NEW s \in Seq(S), NEW X
  PROVE  IsFiniteSet(Hits(s, X)) /\ Count(s, X) \in Nat
<1>1. IsFiniteSet(1 .. Len(s))
  BY FS_Interval
<1> QED BY <1>1, FS_Subset, FS_CardinalityType DEF Hits, Count

LEMMA CountEmpty ==
  ASSUME NEW X
  PROVE  Count(<<>>, X) = 0
<1>1. Hits(<<>>, X) = {}
  BY DEF Hits
<1> QED BY <1>1, FS_EmptySet DEF Count

LEMMA CountNone ==
  ASSUME NEW S, NEW s \in Seq(S), NEW X, \A i \in 1 .. Len(s) : s[i] \notin X
  PROVE  Count(s, X) = 0
<1>1. Hits(s, X) = {}
  BY DEF Hits
<1> QED BY <1>1, FS_EmptySet DEF Count

LEMMA CountAppend ==
  ASSUME NEW S, NEW s \in Seq(S), NEW x \in S, NEW X
  PROVE  Count(Append(s, x), X) = Count(s, X) + (IF x \in X THEN 1 ELSE 0)
<1>1. PICK n : n = Len(s)
  OBVIOUS
<1>2. PICK t : t = Append(s, x)
  OBVIOUS
<1>3. n \in Nat /\ Len(t) = n + 1 /\ t[n + 1] = x /\ \A i \in 1 .. n : t[i] = s[i]
  BY <1>1, <1>2
<1>4. IsFiniteSet(Hits(s, X)) /\ Count(s, X) \in Nat
  BY HitsFinite
<1>5. CASE x \in X
  <2>1. Hits(t, X) = Hits(s, X) \cup {n + 1} /\ n + 1 \notin Hits(s, X)
    BY <1>1, <1>3, <1>5 DEF Hits
  <2> QED BY <1>2, <1>4, <1>5, <2>1, FS_AddElement DEF Count
<1>6. CASE x \notin X
  <2>1. Hits(t, X) = Hits(s, X)
    BY <1>1, <1>3, <1>6 DEF Hits
  <2> QED BY <1>2, <1>4, <1>6, <2>1 DEF Count
<1> QED BY <1>5, <1>6

(* The hits of two sequences in a row: those of the second are shifted.     *)
LEMMA CountConcat ==
  ASSUME NEW S, NEW s \in Seq(S), NEW t \in Seq(S), NEW X
  PROVE  Count(s \o t, X) = Count(s, X) + Count(t, X)
<1>1. PICK n, m, u : n = Len(s) /\ m = Len(t) /\ u = s \o t
  OBVIOUS
<1>2. /\ n \in Nat /\ m \in Nat /\ Len(u) = n + m
      /\ \A i \in 1 .. n : u[i] = s[i]
      /\ \A i \in 1 .. m : u[n + i] = t[i]
  BY <1>1
<1>3. PICK Late : Late = {i \in n + 1 .. n + m : u[i] \in X}
  OBVIOUS
<1>4. /\ IsFiniteSet(Hits(s, X)) /\ Count(s, X) \in Nat
      /\ IsFiniteSet(Hits(t, X)) /\ Count(t, X) \in Nat
  BY HitsFinite
<1>5. IsFiniteSet(Late) /\ Cardinality(Late) = Count(t, X)
  <2>1. PICK f : f = [i \in Hits(t, X) |-> n + i]
    OBVIOUS
  <2>2. \A i \in Hits(t, X) : f[i] = n + i /\ f[i] \in Late /\ i \in Nat
    BY <1>1, <1>2, <1>3, <2>1 DEF Hits
  <2>3. \A k \in Late : k - n \in Hits(t, X) /\ f[k - n] = k
    <3> TAKE k \in Late
    <3>1. k - n \in 1 .. m /\ n + (k - n) = k
      BY <1>2, <1>3
    <3>2. k - n \in Hits(t, X)
      BY <1>1, <1>2, <1>3, <3>1 DEF Hits
    <3> QED BY <2>2, <3>1, <3>2
  <2>4. f \in [Hits(t, X) -> Late]
    BY <2>1, <2>2
  <2>5. f \in Bijection(Hits(t, X), Late)
    <3>1. IsInjective(f)
      <4>1. \A i, j \in Hits(t, X) : f[i] = f[j] => i = j
        BY <1>2, <2>2
      <4> QED BY <2>4, <4>1 DEF IsInjective
    <3> QED BY <2>3, <2>4, <3>1 DEF Bijection, Injection, Surjection
  <2> QED BY <1>4, <2>5, FS_Bijection DEF ExistsBijection, Count
<1>6. Hits(u, X) = Hits(s, X) \cup Late
  BY <1>1, <1>2, <1>3 DEF Hits
<1>7. Hits(s, X) \cap Late = {}
  BY <1>1, <1>2, <1>3 DEF Hits
<1>8. Cardinality(Hits(u, X)) = Cardinality(Hits(s, X)) + Cardinality(Late) - 0
  BY <1>4, <1>5, <1>6, <1>7, FS_Union, FS_EmptySet
<1> QED BY <1>1, <1>4, <1>5, <1>8 DEF Count

LEMMA CountTail ==
  ASSUME NEW S, NEW s \in Seq(S), s # <<>>, NEW X
  PROVE  Count(s, X) = Count(Tail(s), X) + (IF s[1] \in X THEN 1 ELSE 0)
<1>1. PICK x, T : x = s[1] /\ T = Tail(s)
  OBVIOUS
<1>2. x \in S /\ T \in Seq(S) /\ <<>> \in Seq(S)
  BY <1>1
<1>3. s = Append(<<>>, x) \o T
  BY <1>1, <1>2
<1>4. PICK e, a : e = <<>> /\ a = Append(e, x)
  OBVIOUS
<1>5. e \in Seq(S) /\ a \in Seq(S) /\ s = a \o T /\ Count(e, X) = 0
  BY <1>2, <1>3, <1>4, CountEmpty
<1>6. Count(a \o T, X) = Count(a, X) + Count(T, X)
  BY <1>2, <1>5, CountConcat
<1>7. Count(Append(e, x), X) = Count(e, X) + (IF x \in X THEN 1 ELSE 0)
  BY <1>2, <1>5, CountAppend
<1>8. Count(T, X) \in Nat
  BY <1>2, HitsFinite
<1>9. Count(a, X) = (IF x \in X THEN 1 ELSE 0)
  BY <1>4, <1>5, <1>7
<1>10. PICK c : c = Count(T, X)
  OBVIOUS
<1>11. c \in Nat /\ Count(s, X) = (IF x \in X THEN 1 ELSE 0) + c
  BY <1>5, <1>6, <1>8, <1>9, <1>10
<1> QED BY <1>1, <1>10, <1>11

(* What is left of a sequence has no more hits.                             *)
LEMMA CountPrefix ==
  ASSUME NEW S, NEW s \in Seq(S), NEW t, NEW X, NEW k \in Nat, Len(t) = k, k <= Len(s),
         \A i \in 1 .. k : t[i] = s[i]
  PROVE  Count(t, X) <= Count(s, X)
<1>1. Hits(t, X) \subseteq Hits(s, X)
  BY DEF Hits
<1> QED BY <1>1, HitsFinite, FS_Subset DEF Count

----------------------------------------------------------------------------
(* How often a record has been sent: every connection's tail sends it once, *)
(* and the one that is up may still owe it.                                 *)

LiveOf(r) == {row \in LiveRow : row.rec = r}

Sent(r) == Count(wire, {r}) + Count(buffer, LiveOf(r)) + Count(logs, LiveOf(r))

Owed(r) == IF link = "up" /\ r \notin seen THEN 1 ELSE 0

SentInv == tails \in Nat /\ \A r \in Records : Sent(r) + Owed(r) <= tails

LEMMA CountsTyped ==
  ASSUME ViewShape, NEW r
  PROVE  /\ Count(wire, {r}) \in Nat /\ Count(buffer, LiveOf(r)) \in Nat
         /\ Count(logs, LiveOf(r)) \in Nat
BY HitsFinite DEF ViewShape

(* Steps that leave the table's live rows and the tail alone.               *)
LEMMA SentFrame ==
  ASSUME SentInv, UNCHANGED <<wire, buffer, logs, link, seen, tails>>
  PROVE  SentInv'
BY DEF SentInv, Sent, Owed

(* The connection ends, or nothing is left of what it brought.              *)
LEMMA SentDisconnect ==
  ASSUME ViewShape, SentInv, wire' = <<>>, (buffer' = buffer \/ buffer' = <<>>), logs' = logs,
         link' # "up", tails' = tails
  PROVE  SentInv'
<1> SUFFICES ASSUME NEW r \in Records
             PROVE  (Sent(r) + Owed(r) <= tails)'
  BY DEF SentInv
<1>1. Count(wire', {r}) = 0 /\ Count(<<>>, LiveOf(r)) = 0
  BY CountEmpty
<1>2. Count(buffer', LiveOf(r)) \in Nat /\ Count(buffer', LiveOf(r)) <= Count(buffer, LiveOf(r))
  <2>1. CASE buffer' = buffer
    <3>1. PICK c : c = Count(buffer, LiveOf(r))
      OBVIOUS
    <3>2. c \in Nat /\ Count(buffer', LiveOf(r)) = c
      BY <2>1, <3>1, CountsTyped
    <3> QED BY <3>1, <3>2
  <2>2. CASE buffer' = <<>>
    <3>1. PICK c : c = Count(buffer, LiveOf(r))
      OBVIOUS
    <3>2. c \in Nat /\ Count(buffer', LiveOf(r)) = 0
      BY <1>1, <2>2, <3>1, CountsTyped
    <3> QED BY <3>1, <3>2
  <2> QED BY <2>1, <2>2
<1>3. Owed(r)' = 0 /\ Owed(r) \in {0, 1}
  BY DEF Owed
<1>4. Sent(r) + Owed(r) <= tails /\ tails \in Nat
  BY DEF SentInv
<1>5. Sent(r)' <= Sent(r)
  <2>1. Count(logs', LiveOf(r)) = Count(logs, LiveOf(r))
    OBVIOUS
  <2> QED BY <1>1, <1>2, <2>1, CountsTyped DEF Sent
<1>6. Sent(r) \in Nat /\ Sent(r)' \in Nat
  BY <1>1, <1>2, CountsTyped DEF Sent
<1> QED BY <1>3, <1>4, <1>5, <1>6

LEMMA SentPoll ==
  ASSUME ViewShape, SentInv, Poll
  PROVE  SentInv'
<1> SUFFICES ASSUME NEW r \in Records
             PROVE  (Sent(r) + Owed(r) <= tails)'
  BY DEF SentInv, Poll, linkVars
<1>1. PICK s : s = InOrder(Unseen)
  OBVIOUS
<1>2. Unseen \in SUBSET Records
  BY FoundRecords DEF Unseen, ViewShape
<1>3. /\ s \in Seq(Records) /\ \A i \in 1 .. Len(s) : s[i] \in Unseen
      /\ \A i, j \in 1 .. Len(s) : s[i] = s[j] => i = j
  BY <1>1, <1>2, ListedRecords
<1>4. Count(wire', {r}) = Count(wire, {r}) + Count(s, {r})
  BY <1>1, <1>3, CountConcat DEF Poll, ViewShape
<1>5. /\ UNCHANGED <<buffer, logs, tails>> /\ link = "up" /\ link' = "up"
      /\ seen' = seen \cup Unseen
  BY DEF Poll, pageVars
<1>6. Count(s, {r}) \in Nat /\ Count(s, {r}) + Owed(r)' <= Owed(r)
  <2>1. CASE r \in Unseen
    <3>1. Owed(r)' = 0 /\ Owed(r) = 1
      BY <1>5, <2>1 DEF Owed, Unseen
    <3>2. Count(s, {r}) \in Nat /\ Count(s, {r}) <= 1
      <4>1. CASE Hits(s, {r}) = {}
        BY <4>1, FS_EmptySet DEF Count
      <4>2. CASE Hits(s, {r}) # {}
        <5>1. PICK i : i \in Hits(s, {r})
          BY <4>2
        <5>2. Hits(s, {r}) = {i}
          <6>1. i \in 1 .. Len(s) /\ s[i] = r
            BY <5>1 DEF Hits
          <6>2. \A j \in Hits(s, {r}) : j = i
            BY <1>3, <6>1 DEF Hits
          <6> QED BY <5>1, <6>2
        <5>3. Cardinality({i}) = 1
          BY FS_Singleton
        <5> QED BY <5>2, <5>3 DEF Count
      <4> QED BY <4>1, <4>2
    <3> QED BY <3>1, <3>2
  <2>2. CASE r \notin Unseen
    <3>1. Count(s, {r}) = 0
      BY <1>3, <2>2, CountNone
    <3>2. Owed(r)' = Owed(r) /\ Owed(r) \in {0, 1}
      BY <1>5, <2>2 DEF Owed
    <3> QED BY <3>1, <3>2
  <2> QED BY <2>1, <2>2
<1>7. Owed(r) \in {0, 1} /\ Owed(r)' \in {0, 1}
  BY DEF Owed
<1>8. Count(buffer', LiveOf(r)) = Count(buffer, LiveOf(r)) /\ Count(logs', LiveOf(r)) = Count(logs, LiveOf(r))
  BY <1>5
<1>9. Sent(r) + Owed(r) <= tails /\ tails \in Nat /\ tails' = tails
  BY <1>5 DEF SentInv
<1> QED BY <1>4, <1>6, <1>7, <1>8, <1>9, CountsTyped DEF Sent

LEMMA SentReceive ==
  ASSUME ViewShape, SentInv, Receive
  PROVE  SentInv'
<1> SUFFICES ASSUME NEW r \in Records
             PROVE  (Sent(r) + Owed(r) <= tails)'
  BY DEF SentInv, Receive
<1>1. /\ UNCHANGED <<logs, link, seen, tails>> /\ wire # <<>> /\ wire' = Tail(wire)
  BY DEF Receive
<1>2. PICK row \in LiveRow : row.rec = wire[1] /\ buffer' = Append(buffer, row)
  BY ReceiveRow
<1>3. row \in LiveOf(r) <=> wire[1] \in {r}
  BY <1>2 DEF LiveOf
<1>4. Count(wire, {r}) = Count(wire', {r}) + (IF wire[1] \in {r} THEN 1 ELSE 0)
  BY <1>1, CountTail DEF ViewShape
<1>5. Count(buffer', LiveOf(r)) = Count(buffer, LiveOf(r)) + (IF wire[1] \in {r} THEN 1 ELSE 0)
  BY <1>2, <1>3, CountAppend DEF ViewShape
<1>6. Count(wire', {r}) \in Nat
  BY ReceiveRow, HitsFinite
<1>7. Count(logs', LiveOf(r)) = Count(logs, LiveOf(r)) /\ Owed(r)' = Owed(r)
  BY <1>1 DEF Owed
<1>8. Sent(r)' = Sent(r)
  BY <1>4, <1>5, <1>6, <1>7, CountsTyped DEF Sent
<1> QED BY <1>1, <1>7, <1>8 DEF SentInv

LEMMA SentFlush ==
  ASSUME ViewShape, SentInv, Flush
  PROVE  SentInv'
<1> SUFFICES ASSUME NEW r \in Records
             PROVE  (Sent(r) + Owed(r) <= tails)'
  BY DEF SentInv, Flush, linkVars
<1>1. UNCHANGED <<wire, link, seen, tails>> /\ buffer' = <<>>
  BY DEF Flush, linkVars
<1>2. PICK S, merged, k : S = LiveRow \cup FoundRow /\ merged = buffer \o logs /\ k = Len(logs')
  OBVIOUS
<1>3. buffer \in Seq(S) /\ logs \in Seq(S) /\ merged \in Seq(S) /\ logs' \in Seq(S)
  BY <1>2, FlushRows DEF ViewShape
<1>4. k \in Nat /\ k <= Len(merged) /\ \A i \in 1 .. k : logs'[i] = merged[i]
  BY <1>2, <1>3, FlushRows
<1>5. Count(logs', LiveOf(r)) <= Count(merged, LiveOf(r))
  BY <1>2, <1>3, <1>4, CountPrefix
<1>6. Count(merged, LiveOf(r)) = Count(buffer, LiveOf(r)) + Count(logs, LiveOf(r))
  BY <1>2, <1>3, CountConcat
<1>7. Count(buffer', LiveOf(r)) = 0 /\ Count(logs', LiveOf(r)) \in Nat
  BY <1>1, <1>3, CountEmpty, HitsFinite
<1>8. Count(wire', {r}) = Count(wire, {r}) /\ Owed(r)' = Owed(r) /\ Owed(r) \in {0, 1}
  BY <1>1 DEF Owed
<1>9. Sent(r) + Owed(r) <= tails /\ tails \in Nat
  BY DEF SentInv
<1> QED BY <1>1, <1>5, <1>6, <1>7, <1>8, <1>9, CountsTyped DEF Sent

LEMMA SentSettle ==
  ASSUME ViewShape, SentInv, NEW n \in DOMAIN searches, Settle(n)
  PROVE  SentInv'
<1> SUFFICES ASSUME NEW r \in Records
             PROVE  (Sent(r) + Owed(r) <= tails)'
  BY DEF SentInv, Settle, linkVars
<1>1. UNCHANGED <<wire, buffer, link, seen, tails>>
  BY DEF Settle, linkVars
<1>2. logs' \in Seq(FoundRow)
  BY SettleRows
<1>3. \A row \in FoundRow : row \notin LiveOf(r)
  BY LiveRows DEF LiveOf
<1>4. Count(logs', LiveOf(r)) = 0
  BY <1>2, <1>3, CountNone
<1>5. /\ Count(wire', {r}) = Count(wire, {r}) /\ Count(buffer', LiveOf(r)) = Count(buffer, LiveOf(r))
      /\ Owed(r)' = Owed(r) /\ Owed(r) \in {0, 1}
  BY <1>1 DEF Owed
<1>6. Sent(r) + Owed(r) <= tails /\ tails \in Nat
  BY DEF SentInv
<1> QED BY <1>1, <1>4, <1>5, <1>6, CountsTyped DEF Sent

LEMMA SentNext == ViewInv /\ SentInv /\ [Next]_vars => SentInv'
<1> SUFFICES ASSUME ViewInv, SentInv, [Next]_vars
             PROVE  SentInv'
  OBVIOUS
<1>s. ViewShape
  BY DEF ViewInv
<1> USE DEF linkVars, pageVars, tableVars, lineVars
<1>1. CASE Store \/ Type \/ PressEnter \/ UNCHANGED vars \/ \E i \in DOMAIN logs : Click(i)
  BY <1>1, SentFrame DEF Store, Type, PressEnter, Click, vars
<1>2. CASE Connect
  <2>1. UNCHANGED <<wire, buffer, logs, seen>> /\ tails' = tails + 1 /\ link # "up"
    BY <1>2 DEF Connect
  <2>2. \A r \in Records : Sent(r)' = Sent(r) /\ Sent(r) \in Nat
    BY <1>s, <2>1, CountsTyped DEF Sent
  <2>3. \A r \in Records : Owed(r) = 0 /\ Owed(r)' \in {0, 1}
    BY <2>1 DEF Owed
  <2> QED BY <2>1, <2>2, <2>3 DEF SentInv
<1>3. CASE Lose \/ PressSpace \/ ClickPill
  <2>1. /\ wire' = <<>> /\ (buffer' = buffer \/ buffer' = <<>>) /\ UNCHANGED <<logs, tails>>
        /\ link' # "up"
    BY <1>3 DEF Lose, PressSpace, ClickPill, Switch, Disconnect
  <2> QED BY <1>s, <2>1, SentDisconnect
<1>4. CASE Poll
  BY <1>s, <1>4, SentPoll
<1>5. CASE Receive
  BY <1>s, <1>5, SentReceive
<1>6. CASE Flush
  BY <1>s, <1>6, SentFlush
<1>7. CASE \E n \in DOMAIN searches : Settle(n)
  BY <1>s, <1>7, SentSettle
<1>8. CASE Reload
  <2>1. wire' = <<>> /\ buffer' = <<>> /\ logs' = <<>> /\ tails' = 0 /\ link' # "up"
    BY <1>8 DEF Reload, Disconnect
  <2>2. \A r \in Records : Sent(r)' = 0 /\ Owed(r)' = 0
    BY <2>1, CountEmpty DEF Sent, Owed
  <2> QED BY <2>1, <2>2 DEF SentInv
<1> QED BY <1>1, <1>2, <1>3, <1>4, <1>5, <1>6, <1>7, <1>8 DEF Next

THEOREM SentInvariant == Spec => []SentInv
<1>1. Init => SentInv
  <2> SUFFICES ASSUME Init
               PROVE  SentInv
    OBVIOUS
  <2>1. wire = <<>> /\ buffer = <<>> /\ logs = <<>> /\ tails = 0 /\ link # "up"
    BY DEF Init
  <2>2. \A r \in Records : Sent(r) = 0 /\ Owed(r) = 0
    BY <2>1, CountEmpty DEF Sent, Owed
  <2> QED BY <2>1, <2>2 DEF SentInv
<1> QED BY <1>1, SentNext, ViewInvariant, PTL DEF Spec

(* No connection shows a record twice, in whatever batches its lines come   *)
(* and whatever the reader does meanwhile (liveTail.js:39-43).              *)
THEOREM OncePerConnectionCorrect == Spec => []OncePerConnection
<1>1. ASSUME ViewInv, SentInv, NEW r \in Records
      PROVE  Cardinality({i \in DOMAIN (buffer \o logs) : LET row == (buffer \o logs)[i]
                                                        IN Live(row) /\ row.rec = r}) <= tails
  <2>1. PICK S, merged : S = LiveRow \cup FoundRow /\ merged = buffer \o logs
    OBVIOUS
  <2>2. buffer \in Seq(S) /\ logs \in Seq(S) /\ merged \in Seq(S)
    BY <1>1, <2>1 DEF ViewInv, ViewShape
  <2>3. {i \in DOMAIN merged : Live(merged[i]) /\ merged[i].rec = r} = Hits(merged, LiveOf(r))
    <3>1. \A i \in 1 .. Len(merged) : Live(merged[i]) /\ merged[i].rec = r <=> merged[i] \in LiveOf(r)
      BY <2>1, <2>2, LiveRows DEF LiveOf
    <3> QED BY <2>2, <3>1 DEF Hits
  <2>4. Count(merged, LiveOf(r)) = Count(buffer, LiveOf(r)) + Count(logs, LiveOf(r))
    BY <2>1, <2>2, CountConcat
  <2>5. Sent(r) + Owed(r) <= tails /\ tails \in Nat /\ Owed(r) \in {0, 1}
    BY <1>1 DEF SentInv, Owed
  <2>6. Count(merged, LiveOf(r)) <= tails
    BY <1>1, <2>4, <2>5, CountsTyped DEF Sent, ViewInv
  <2> QED BY <2>1, <2>3, <2>6 DEF Count
<1>2. ViewInv /\ SentInv => OncePerConnection
  BY <1>1 DEF OncePerConnection
<1> QED BY <1>2, ViewInvariant, SentInvariant, PTL

=============================================================================
