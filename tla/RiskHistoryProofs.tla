-------------------------- MODULE RiskHistoryProofs --------------------------
(***************************************************************************)
(* Two properties of RiskHistory, for any sources, weights, caps, threads  *)
(* and any number of snapshots.                                            *)
(*                                                                         *)
(* The score is a fold over the sources, so the provers know nothing of    *)
(* its value; nothing here depends on it, and the shape of the tables says *)
(* of a change only that it is 0 or a difference of two scores.            *)
(***************************************************************************)
EXTENDS RiskHistory, SequenceTheorems, TLAPS

Scores == {0} \cup {Score[x] : x \in Pictures}
Differences == {0} \cup {Score[x] - Score[y] : x \in Pictures, y \in Pictures}

RowShape == [picture : Pictures, change : Differences, author : Threads]

CallShape ==
    {Idle}
    \cup [op : {"collect"}, next : Nat \ {0}, picture : Pictures, rules : BOOLEAN]
    \cup [op : {"lookup", "insert"}, base : Nat, picture : Pictures, rules : BOOLEAN]
    \cup [op : {"judge"}, picture : Pictures, change : Differences, before : Scores]

Shape ==
    /\ lab \in Pictures
    /\ rows \in Seq(RowShape)
    /\ call \in [Threads -> CallShape]
    /\ last \in Scores

\* What a thread has read is not older than its own last insert.
BaseIsFresh ==
    \A p \in Threads : call[p].op \in {"lookup", "insert"} =>
        /\ call[p].base <= Len(rows)
        /\ Len(rows) > 0 /\ rows[Len(rows)].author = p => call[p].base = Len(rows)

\* What is judged is on record.
JudgedIsOnRecord ==
    \A p \in Threads : call[p].op = "judge" =>
        \E i \in DOMAIN rows :
            rows[i].picture = call[p].picture /\ rows[i].change = call[p].change

---------------------------------------------------------------------------
(* Shape *)

(* A source lists no more signals than it has.                              *)
LEMMA ListedType == ASSUME NEW x \in Pictures, NEW s \in Sources
                    PROVE  Listed[x][s] \in 0..MaxSignals
<1>1. Points[s] \in Nat \ {0} /\ Cap[s] \in Nat
  BY WeightAssumption
<1>2. Full(s) \in Nat
  <2> DEFINE P == Points[s]  C == Cap[s]
  <2>1. P \in Nat \ {0} /\ C \in Nat
    BY <1>1
  <2> HIDE DEF P, C
  <2>2. (C + P - 1) \div P \in Nat
    BY <2>1, Z3
  <2> QED BY <2>2 DEF Full, P, C
<1>3. x[s] \in 0..MaxSignals
  BY DEF Pictures
<1>4. Listed[x] = [t \in Sources |-> IF x[t] <= Full(t) THEN x[t] ELSE Full(t)]
  BY DEF Listed
<1>5. Listed[x][s] = IF x[s] <= Full(s) THEN x[s] ELSE Full(s)
  BY <1>4
<1> QED BY <1>2, <1>3, <1>5, BoundAssumption

(* Nothing has been listed at first.                                        *)
LEMMA EmptyType == Empty \in Pictures
BY BoundAssumption DEF Empty, Pictures

(* The calls that calculate_lab_risk leaves behind have their shape.        *)
LEMMA NextCalls ==
    ASSUME NEW p \in Threads, Shape, NEW d \in Differences,
           call[p].op \in {"lookup", "insert"}
    PROVE  /\ Judging(call[p], d) \in CallShape
           /\ Score[call[p].picture] \in Scores
<1>1. call[p] \in CallShape
  BY DEF Shape
<1>2. call[p].picture \in Pictures
  BY <1>1 DEF CallShape, Idle
<1>3. Judging(call[p], d) \in CallShape
  BY <1>2 DEF Shape, Judging, CallShape
<1>4. Score[call[p].picture] \in Scores
  BY <1>2 DEF Scores
<1> QED BY <1>3, <1>4

(* An assessment that begins, and a thread that is done, have it too.       *)
LEMMA FirstCalls == Idle \in CallShape /\ \A rules \in BOOLEAN : Collecting(rules) \in CallShape
BY EmptyType DEF CallShape, Collecting

(* The rows have their shape.                                               *)
LEMMA RowType ==
    ASSUME Shape, NEW i \in DOMAIN rows
    PROVE  rows[i].picture \in Pictures /\ rows[i].change \in Differences
<1>1. rows[i] \in RowShape
  BY DEF Shape
<1> QED BY <1>1 DEF RowShape

(* Shape is preserved by every step.                                        *)
LEMMA ShapeStep == Shape /\ BaseIsFresh /\ [Next]_vars => Shape'
<1> SUFFICES ASSUME Shape, BaseIsFresh, [Next]_vars PROVE Shape'
  OBVIOUS
<1> USE DEF Shape
<1>1. ASSUME NEW p \in Threads, Assess(p) PROVE Shape'
  <2>1. (p \in Handlers) \in BOOLEAN
    OBVIOUS
  <2>2. Collecting(p \in Handlers) \in CallShape
    BY <2>1, FirstCalls, Zenon
  <2> QED BY <1>1, <2>2 DEF Assess, Becomes
<1>2. ASSUME NEW p \in Threads, Collect(p) PROVE Shape'
  <2> DEFINE c == call[p]  s == Order[c.next]
  <2>1. c \in [op : {"collect"}, next : Nat \ {0}, picture : Pictures, rules : BOOLEAN]
    BY <1>2 DEF Collect, CallShape, Idle
  <2>2. s \in Sources
    BY <1>2, <2>1, OrderAssumption DEF Collect
  <2>3. Listed[lab][s] \in 0..MaxSignals
    BY <2>2, ListedType
  <2>4. [c.picture EXCEPT ![s] = Listed[lab][s]] \in Pictures
    BY <2>1, <2>3 DEF Pictures
  <2> DEFINE pic == [c.picture EXCEPT ![s] = Listed[lab][s]]
             new == [op |-> "collect", next |-> c.next + 1, rules |-> c.rules,
                     picture |-> pic]
  <2>6. new \in [op : {"collect"}, next : Nat \ {0}, picture : Pictures, rules : BOOLEAN]
    <3> HIDE DEF pic
    <3>1. pic \in Pictures
      BY <2>4 DEF pic
    <3> QED BY <2>1, <3>1
  <2>7. call' = [call EXCEPT ![p] = new]
    BY <1>2 DEF Collect, Becomes
  <2> HIDE DEF new
  <2>8. call' \in [Threads -> CallShape]
    BY <2>6, <2>7 DEF CallShape
  <2> QED BY <1>2, <2>8 DEF Collect
<1>3. ASSUME NEW p \in Threads, ReadLatest(p) PROVE Shape'
  <2>1. call[p] \in [op : {"collect"}, next : Nat \ {0}, picture : Pictures, rules : BOOLEAN]
    BY <1>3 DEF ReadLatest, CallShape, Idle
  <2>2. [op |-> "lookup", base |-> Len(rows), picture |-> call[p].picture,
         rules |-> call[p].rules] \in CallShape
    BY <2>1 DEF CallShape
  <2> QED BY <1>3, <2>2 DEF ReadLatest, Becomes, LatestRow
<1>4. ASSUME NEW p \in Threads, ReadExisting(p) PROVE Shape'
  <2>1. call[p] \in [op : {"lookup", "insert"}, base : Nat, picture : Pictures, rules : BOOLEAN]
    BY <1>4 DEF ReadExisting, CallShape, Idle
  <2>2. CASE RowsOf(call[p].picture) = {}
    <3>1. [call[p] EXCEPT !.op = "insert"] \in CallShape
      BY <2>1 DEF CallShape
    <3> QED BY <1>4, <2>2, <3>1 DEF ReadExisting, Becomes
  <2>3. ASSUME NEW i \in RowsOf(call[p].picture), Returns(p, rows[i].change)
        PROVE  call' \in [Threads -> CallShape] /\ last' \in Scores
    <3>1. rows[i].change \in Differences
      BY RowType DEF RowsOf
    <3>2. Judging(call[p], rows[i].change) \in CallShape /\ Score[call[p].picture] \in Scores
      BY <2>1, <3>1, NextCalls
    <3> QED BY <2>3, <3>2, FirstCalls DEF Returns, Becomes
  <2> QED BY <1>4, <2>2, <2>3 DEF ReadExisting
<1>5. ASSUME NEW p \in Threads, InsertRow(p) PROVE Shape'
  <2>1. call[p] \in [op : {"lookup", "insert"}, base : Nat, picture : Pictures, rules : BOOLEAN]
    BY <1>5 DEF InsertRow, CallShape, Idle
  <2>2. CASE RowsOf(call[p].picture) = {}
    <3>1. rows' = Append(rows, [picture |-> call[p].picture, change |-> Change(call[p]),
                                author |-> p])
          /\ Returns(p, Change(call[p]))
      BY <1>5, <2>2 DEF InsertRow
    <3>2. call[p].base \in DOMAIN rows \/ call[p].base = 0
      BY <2>1, <1>5 DEF BaseIsFresh, InsertRow
    <3>3. Change(call[p]) \in Differences
      <4>1. CASE call[p].base = 0
        BY <4>1 DEF Change, Differences
      <4>2. CASE call[p].base \in DOMAIN rows /\ call[p].base # 0
        <5>1. rows[call[p].base].picture \in Pictures
          BY <4>2, RowType
        <5> QED BY <2>1, <4>2, <5>1 DEF Change, Differences
      <4> QED BY <3>2, <4>1, <4>2
    <3>4. rows' \in Seq(RowShape)
      BY <2>1, <3>1, <3>3 DEF RowShape
    <3>5. Judging(call[p], Change(call[p])) \in CallShape /\ Score[call[p].picture] \in Scores
      BY <2>1, <3>3, NextCalls
    <3> QED BY <1>5, <3>1, <3>4, <3>5, FirstCalls DEF InsertRow, Returns, Becomes
  <2>3. CASE RowsOf(call[p].picture) # {}
    BY <1>5, <2>3, FirstCalls DEF InsertRow, Abandoned, Becomes
  <2> QED BY <2>2, <2>3
<1>6. ASSUME NEW p \in Threads, Judge(p) PROVE Shape'
  BY <1>6, FirstCalls DEF Judge, Becomes
<1>7. ASSUME NEW signals \in Pictures, LabChanges(signals) PROVE Shape'
  BY <1>7 DEF LabChanges
<1>8. CASE UNCHANGED vars
  BY <1>8 DEF vars
<1> QED BY <1>1, <1>2, <1>3, <1>4, <1>5, <1>6, <1>7, <1>8 DEF Next, Step

---------------------------------------------------------------------------
(* ChainedByOneThread *)

(* Only InsertRow appends a row; the other steps leave the table alone.     *)
LEMMA RowsStep ==
    ASSUME [Next]_vars
    PROVE  \/ rows' = rows
           \/ \E p \in Threads : InsertRow(p) /\ RowsOf(call[p].picture) = {}
BY DEF Next, Step, vars, Assess, Collect, ReadLatest, ReadExisting, InsertRow, Judge, LabChanges

(* BaseIsFresh is preserved: a thread that has inserted a row has to read   *)
(* the latest row again before its next insert.                             *)
LEMMA BaseStep == Shape /\ BaseIsFresh /\ [Next]_vars => BaseIsFresh'
<1> SUFFICES ASSUME Shape, BaseIsFresh, [Next]_vars PROVE BaseIsFresh'
  OBVIOUS
<1>1. ASSUME NEW q \in Threads, rows' = rows, call'[q] = call[q]
      PROVE  call'[q].op \in {"lookup", "insert"} =>
                /\ call'[q].base <= Len(rows')
                /\ Len(rows') > 0 /\ rows'[Len(rows')].author = q => call'[q].base = Len(rows')
  BY <1>1 DEF BaseIsFresh
<1>2. ASSUME NEW p \in Threads, Assess(p) PROVE BaseIsFresh'
  BY <1>2 DEF Assess, Becomes, Collecting, BaseIsFresh, Shape
<1>3. ASSUME NEW p \in Threads, Collect(p) PROVE BaseIsFresh'
  <2>1. call[p] \in [op : {"collect"}, next : Nat \ {0}, picture : Pictures, rules : BOOLEAN]
    BY <1>3 DEF Collect, CallShape, Idle, Shape
  <2>2. call'[p].op = "collect" /\ rows' = rows
    BY <1>3, <2>1 DEF Collect, Becomes, Shape
  <2>3. \A q \in Threads \ {p} : call'[q] = call[q]
    BY <1>3 DEF Collect, Becomes, Shape
  <2> QED BY <2>2, <2>3 DEF BaseIsFresh
<1>4. ASSUME NEW p \in Threads, ReadLatest(p) PROVE BaseIsFresh'
  <2>1. call'[p].base = Len(rows) /\ rows' = rows
    BY <1>4 DEF ReadLatest, LatestRow, Becomes, Shape
  <2>2. \A q \in Threads \ {p} : call'[q] = call[q]
    BY <1>4 DEF ReadLatest, Becomes, Shape
  <2>3. Len(rows) \in Nat
    BY DEF Shape
  <2> QED BY <2>1, <2>2, <2>3 DEF BaseIsFresh
<1>5. ASSUME NEW p \in Threads, ReadExisting(p) PROVE BaseIsFresh'
  <2>1. call[p] \in [op : {"lookup", "insert"}, base : Nat, picture : Pictures, rules : BOOLEAN]
    BY <1>5 DEF ReadExisting, CallShape, Idle, Shape
  <2>2. \/ call'[p] = [call[p] EXCEPT !.op = "insert"]
        \/ call'[p] \in [op : {"judge"}, picture : Pictures, change : Differences, before : Scores]
        \/ call'[p] = Idle
    <3>1. CASE RowsOf(call[p].picture) = {}
      BY <1>5, <3>1 DEF ReadExisting, Becomes, Shape
    <3>2. ASSUME NEW i \in RowsOf(call[p].picture), Returns(p, rows[i].change)
          PROVE  \/ call'[p] \in [op : {"judge"}, picture : Pictures, change : Differences, before : Scores]
                 \/ call'[p] = Idle
      <4>1. rows[i].change \in Differences
        BY RowType DEF RowsOf
      <4>2. call'[p] = IF call[p].rules THEN Judging(call[p], rows[i].change) ELSE Idle
        BY <3>2 DEF Returns, Becomes, Shape
      <4>3. Judging(call[p], rows[i].change)
              \in [op : {"judge"}, picture : Pictures, change : Differences, before : Scores]
        BY <2>1, <4>1 DEF Judging, Shape
      <4> QED BY <4>2, <4>3
    <3> QED BY <1>5, <3>1, <3>2 DEF ReadExisting
  <2>3. \A q \in Threads \ {p} : call'[q] = call[q]
    BY <1>5 DEF ReadExisting, Returns, Becomes, Shape
  <2>4. rows' = rows
    BY <1>5 DEF ReadExisting
  <2>5. call'[p].op \in {"lookup", "insert"} => call'[p].base = call[p].base
    BY <2>1, <2>2 DEF Idle
  <2>6. call[p].op \in {"lookup", "insert"}
    BY <2>1
  <2> QED BY <2>3, <2>4, <2>5, <2>6 DEF BaseIsFresh
<1>6. ASSUME NEW p \in Threads, InsertRow(p) PROVE BaseIsFresh'
  <2>1. call'[p].op \notin {"lookup", "insert"}
    BY <1>6 DEF InsertRow, Returns, Abandoned, Becomes, Judging, Idle, Shape
  <2>2. \A q \in Threads \ {p} : call'[q] = call[q]
    BY <1>6 DEF InsertRow, Returns, Abandoned, Becomes, Shape
  <2>3. CASE rows' = rows
    BY <2>1, <2>2, <2>3 DEF BaseIsFresh
  <2>4. CASE RowsOf(call[p].picture) = {}
    <3> DEFINE new == [picture |-> call[p].picture, change |-> Change(call[p]), author |-> p]
    <3>1. rows' = Append(rows, new)
      BY <1>6, <2>4 DEF InsertRow
    <3>2. new.author = p
      OBVIOUS
    <3> HIDE DEF new
    <3>3. Len(rows') = Len(rows) + 1 /\ rows'[Len(rows')] = new /\ Len(rows) \in Nat
      BY <3>1 DEF Shape
    <3>4. \A q \in Threads : call[q].op \in {"lookup", "insert"} => call[q].base \in Nat
      BY DEF Shape, CallShape, Idle
    <3> QED BY <2>1, <2>2, <3>2, <3>3, <3>4 DEF BaseIsFresh
  <2> QED BY <1>6, <2>3, <2>4 DEF InsertRow
<1>7. ASSUME NEW p \in Threads, Judge(p) PROVE BaseIsFresh'
  BY <1>7 DEF Judge, Becomes, Collecting, Idle, BaseIsFresh, Shape
<1>8. CASE UNCHANGED <<rows, call>>
  BY <1>8 DEF BaseIsFresh
<1> QED BY <1>2, <1>3, <1>4, <1>5, <1>6, <1>7, <1>8 DEF Next, Step, LabChanges, vars

(* A snapshot is chained to that of its own thread when it is inserted, and *)
(* rows do not change afterwards.                                           *)
LEMMA ChainStep ==
    Shape /\ BaseIsFresh /\ ChainedByOneThread /\ [Next]_vars => ChainedByOneThread'
<1> SUFFICES ASSUME Shape, BaseIsFresh, ChainedByOneThread, [Next]_vars
             PROVE  ChainedByOneThread'
  OBVIOUS
<1>1. CASE rows' = rows
  BY <1>1 DEF ChainedByOneThread
<1>2. ASSUME NEW p \in Threads, InsertRow(p), RowsOf(call[p].picture) = {}
      PROVE  ChainedByOneThread'
  <2> DEFINE c == call[p]
             new == [picture |-> c.picture, change |-> Change(c), author |-> p]
             n == Len(rows)
  <2>1. c.op \in {"lookup", "insert"} /\ c.base \in Nat
    BY <1>2 DEF InsertRow, Shape, CallShape, Idle
  <2>2. c.base <= n /\ (n > 0 /\ rows[n].author = p => c.base = n) /\ n \in Nat
    BY <2>1 DEF BaseIsFresh, Shape
  <2>3. rows' = Append(rows, new) /\ DOMAIN rows = 1..n
    BY <1>2 DEF InsertRow, Shape
  <2>4. /\ DOMAIN rows' = 1..(n + 1)
        /\ \A i \in 1..n : rows'[i] = rows[i]
        /\ rows'[n + 1] = new
    BY <2>3 DEF Shape
  <2>5. ASSUME NEW i \in 1..n
        PROVE  IF i = 1 THEN rows'[i].change = 0
               ELSE rows'[i].author = rows'[i-1].author =>
                       rows'[i].change = Score[rows'[i].picture] - Score[rows'[i-1].picture]
    BY <2>2, <2>3, <2>4 DEF ChainedByOneThread
  <2>6. CASE n = 0
    <3>1. new.change = 0
      BY <2>2, <2>1, <2>6 DEF Change
    <3> QED BY <2>4, <2>6, <3>1 DEF ChainedByOneThread
  <2>7. CASE n > 0
    <3>1. new.author = p /\ new.picture = c.picture /\ new.change = Change(c)
      OBVIOUS
    <3>2. rows[n].author = p => new.change = Score[new.picture] - Score[rows[n].picture]
      BY <2>2, <2>7, <3>1 DEF Change
    <3>3. rows'[(n + 1) - 1] = rows[n] /\ n + 1 # 1
      BY <2>2, <2>4, <2>7
    <3> HIDE DEF new, c, n
    <3> QED BY <2>2, <2>4, <2>5, <3>1, <3>2, <3>3 DEF ChainedByOneThread
  <2> QED BY <2>2, <2>6, <2>7
<1> QED BY <1>1, <1>2, RowsStep

(* The changes of the history add up as long as one thread writes it.       *)
THEOREM Chaining == Spec => []ChainedByOneThread
<1>1. Init => Shape /\ BaseIsFresh /\ ChainedByOneThread
  BY EmptyType, FirstCalls
  DEF Init, Shape, BaseIsFresh, ChainedByOneThread, Idle, Scores
<1>2. Shape /\ BaseIsFresh /\ ChainedByOneThread /\ [Next]_vars
        => (Shape /\ BaseIsFresh /\ ChainedByOneThread)'
  BY ShapeStep, BaseStep, ChainStep
<1> QED BY <1>1, <1>2, PTL DEF Spec

---------------------------------------------------------------------------
(* EventsAreOnRecord *)

\* A snapshot with this picture and this change is in the history.
OnRecord(history, picture, change) ==
    \E i \in DOMAIN history : history[i].picture = picture /\ history[i].change = change

(* A snapshot is never removed or changed.                                  *)
LEMMA RecordStays ==
    ASSUME Shape, [Next]_vars, NEW x, NEW d, OnRecord(rows, x, d)
    PROVE  OnRecord(rows', x, d)
<1>1. CASE rows' = rows
  BY <1>1 DEF OnRecord
<1>2. ASSUME NEW p \in Threads, InsertRow(p), RowsOf(call[p].picture) = {}
      PROVE  OnRecord(rows', x, d)
  <2> DEFINE new == [picture |-> call[p].picture, change |-> Change(call[p]), author |-> p]
  <2>1. rows' = Append(rows, new)
    BY <1>2 DEF InsertRow
  <2> HIDE DEF new
  <2>2. PICK i \in DOMAIN rows : rows[i].picture = x /\ rows[i].change = d
    BY DEF OnRecord
  <2>3. i \in DOMAIN rows' /\ rows'[i] = rows[i]
    BY <2>1, <2>2 DEF Shape
  <2> QED BY <2>2, <2>3 DEF OnRecord
<1> QED BY <1>1, <1>2, RowsStep

(* What calculate_lab_risk hands to the risk rules has a snapshot: the one  *)
(* it found, or the one it has inserted.                                    *)
LEMMA JudgedStep == Shape /\ JudgedIsOnRecord /\ [Next]_vars => JudgedIsOnRecord'
<1> SUFFICES ASSUME Shape, JudgedIsOnRecord, [Next]_vars,
                    NEW q \in Threads, call'[q].op = "judge"
             PROVE  OnRecord(rows', call'[q].picture, call'[q].change)
  BY DEF JudgedIsOnRecord, OnRecord
<1>1. CASE call'[q] = call[q]
  <2>1. OnRecord(rows, call[q].picture, call[q].change)
    BY <1>1 DEF JudgedIsOnRecord, OnRecord
  <2> QED BY <1>1, <2>1, RecordStays
<1>2. CASE call'[q] # call[q]
  <2>1. ReadExisting(q) \/ InsertRow(q)
    <3>1. ASSUME NEW p \in Threads \ {q}, Assess(p) \/ Step(p) PROVE call'[q] = call[q]
      BY <3>1 DEF Shape, Step, Assess, Collect, ReadLatest, ReadExisting, InsertRow, Judge,
                  Becomes, Returns, Abandoned
    <3>2. ~(Assess(q) \/ Collect(q) \/ ReadLatest(q) \/ Judge(q))
      BY DEF Shape, Assess, Collect, ReadLatest, Judge, Becomes, Collecting, Idle
    <3>3. (\E p \in Threads : Assess(p) \/ Step(p)) \/ UNCHANGED call
      BY DEF Next, vars, LabChanges
    <3> QED BY <1>2, <3>1, <3>2, <3>3 DEF Step
  <2>2. call[q].op \in {"lookup", "insert"} /\ call[q].op # "judge"
    BY <2>1 DEF ReadExisting, InsertRow
  <2>3. ASSUME NEW d, Returns(q, d)
        PROVE  call'[q].picture = call[q].picture /\ call'[q].change = d
    <3>1. call'[q] = IF call[q].rules THEN Judging(call[q], d) ELSE Idle
      BY <2>3 DEF Returns, Becomes, Shape
    <3>2. call'[q] = Judging(call[q], d)
      BY <3>1 DEF Idle
    <3> QED BY <3>2 DEF Judging
  <2>4. CASE ReadExisting(q)
    <3>1. PICK i \in RowsOf(call[q].picture) : Returns(q, rows[i].change)
      <4>1. CASE RowsOf(call[q].picture) = {}
        <5>1. call'[q] = [call[q] EXCEPT !.op = "insert"]
          BY <2>4, <4>1 DEF ReadExisting, Becomes, Shape
        <5>2. call[q] \in [op : {"lookup", "insert"}, base : Nat, picture : Pictures, rules : BOOLEAN]
          BY <2>2 DEF Shape, CallShape, Idle
        <5> QED BY <5>1, <5>2
      <4> QED BY <2>4, <4>1 DEF ReadExisting
    <3>2. rows' = rows /\ i \in DOMAIN rows /\ rows[i].picture = call[q].picture
      BY <2>4, <3>1 DEF ReadExisting, RowsOf
    <3>3. call'[q].picture = call[q].picture /\ call'[q].change = rows[i].change
      BY <2>3, <3>1
    <3> QED BY <3>2, <3>3 DEF OnRecord
  <2>5. CASE InsertRow(q)
    <3> DEFINE new == [picture |-> call[q].picture, change |-> Change(call[q]), author |-> q]
    <3>1. RowsOf(call[q].picture) = {}
      BY <2>5 DEF InsertRow, Abandoned, Becomes, Idle, Shape
    <3>2. rows' = Append(rows, new) /\ Returns(q, Change(call[q]))
      BY <2>5, <3>1 DEF InsertRow
    <3>3. call'[q].picture = new.picture /\ call'[q].change = new.change
      BY <2>3, <3>2
    <3> HIDE DEF new
    <3>4. Len(rows) + 1 \in DOMAIN rows' /\ rows'[Len(rows) + 1] = new
      BY <3>2 DEF Shape
    <3> QED BY <3>3, <3>4 DEF OnRecord
  <2> QED BY <2>1, <2>4, <2>5
<1> QED BY <1>1, <1>2

(* What is recorded was judged, and stays on record.                        *)
LEMMA EventStep ==
    Shape /\ JudgedIsOnRecord /\ EventsAreOnRecord /\ [Next]_vars => EventsAreOnRecord'
<1> SUFFICES ASSUME Shape, JudgedIsOnRecord, EventsAreOnRecord, [Next]_vars, NEW e \in log'
             PROVE  OnRecord(rows', e.picture, e.change)
  BY DEF EventsAreOnRecord, OnRecord
<1>1. CASE e \in log
  BY <1>1, RecordStays DEF EventsAreOnRecord, OnRecord
<1>2. CASE e \notin log
  <2>1. PICK p \in Threads : Judge(p)
    BY <1>2 DEF Next, Step, vars, Assess, Collect, ReadLatest, ReadExisting, InsertRow, LabChanges
  <2>2. e.picture = call[p].picture /\ e.change = call[p].change
    BY <1>2, <2>1 DEF Judge
  <2>3. OnRecord(rows, call[p].picture, call[p].change)
    BY <2>1 DEF Judge, JudgedIsOnRecord, OnRecord
  <2> QED BY <2>2, <2>3, RecordStays
<1> QED BY <1>1, <1>2

(* A recorded escalation or recovery can be looked up in the history.       *)
THEOREM Recording == Spec => []EventsAreOnRecord
<1>1. Init => Shape /\ BaseIsFresh /\ JudgedIsOnRecord /\ EventsAreOnRecord
  BY EmptyType, FirstCalls
  DEF Init, Shape, BaseIsFresh, JudgedIsOnRecord, EventsAreOnRecord, Idle, Scores
<1>2. Shape /\ BaseIsFresh /\ JudgedIsOnRecord /\ EventsAreOnRecord /\ [Next]_vars
        => (Shape /\ BaseIsFresh /\ JudgedIsOnRecord /\ EventsAreOnRecord)'
  BY ShapeStep, BaseStep, JudgedStep, EventStep
<1> QED BY <1>1, <1>2, PTL DEF Spec
=============================================================================
