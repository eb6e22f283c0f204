-------------------------- MODULE FileDataLogProofs --------------------------
(***************************************************************************)
(* Proofs about romi::FileDataLog, for any finite set of names, any values *)
(* and any bounds: the invariant IInv, and that the file log implements    *)
(* EntryLog.                                                               *)
(***************************************************************************)
EXTENDS FileDataLog, SequenceTheorems, FiniteSetTheorems, TLAPS

-----------------------------------------------------------------------------
(* The name table. *)

Consistent(toIndex, toName) ==
  /\ DOMAIN toIndex \subseteq Names
  /\ toIndex \in [DOMAIN toIndex -> Nat]
  /\ toName \in [DOMAIN toName -> Names]
  /\ DOMAIN toName = 0..(Cardinality(DOMAIN toIndex) - 1)
  /\ \A n \in DOMAIN toIndex :
       /\ toIndex[n] \in DOMAIN toName
       /\ toName[toIndex[n]] = n

Extends(toName, toName2) ==
  /\ DOMAIN toName \subseteq DOMAIN toName2
  /\ \A i \in DOMAIN toName : toName2[i] = toName[i]

(* DataStore::get_index_locked keeps the two maps inverse to each other    *)
(* and moves no name to another index.                                     *)
LEMMA NameIsAdded ==
  ASSUME NEW toIndex, NEW toName, NEW n \in Names, Consistent(toIndex, toName)
  PROVE  LET toIndex2 == WithName(toIndex, n)
             toName2  == WithIndex(toIndex, toName, n)
         IN  /\ Consistent(toIndex2, toName2)
             /\ Extends(toName, toName2)
             /\ n \in DOMAIN toIndex2
             /\ \A m \in DOMAIN toIndex : m \in DOMAIN toIndex2
<1> DEFINE D == DOMAIN toIndex
           c == Cardinality(D)
<1>1. IsFiniteSet(D) /\ c \in Nat
  BY NamesAssumption, FS_Subset, FS_CardinalityType DEF Consistent
<1>2. CASE n \in D
  BY <1>2 DEF Known, WithName, WithIndex, Consistent, Extends
<1>3. CASE n \notin D
  <2> DEFINE toIndex2 == [m \in D \cup {n} |-> IF m = n THEN c ELSE toIndex[m]]
             toName2 == [i \in DOMAIN toName \cup {c} |-> IF i = c THEN n ELSE toName[i]]
  <2>1. WithName(toIndex, n) = toIndex2 /\ WithIndex(toIndex, toName, n) = toName2
    BY <1>3 DEF Known, WithName, WithIndex
  <2>2. Cardinality(D \cup {n}) = c + 1
    BY <1>1, <1>3, FS_AddElement
  <2>3. DOMAIN toName2 = 0..((c + 1) - 1)
    BY <1>1 DEF Consistent
  <2>4. DOMAIN toIndex2 = D \cup {n}
    OBVIOUS
  <2>5. toIndex2 \in [D \cup {n} -> Nat]
    BY <1>1 DEF Consistent
  <2>6. toName2 \in [DOMAIN toName2 -> Names]
    BY DEF Consistent
  <2>7. \A m \in D \cup {n} :
          toIndex2[m] \in DOMAIN toName2 /\ toName2[toIndex2[m]] = m
    BY <1>1, <2>3 DEF Consistent
  <2>8. Extends(toName, toName2)
    BY <1>1 DEF Consistent, Extends
  <2> HIDE DEF toIndex2, toName2
  <2>9. Consistent(toIndex2, toName2)
    BY <2>2, <2>3, <2>4, <2>5, <2>6, <2>7 DEF Consistent
  <2> QED
    BY <2>1, <2>4, <2>8, <2>9
<1> QED
  BY <1>2, <1>3

IndicesIn(es, toName) ==
  \A i \in 1..Len(es) : es[i].topic \in DOMAIN toName /\ es[i].name \in DOMAIN toName

(* The lines a queue stands for are lines, *)
LEMMA LinesType ==
  ASSUME NEW es \in Seq(QueuedEntry), NEW toName, toName \in [DOMAIN toName -> Names],
         IndicesIn(es, toName)
  PROVE  LinesOf(toName, es) \in Seq(Line) /\ Len(LinesOf(toName, es)) = Len(es)
<1>1. \A i \in 1..Len(es) : es[i] \in QueuedEntry
  OBVIOUS
<1>2. \A i \in 1..Len(es) : LineOf(toName, es[i]) \in Line
  BY <1>1 DEF LineOf, Line, QueuedEntry, IndicesIn
<1>3. LinesOf(toName, es) \in [1..Len(es) -> Line]
  BY <1>2 DEF LinesOf
<1> QED
  BY <1>3, SeqDef, Len(es) \in Nat DEF LinesOf

(* and stay the same when names are added. *)
LEMMA LinesStable ==
  ASSUME NEW es, NEW toName, NEW toName2,
         IndicesIn(es, toName), Extends(toName, toName2)
  PROVE  LinesOf(toName2, es) = LinesOf(toName, es)
BY DEF LinesOf, LineOf, IndicesIn, Extends

LEMMA LinesOfAppend ==
  ASSUME NEW es \in Seq(QueuedEntry), NEW e \in QueuedEntry, NEW toName
  PROVE  LinesOf(toName, Append(es, e)) = Append(LinesOf(toName, es), LineOf(toName, e))
<1>1. Len(Append(es, e)) = Len(es) + 1
  OBVIOUS
<1>2. \A i \in 1..(Len(es) + 1) :
        Append(es, e)[i] = IF i = Len(es) + 1 THEN e ELSE es[i]
  OBVIOUS
<1> QED
  BY <1>1, <1>2 DEF LinesOf

LEMMA HeadThenRest ==
  ASSUME NEW S, NEW h \in S, NEW t \in Seq(S), NEW l \in Seq(S),
         Len(l) = Len(t) + 1, l[1] = h,
         \A i \in 1..Len(t) : l[i + 1] = t[i]
  PROVE  l = <<h>> \o t
<1>1. <<h>> \in Seq(S) /\ Len(<<h>>) = 1 /\ <<h>>[1] = h
  OBVIOUS
<1>2. /\ <<h>> \o t \in Seq(S)
      /\ Len(<<h>> \o t) = 1 + Len(t)
      /\ \A i \in 1..1 + Len(t) :
           (<<h>> \o t)[i] = IF i <= 1 THEN <<h>>[i] ELSE t[i - 1]
  BY <1>1, ConcatProperties
<1>3. ASSUME NEW i \in 1..Len(l) PROVE l[i] = (<<h>> \o t)[i]
  <2>1. CASE i = 1
    BY <1>1, <1>2, <2>1
  <2>2. CASE i # 1
    <3>1. Len(t) \in Nat /\ i \in Nat /\ i - 1 \in 1..Len(t)
      BY <2>2
    <3>2. l[(i - 1) + 1] = t[i - 1] /\ (i - 1) + 1 = i
      BY <3>1
    <3>3. (<<h>> \o t)[i] = t[i - 1]
      BY <1>2, <2>2, <3>1
    <3> QED
      BY <3>2, <3>3
  <2> QED
    BY <2>1, <2>2
<1> QED
  BY <1>2, <1>3, SeqEqual, Len(t) \in Nat

LEMMA LinesOfHeadTail ==
  ASSUME NEW es \in Seq(QueuedEntry), es # <<>>,
         NEW toName, toName \in [DOMAIN toName -> Names], IndicesIn(es, toName)
  PROVE  /\ LineOf(toName, Head(es)) \in Line
         /\ LinesOf(toName, es) = <<LineOf(toName, Head(es))>> \o LinesOf(toName, Tail(es))
         /\ IndicesIn(Tail(es), toName)
<1>1. Len(es) \in Nat \ {0} /\ Head(es) = es[1] /\ Head(es) \in QueuedEntry
  OBVIOUS
<1>2. /\ Tail(es) \in Seq(QueuedEntry)
      /\ Len(Tail(es)) = Len(es) - 1
      /\ \A i \in 1..Len(Tail(es)) : Tail(es)[i] = es[i + 1]
  BY HeadTailProperties
<1>3. IndicesIn(Tail(es), toName)
  BY <1>1, <1>2 DEF IndicesIn
<1>4. LinesOf(toName, es) \in Seq(Line) /\ Len(LinesOf(toName, es)) = Len(es)
  BY LinesType
<1>5. LinesOf(toName, Tail(es)) \in Seq(Line) /\ Len(LinesOf(toName, Tail(es))) = Len(es) - 1
  BY <1>2, <1>3, LinesType
<1>6. LinesOf(toName, es)[1] = LineOf(toName, Head(es))
  BY <1>1 DEF LinesOf
<1>7. LineOf(toName, Head(es)) \in Line
  BY <1>1, <1>4, <1>6, 1 \in 1..Len(es), ElementOfSeq
<1>8. \A i \in 1..Len(Tail(es)) : LinesOf(toName, es)[i + 1] = LinesOf(toName, Tail(es))[i]
  BY <1>1, <1>2 DEF LinesOf
<1> HIDE DEF IndicesIn
<1> QED
  BY <1>1, <1>2, <1>3, <1>4, <1>5, <1>6, <1>7, <1>8, HeadThenRest

-----------------------------------------------------------------------------
(* The invariant. *)

LEMMA TablesInInv ==
  TypeOK /\ TablesAgree /\ IndicesKnown
    <=> /\ TypeOK
        /\ Consistent(nameToIndex, indexToName)
        /\ IndicesIn(entries, indexToName)
        /\ IndicesIn(batch, indexToName)
BY DEF TypeOK, TablesAgree, IndicesKnown, Consistent, IndicesIn

(* What DataStore::store does to the store. *)
LEMMA StoreStep ==
  ASSUME IInv, NEW t \in Names, NEW n \in Names, NEW v \in Values, Store(t, n, v)
  PROVE  /\ Consistent(nameToIndex, indexToName)'
         /\ Extends(indexToName, indexToName')
         /\ \E e \in QueuedEntry :
              /\ entries' = Append(entries, e)
              /\ e.topic \in DOMAIN indexToName'
              /\ e.name \in DOMAIN indexToName'
              /\ LineOf(indexToName', e) = [topic |-> t, name |-> n, value |-> v]
<1> DEFINE toIndex1 == WithName(nameToIndex, t)
           toName1  == WithIndex(nameToIndex, indexToName, t)
           toIndex2 == WithName(toIndex1, n)
           toName2  == WithIndex(toIndex1, toName1, n)
           e == [topic |-> toIndex1[t], name |-> toIndex2[n], value |-> v]
<1>1. nameToIndex' = toIndex2 /\ indexToName' = toName2 /\ entries' = Append(entries, e)
  BY DEF Store
<1>2. Consistent(nameToIndex, indexToName)
  BY TablesInInv DEF IInv
<1>3. /\ Consistent(toIndex1, toName1) /\ Extends(indexToName, toName1)
      /\ t \in DOMAIN toIndex1
  BY <1>2, NameIsAdded
<1> HIDE DEF toIndex1, toName1
<1>4. /\ Consistent(toIndex2, toName2) /\ Extends(toName1, toName2)
      /\ n \in DOMAIN toIndex2
  BY <1>3, NameIsAdded
<1> HIDE DEF toIndex2, toName2
<1>5. Extends(indexToName, toName2)
  BY <1>3, <1>4 DEF Extends
<1>6. /\ toIndex1[t] \in DOMAIN toName2 /\ toName2[toIndex1[t]] = t
      /\ toIndex2[n] \in DOMAIN toName2 /\ toName2[toIndex2[n]] = n
      /\ toIndex1[t] \in Nat /\ toIndex2[n] \in Nat
  BY <1>3, <1>4 DEF Consistent, Extends
<1>7. e \in QueuedEntry /\ e.topic = toIndex1[t] /\ e.name = toIndex2[n] /\ e.value = v
  BY <1>6 DEF QueuedEntry
<1>8. LineOf(toName2, e) = [topic |-> t, name |-> n, value |-> v]
  BY <1>6, <1>7 DEF LineOf
<1> HIDE DEF e
<1> QED
  BY <1>1, <1>4, <1>5, <1>6, <1>7, <1>8

LEMMA EmptyQueue ==
  /\ <<>> \in Seq(QueuedEntry)
  /\ \A toName : IndicesIn(<<>>, toName)
BY DEF IndicesIn

LEMMA EmptyTables ==
  /\ Consistent(NoMap, NoMap)
  /\ DOMAIN NoMap \subseteq Names /\ NoMap \in [DOMAIN NoMap -> Nat]
  /\ DOMAIN NoMap \subseteq Nat /\ NoMap \in [DOMAIN NoMap -> Names]
<1>1. DOMAIN NoMap = {} /\ NoMap \in [{} -> Nat] /\ NoMap \in [{} -> Names]
  BY DEF NoMap
<1>2. Cardinality({}) = 0
  BY FS_EmptySet
<1> QED
  BY <1>1, <1>2 DEF Consistent

LEMMA InitInv == Init => IInv
<1> SUFFICES ASSUME Init PROVE IInv
  OBVIOUS
<1>1. file \in Seq(Line) /\ Len(file) = 0
  BY DEF Init
<1>2. TypeOK
  BY <1>1, EmptyTables, EmptyQueue DEF Init, TypeOK
<1>3. IndicesIn(entries, indexToName) /\ IndicesIn(batch, indexToName)
  BY EmptyQueue DEF Init
<1>4. Consistent(nameToIndex, indexToName)
  BY EmptyTables DEF Init
<1>5. WriterState
  BY <1>1 DEF Init, WriterState
<1> QED
  BY <1>2, <1>3, <1>4, <1>5, TablesInInv DEF IInv

(* A step of the store, of the writer, of the owner or of a killer. *)
LEMMA NextInv == IInv /\ [Next]_vars => IInv'
<1> SUFFICES ASSUME IInv, [Next]_vars PROVE IInv'
  OBVIOUS
<1>0. /\ TypeOK /\ WriterState
      /\ Consistent(nameToIndex, indexToName)
      /\ IndicesIn(entries, indexToName) /\ IndicesIn(batch, indexToName)
  BY TablesInInv DEF IInv
<1>q. ASSUME TypeOK', WriterState', Consistent(nameToIndex, indexToName)',
             IndicesIn(entries, indexToName)', IndicesIn(batch, indexToName)'
      PROVE  IInv'
  BY <1>q DEF IInv, TypeOK, TablesAgree, IndicesKnown, Consistent, IndicesIn
<1>1. CASE Start
  <2>4. /\ DOMAIN nameToIndex' \subseteq Names
        /\ nameToIndex' \in [DOMAIN nameToIndex' -> Nat]
        /\ DOMAIN indexToName' \subseteq Nat
        /\ indexToName' \in [DOMAIN indexToName' -> Names]
    BY <1>1, EmptyTables DEF Start
  <2>5. entries' \in Seq(QueuedEntry) /\ batch' \in Seq(QueuedEntry)
    BY <1>1, EmptyQueue DEF Start
  <2>6. file' \in Seq(Line) /\ flushed' \in Nat
    BY <1>0, <1>1 DEF Start, TypeOK, diskVars
  <2>7. /\ writer' = "test" /\ last' = FALSE /\ quitting' = FALSE
        /\ phase' = "open" /\ starts' \in Nat
    BY <1>0, <1>1 DEF Start, TypeOK
  <2>1. TypeOK'
    BY <2>4, <2>5, <2>6, <2>7 DEF TypeOK
  <2>2. WriterState'
    BY <1>0, <1>1 DEF Start, WriterState, diskVars
  <2>3. /\ Consistent(nameToIndex, indexToName)'
        /\ IndicesIn(entries, indexToName)' /\ IndicesIn(batch, indexToName)'
    BY <1>1, EmptyTables, EmptyQueue DEF Start
  <2> QED
    BY <1>q, <2>1, <2>2, <2>3
<1>2. ASSUME NEW t \in Names, NEW n \in Names, NEW v \in Values, Store(t, n, v)
      PROVE  IInv'
  <2>1. PICK e \in QueuedEntry :
          /\ entries' = Append(entries, e)
          /\ e.topic \in DOMAIN indexToName' /\ e.name \in DOMAIN indexToName'
    BY <1>2, StoreStep
  <2>2. Consistent(nameToIndex, indexToName)' /\ Extends(indexToName, indexToName')
    BY <1>2, StoreStep
  <2>3. entries \in Seq(QueuedEntry)
    BY <1>0 DEF TypeOK
  <2>4. /\ entries' \in Seq(QueuedEntry) /\ Len(entries') = Len(entries) + 1
        /\ \A i \in 1..Len(entries') :
             entries'[i] = IF i = Len(entries) + 1 THEN e ELSE entries[i]
    BY <2>1, <2>3
  <2>5. IndicesIn(entries, indexToName)'
    BY <1>0, <2>1, <2>2, <2>3, <2>4 DEF IndicesIn, Extends
  <2>6. IndicesIn(batch, indexToName)'
    BY <1>0, <1>2, <2>2 DEF Store, IndicesIn, Extends
  <2>7. /\ DOMAIN nameToIndex' \subseteq Names
        /\ nameToIndex' \in [DOMAIN nameToIndex' -> Nat]
        /\ indexToName' \in [DOMAIN indexToName' -> Names]
        /\ DOMAIN indexToName' \subseteq Nat
    BY <2>2 DEF Consistent
  <2>8. TypeOK'
    BY <1>0, <1>2, <2>4, <2>7 DEF Store, TypeOK
  <2>9. WriterState'
    BY <1>0, <1>2 DEF Store, WriterState
  <2> QED
    BY <1>q, <2>2, <2>5, <2>6, <2>8, <2>9
<1>3. CASE TestQuitting
  BY <1>0, <1>3, <1>q DEF TestQuitting, TypeOK, WriterState
<1>4. CASE CopyEntries
  <2>1. TypeOK'
    BY <1>0, <1>4, EmptyQueue DEF CopyEntries, TypeOK, AfterPass
  <2>2. WriterState'
    BY <1>0, <1>4 DEF CopyEntries, WriterState, AfterPass, TypeOK
  <2>3. IndicesIn(entries, indexToName)' /\ IndicesIn(batch, indexToName)'
    BY <1>0, <1>4, EmptyQueue DEF CopyEntries
  <2>4. Consistent(nameToIndex, indexToName)'
    BY <1>0, <1>4 DEF CopyEntries
  <2> QED
    BY <1>q, <2>1, <2>2, <2>3, <2>4
<1>5. CASE WriteEntry
  <2>1. /\ batch \in Seq(QueuedEntry) /\ batch # <<>> /\ file \in Seq(Line)
        /\ indexToName \in [DOMAIN indexToName -> Names]
    BY <1>0, <1>5 DEF WriteEntry, TypeOK
  <2>2. LineOf(indexToName, Head(batch)) \in Line /\ IndicesIn(Tail(batch), indexToName)
    BY <1>0, <2>1, LinesOfHeadTail
  <2>3. Tail(batch) \in Seq(QueuedEntry)
    BY <2>1, HeadTailProperties
  <2>4. file' \in Seq(Line) /\ Len(file') = Len(file) + 1 /\ Len(file) \in Nat
    BY <1>5, <2>1, <2>2 DEF WriteEntry
  <2>5. TypeOK'
    BY <1>0, <1>5, <2>3, <2>4 DEF WriteEntry, TypeOK
  <2>6. WriterState'
    BY <1>0, <1>5, <2>4 DEF WriteEntry, WriterState, TypeOK
  <2>7. /\ Consistent(nameToIndex, indexToName)'
        /\ IndicesIn(entries, indexToName)' /\ IndicesIn(batch, indexToName)'
    BY <1>0, <1>5, <2>2 DEF WriteEntry
  <2> QED
    BY <1>q, <2>5, <2>6, <2>7
<1>6. CASE Flush
  <2>1. Len(file) \in Nat
    BY <1>0 DEF TypeOK
  <2>2. TypeOK' /\ WriterState'
    BY <1>0, <1>6, <2>1 DEF Flush, TypeOK, WriterState, AfterPass
  <2>3. /\ Consistent(nameToIndex, indexToName)'
        /\ IndicesIn(entries, indexToName)' /\ IndicesIn(batch, indexToName)'
    BY <1>0, <1>6 DEF Flush
  <2> QED
    BY <1>q, <2>2, <2>3
<1>7. CASE Destroy
  BY <1>0, <1>7, <1>q DEF Destroy, TypeOK, WriterState
<1>8. CASE Closed
  <2>1. Len(file) \in Nat
    BY <1>0 DEF TypeOK
  <2>2. TypeOK' /\ WriterState'
    BY <1>0, <1>8, <2>1, EmptyQueue DEF Closed, TypeOK, WriterState
  <2>3. /\ Consistent(nameToIndex, indexToName)'
        /\ IndicesIn(entries, indexToName)' /\ IndicesIn(batch, indexToName)'
    BY <1>0, <1>8, EmptyQueue DEF Closed
  <2> QED
    BY <1>q, <2>2, <2>3
<1>9. CASE Kill
  <2>1. PICK k \in flushed..Len(file) : file' = SubSeq(file, 1, k) /\ flushed' = k
    BY <1>9 DEF Kill
  <2>2. file \in Seq(Line) /\ flushed \in Nat /\ Len(file) \in Nat /\ k \in Nat
    BY <1>0, <2>1 DEF TypeOK
  <2>3. \A i \in 1..k : file[i] \in Line
    BY <2>1, <2>2, ElementOfSeq
  <2>4. file' \in Seq(Line) /\ Len(file') = k
    BY <2>1, <2>2, <2>3, SubSeqProperties
  <2>5. TypeOK' /\ WriterState'
    BY <1>0, <1>9, <2>1, <2>2, <2>4, EmptyQueue, SMTT(20) DEF Kill, TypeOK, WriterState
  <2>6. /\ Consistent(nameToIndex, indexToName)'
        /\ IndicesIn(entries, indexToName)' /\ IndicesIn(batch, indexToName)'
    BY <1>0, <1>9, EmptyQueue DEF Kill
  <2> QED
    BY <1>q, <2>5, <2>6
<1>10. CASE UNCHANGED vars
  BY <1>0, <1>10, <1>q DEF vars, TypeOK, WriterState, Consistent, IndicesIn
<1> QED
  BY <1>1, <1>2, <1>3, <1>4, <1>5, <1>6, <1>7, <1>8, <1>9, <1>10 DEF Next, Writer

(* In every reachable state the two name tables are inverse to each other, *)
(* get_name finds every index it is asked for, and only the writer holds   *)
(* lines that are not on disk.                                             *)
THEOREM Invariance == Spec => []IInv
BY InitInv, NextInv, PTL DEF Spec

-----------------------------------------------------------------------------
(* The refinement. *)

LogNow == file \o LinesOf(indexToName, batch) \o LinesOf(indexToName, entries)

(* The queue, the batch and the file are sequences of lines. *)
LEMMA LogType ==
  ASSUME IInv
  PROVE  /\ file \in Seq(Line)
         /\ LinesOf(indexToName, batch) \in Seq(Line)
         /\ LinesOf(indexToName, entries) \in Seq(Line)
         /\ LogNow \in Seq(Line)
         /\ Len(file) <= Len(LogNow)
         /\ Len(LogNow) = Len(file) + Len(batch) + Len(entries)
         /\ flushed \in 0..Len(file)
<1>1. /\ file \in Seq(Line)
      /\ indexToName \in [DOMAIN indexToName -> Names]
      /\ batch \in Seq(QueuedEntry) /\ entries \in Seq(QueuedEntry)
      /\ flushed \in Nat /\ flushed <= Len(file)
      /\ IndicesIn(batch, indexToName) /\ IndicesIn(entries, indexToName)
  BY TablesInInv DEF IInv, TypeOK, WriterState
<1> DEFINE b == LinesOf(indexToName, batch)
           q == LinesOf(indexToName, entries)
<1>2. /\ b \in Seq(Line) /\ Len(b) = Len(batch)
      /\ q \in Seq(Line) /\ Len(q) = Len(entries)
  BY <1>1, LinesType
<1> HIDE DEF b, q
<1>3. file \o b \in Seq(Line) /\ Len(file \o b) = Len(file) + Len(b)
  BY <1>1, <1>2, ConcatProperties
<1>4. (file \o b) \o q \in Seq(Line) /\ Len((file \o b) \o q) = Len(file) + Len(b) + Len(q)
  <2>1. ASSUME NEW s \in Seq(Line)
        PROVE  s \o q \in Seq(Line) /\ Len(s \o q) = Len(s) + Len(q)
    BY <1>2, ConcatProperties
  <2> QED
    BY <1>3, <2>1
<1>5. LogNow = (file \o b) \o q
  BY DEF LogNow, b, q
<1>6. Len(file) \in Nat /\ Len(batch) \in Nat /\ Len(entries) \in Nat
  BY <1>1
<1> QED
  BY <1>1, <1>2, <1>4, <1>5, <1>6 DEF b, q

LEMMA NoLines == \A toName : LinesOf(toName, <<>>) = <<>>
BY DEF LinesOf

LEMMA RefinesInit == Init => Log!Init
<1> SUFFICES ASSUME Init PROVE Log!Init
  OBVIOUS
<1>1. file = <<>> /\ batch = <<>> /\ entries = <<>>
  BY DEF Init
<1>2. file \o LinesOf(indexToName, batch) \o LinesOf(indexToName, entries) = <<>>
  BY <1>1, NoLines
<1> QED
  BY <1>2 DEF Init, Log!Init

(* Each step of the file log is a step of the abstract log or none of it. *)
LEMMA RefinesNext == IInv /\ IInv' /\ [Next]_vars => [Log!Next]_Log!vars
<1> SUFFICES ASSUME IInv, IInv', [Next]_vars PROVE [Log!Next]_Log!vars
  OBVIOUS
<1>0. /\ TypeOK /\ WriterState /\ IndicesIn(batch, indexToName)
      /\ IndicesIn(entries, indexToName)
      /\ batch \in Seq(QueuedEntry) /\ entries \in Seq(QueuedEntry)
      /\ indexToName \in [DOMAIN indexToName -> Names]
      /\ TypeOK' /\ WriterState'
  BY TablesInInv DEF IInv, TypeOK
<1>s. ASSUME LogNow' = LogNow, flushed' = flushed, (phase # "down")' = (phase # "down")
      PROVE  UNCHANGED Log!vars
  BY <1>s DEF LogNow, Log!vars
<1>1. CASE Start
  <2>1. batch = <<>> /\ entries = <<>> /\ batch' = <<>> /\ entries' = <<>> /\ file' = file
    BY <1>0, <1>1 DEF Start, WriterState, diskVars
  <2>2. LogNow' = LogNow
    BY <2>1, NoLines DEF LogNow
  <2>3. Log!Open
    BY <1>1, <2>2 DEF Start, Log!Open, LogNow, diskVars
  <2> QED
    BY <2>3 DEF Log!Next
<1>2. ASSUME NEW t \in Names, NEW n \in Names, NEW v \in Values, Store(t, n, v)
      PROVE  [Log!Next]_Log!vars
  <2> DEFINE line == [topic |-> t, name |-> n, value |-> v]
             q == LinesOf(indexToName, entries)
             fb == file \o LinesOf(indexToName, batch)
  <2>1. PICK e \in QueuedEntry :
          entries' = Append(entries, e) /\ LineOf(indexToName', e) = line
    BY <1>2, StoreStep
  <2>2. Extends(indexToName, indexToName')
    BY <1>2, StoreStep
  <2>3. LinesOf(indexToName', batch) = LinesOf(indexToName, batch)
    BY <1>0, <2>2, LinesStable
  <2>4. LinesOf(indexToName', entries) = q
    BY <1>0, <2>2, LinesStable
  <2>5. LinesOf(indexToName', entries') = Append(q, line)
    BY <1>0, <2>1, <2>4, LinesOfAppend
  <2>6. file' = file /\ batch' = batch
    BY <1>2 DEF Store
  <2>7. line \in Line
    BY DEF Line
  <2>8. fb \in Seq(Line) /\ q \in Seq(Line)
    BY LogType
  <2> HIDE DEF line, q, fb
  <2>9. fb \o Append(q, line) = Append(fb \o q, line)
    <3>1. Append(q, line) = q \o <<line>> /\ <<line>> \in Seq(Line)
      BY <2>7, <2>8, AppendIsConcat
    <3>2. fb \o q \in Seq(Line) /\ (fb \o q) \o <<line>> = fb \o (q \o <<line>>)
      BY <2>8, <3>1, ConcatAssociative, ConcatProperties
    <3> QED
      BY <2>7, <3>1, <3>2, AppendIsConcat
  <2>10. LogNow = fb \o q /\ LogNow' = fb \o Append(q, line)
    BY <2>3, <2>5, <2>6 DEF LogNow, fb, q
  <2>11. LogNow' = Append(LogNow, line)
    BY <2>9, <2>10
  <2>12. Log!Accept(line)
    BY <1>2, <2>11 DEF Store, Log!Accept, LogNow
  <2> QED
    BY <2>7, <2>12 DEF Log!Next
<1>3. CASE TestQuitting
  BY <1>3, <1>s DEF TestQuitting, LogNow
<1>4. CASE CopyEntries
  <2>1. batch = <<>> /\ batch' = entries /\ entries' = <<>>
        /\ file' = file /\ indexToName' = indexToName
    BY <1>0, <1>4 DEF CopyEntries, WriterState
  <2> DEFINE q == LinesOf(indexToName, entries)
  <2>2. q \in Seq(Line) /\ file \in Seq(Line)
    BY LogType
  <2> HIDE DEF q
  <2>3. (file \o <<>>) \o q = (file \o q) \o <<>>
    BY <2>2, ConcatEmptySeq, ConcatProperties
  <2>4. LogNow' = (file \o q) \o <<>> /\ LogNow = (file \o <<>>) \o q
    BY <2>1, NoLines DEF LogNow, q
  <2> QED
    BY <1>4, <1>s, <2>3, <2>4 DEF CopyEntries
<1>5. CASE WriteEntry
  <2>1. batch # <<>> /\ batch' = Tail(batch) /\ entries' = entries
        /\ indexToName' = indexToName
        /\ file' = Append(file, LineOf(indexToName, Head(batch)))
    BY <1>5 DEF WriteEntry
  <2> DEFINE h == LineOf(indexToName, Head(batch))
             r == LinesOf(indexToName, Tail(batch))
             q == LinesOf(indexToName, entries)
  <2>2. /\ h \in Line /\ LinesOf(indexToName, batch) = <<h>> \o r
        /\ IndicesIn(Tail(batch), indexToName)
    BY <1>0, <2>1, LinesOfHeadTail
  <2>3. r \in Seq(Line)
    BY <1>0, <2>1, <2>2, HeadTailProperties, LinesType
  <2>4. file \in Seq(Line) /\ q \in Seq(Line)
    BY LogType
  <2> HIDE DEF h, r, q
  <2>5. Append(file, h) = file \o <<h>> /\ <<h>> \in Seq(Line)
    BY <2>2, <2>4, AppendIsConcat
  <2>6. (file \o <<h>>) \o r = file \o (<<h>> \o r)
    BY <2>3, <2>4, <2>5, ConcatAssociative
  <2>7. LogNow = (file \o (<<h>> \o r)) \o q /\ LogNow' = (Append(file, h) \o r) \o q
    BY <2>1, <2>2 DEF LogNow, h, r, q
  <2> QED
    BY <1>5, <1>s, <2>5, <2>6, <2>7 DEF WriteEntry
<1>6. CASE Flush
  <2>1. LogNow' = LogNow
    BY <1>6 DEF Flush, LogNow
  <2>2. flushed' \in flushed..Len(LogNow)
    BY <1>6, LogType DEF Flush
  <2>3. phase # "down"
    BY <1>0, <1>6 DEF Flush, WriterState
  <2>4. Log!Save
    BY <1>6, <2>1, <2>2, <2>3 DEF Flush, Log!Save, LogNow
  <2> QED
    BY <2>4 DEF Log!Next
<1>7. CASE Destroy
  BY <1>7, <1>s DEF Destroy, LogNow
<1>8. CASE Closed
  <2>1. batch = <<>> /\ entries = <<>> /\ batch' = <<>> /\ entries' = <<>> /\ file' = file
    BY <1>0, <1>8 DEF Closed, WriterState
  <2>2. LogNow' = LogNow /\ Len(LogNow) = Len(file)
    <3>1. LogNow' = LogNow
      BY <2>1, NoLines DEF LogNow
    <3>2. Len(LogNow) = Len(file) + 0 + 0 /\ Len(file) \in Nat
      BY <2>1, LogType
    <3> QED
      BY <3>1, <3>2
  <2>3. Log!Close
    BY <1>8, <2>2 DEF Closed, Log!Close, LogNow
  <2> QED
    BY <2>3 DEF Log!Next
<1>9. CASE Kill
  <2>1. PICK k \in flushed..Len(file) : file' = SubSeq(file, 1, k) /\ flushed' = k
    BY <1>9 DEF Kill
  <2> DEFINE r == LinesOf(indexToName, batch)
             q == LinesOf(indexToName, entries)
  <2>2. /\ file \in Seq(Line) /\ r \in Seq(Line) /\ q \in Seq(Line)
        /\ flushed \in 0..Len(file) /\ Len(file) <= Len(LogNow)
        /\ Len(file) \in Nat /\ Len(LogNow) \in Nat
    BY LogType
  <2>3. k \in 0..Len(file) /\ k \in flushed..Len(LogNow)
    BY <2>1, <2>2
  <2>4. batch' = <<>> /\ entries' = <<>>
    BY <1>9 DEF Kill
  <2>5. file' \in Seq(Line)
    BY DEF IInv, TypeOK
  <2>6. LogNow' = file'
    BY <2>4, <2>5, NoLines, ConcatEmptySeq DEF LogNow
  <2> HIDE DEF r, q
  <2>7. LogNow = (file \o r) \o q
    BY DEF LogNow, r, q
  <2>8. SubSeq(LogNow, 1, k) = SubSeq(file, 1, k)
    <3>1. CASE k = 0
      BY <3>1, SubSeqEmpty
    <3>2. CASE k # 0
      <4>1. k \in 1..Len(file) /\ 1 \in 1..Len(file)
        BY <2>2, <2>3, <3>2
      <4>2. SubSeq(file \o r, 1, k) = SubSeq(file, 1, k)
        BY <2>2, <4>1, SubSeqOfConcat1
      <4>3. file \o r \in Seq(Line) /\ Len(file \o r) = Len(file) + Len(r) /\ Len(r) \in Nat
        BY <2>2, ConcatProperties
      <4>4. k \in 1..Len(file \o r) /\ 1 \in 1..Len(file \o r)
        BY <2>2, <4>1, <4>3
      <4>5. SubSeq((file \o r) \o q, 1, k) = SubSeq(file \o r, 1, k)
        BY <2>2, <4>3, <4>4, SubSeqOfConcat1
      <4> QED
        BY <2>7, <4>2, <4>5
    <3> QED
      BY <3>1, <3>2
  <2>9. LogNow' = SubSeq(LogNow, 1, k) /\ flushed' = k
    BY <2>1, <2>6, <2>8
  <2>10. phase # "down" /\ phase' = "down"
    BY <1>9 DEF Kill
  <2>11. Log!Crash
    BY <2>3, <2>9, <2>10 DEF Log!Crash, LogNow
  <2> QED
    BY <2>11 DEF Log!Next
<1>10. CASE UNCHANGED vars
  BY <1>10, <1>s DEF vars, LogNow
<1> QED
  BY <1>1, <1>2, <1>3, <1>4, <1>5, <1>6, <1>7, <1>8, <1>9, <1>10 DEF Next, Writer

(* Whatever the threads do and whenever the process dies, the file holds   *)
(* the accepted entries in order and once, what fflush has written is not  *)
(* lost, and a log destroyed in good order has written everything.         *)
THEOREM Refinement == Spec => LogSpec
<1>1. IInv /\ IInv' /\ [Next]_vars => [Log!Next]_Log!vars
  BY RefinesNext
<1>2. Init => Log!Init
  BY RefinesInit
<1> QED
  BY <1>1, <1>2, Invariance, PTL DEF Spec, LogSpec, Log!Spec
=============================================================================
