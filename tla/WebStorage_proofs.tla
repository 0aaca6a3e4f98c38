--------------------------- MODULE WebStorage_proofs ---------------------------
(***************************************************************************)
(* Proofs about the dashboard's history, for any entities, intervals and   *)
(* number of reports, crashes, failing flushes and removals.               *)
(***************************************************************************)
EXTENDS WebStorage, SequenceTheorems, FiniteSetTheorems, WellFoundedInduction, TLAPS

Series == [Times -> Values \cup {None}]

Tables == [samples : [Entities -> Series],
           row : [Entities -> Values \cup {None, Absent}]]

Sample == [id : Entities, ts : Times, val : Values]

Memory == [ts : Times, val : Values]

BudgetOK(b) ==
  /\ b \in [changes : Int, removals : Int, downs : Int, steps : Int, errors : Int]
  /\ b.steps <= StepBacks /\ b.errors <= DbErrors

TypesOK ==
  /\ topic \in [Entities -> Values]
  /\ shown \in [Entities -> Values \cup {None, Absent}]
  /\ db \in Tables /\ disk \in Tables
  /\ pending \in Seq(Sample)
  /\ last \in [Entities -> Memory \cup {None}]
  /\ now \in Times
  /\ flusher \in {"running", "dead", "down"}
  /\ BudgetOK(budget)

(* An open transaction only adds samples; a process that is down has none. *)
Committed ==
  /\ \A e \in Entities : Stamps(disk.samples[e]) \subseteq Stamps(db.samples[e])
  /\ ~Up => db = disk /\ pending = <<>>

(* What _last knows of a numeric entity is not older than its samples,     *)
(* also when a flush failed or the clock was set back.                     *)
NoneLater ==
  Up => \A e \in Numeric : \A s \in Stamps(AllSamples[e]) :
          last[e] # None /\ s <= last[e].ts

SpacingInv == TypesOK /\ Committed /\ NoneLater /\ NumericApart

(* The newest sample of a series.                                          *)
IsNewest(series, m) ==
  /\ m \in Memory
  /\ m.ts \in Stamps(series) /\ series[m.ts] = m.val
  /\ \A s \in Stamps(series) : s <= m.ts

Own(queue, e) == {i \in DOMAIN queue : queue[i].id = e}

(* As long as no flush failed and the clock only went forward, _last is    *)
(* the newest sample of every entity, and the last one that waits.         *)
LastIsNewest(e) ==
  /\ Stamps(AllSamples[e]) # {} => IsNewest(AllSamples[e], last[e])
  /\ Own(pending, e) # {} =>
       pending[MaxOf(Own(pending, e))] = [id |-> e, ts |-> last[e].ts, val |-> last[e].val]

Faultless ==
  /\ flusher # "dead" /\ db = disk
  /\ \A e \in Entities : \A s \in Stamps(AllSamples[e]) : s <= now
  /\ Up => \A e \in Entities : LastIsNewest(e)

Undisturbed == Intact => Faultless

(* What record compared with last is what the dashboard shows.             *)
ShownIsLast ==
  (Up /\ Intact) =>
    \A e \in Entities \ Numeric :
      (shown[e] \in Values /\ Stamps(AllSamples[e]) # {}) => last[e].val = shown[e]

StorageInv == SpacingInv /\ Undisturbed /\ ShownIsLast /\ RowIsNewest

-----------------------------------------------------------------------------
(* Operators.                                                              *)

(* MaxOf and MinOf of a set of numbers that is not empty and bounded.      *)
LEMMA Extremes ==
  ASSUME NEW n \in Nat, NEW S \in SUBSET (0 .. n), S # {}
  PROVE  /\ MaxOf(S) \in S /\ \A y \in S : y <= MaxOf(S)
         /\ MinOf(S) \in S /\ \A y \in S : MinOf(S) <= y
<1>. DEFINE D == {n - i : i \in S}
<1>1. D \subseteq Nat /\ D # {} /\ S \subseteq Nat
  <2>1. ASSUME NEW i \in S PROVE n - i \in Nat /\ i \in Nat
    OBVIOUS
  <2>. QED BY <2>1
<1>2. PICK x \in D : \A y \in D : ~(<<y, x>> \in OpToRel(<, Nat))
  BY <1>1, NatLessThanWellFounded, WFMin
<1>3. PICK i \in S : x = n - i
  BY <1>2
<1>4. ASSUME NEW j \in S PROVE j <= i
  <2>1. n - j \in D
    OBVIOUS
  <2>2. ~(n - j < n - i)
    BY <1>1, <1>2, <1>3, <2>1 DEF OpToRel
  <2>. QED BY <2>2
<1>5. PICK k \in S : \A y \in S : ~(<<y, k>> \in OpToRel(<, Nat))
  BY <1>1, NatLessThanWellFounded, WFMin
<1>6. ASSUME NEW j \in S PROVE k <= j
  <2>1. ~(j < k)
    BY <1>1, <1>5 DEF OpToRel
  <2>. QED BY <1>1, <2>1
<1>7. (\E m \in S : \A y \in S : y <= m) /\ (\E m \in S : \A y \in S : m <= y)
  BY <1>4, <1>6
<1>. QED BY <1>7 DEF MaxOf, MinOf

(* A bounded set has one maximum.                                          *)
LEMMA MaxIs ==
  ASSUME NEW n \in Nat, NEW S \in SUBSET (0 .. n), NEW m \in S, \A y \in S : y <= m
  PROVE  MaxOf(S) = m
<1>1. PICK k \in S : k = MaxOf(S) /\ \A y \in S : y <= k
  BY Extremes
<1>2. k <= m /\ m <= k /\ k \in Int /\ m \in Int
  BY <1>1
<1>3. k = m
  BY <1>2
<1>. QED BY <1>1, <1>3

LEMMA StampsBounded ==
  ASSUME NEW series
  PROVE  MaxTime \in Nat /\ Stamps(series) \in SUBSET (0 .. MaxTime)
BY StorageAssumption DEF Stamps, Times

LEMMA NewestOf ==
  ASSUME NEW series, NEW m, IsNewest(series, m)
  PROVE  Stamps(series) # {} /\ MaxOf(Stamps(series)) = m.ts /\ Newest(series) = m.val
<1>1. MaxOf(Stamps(series)) = m.ts
  BY StampsBounded, MaxIs DEF IsNewest
<1>. QED BY <1>1 DEF IsNewest, Newest

LEMMA HasNewest ==
  ASSUME NEW series \in Series, Stamps(series) # {}
  PROVE  LET t == MaxOf(Stamps(series))
         IN IsNewest(series, [ts |-> t, val |-> series[t]])
<1>. DEFINE t == MaxOf(Stamps(series))
<1>1. t \in Stamps(series) /\ \A s \in Stamps(series) : s <= t
  BY StampsBounded, Extremes
<1>. HIDE DEF t
<1>2. t \in Times /\ series[t] \in Values
  BY <1>1 DEF Stamps, Series
<1>3. IsNewest(series, [ts |-> t, val |-> series[t]])
  BY <1>1, <1>2 DEF IsNewest, Memory
<1>. QED BY <1>3 DEF t

(* Where a sample of the queue hits second t of entity e.                  *)
Hits(queue, e, t) == {i \in DOMAIN queue : queue[i].id = e /\ queue[i].ts = t}

LEMMA QueueBounds ==
  ASSUME NEW queue \in Seq(Sample), NEW e, NEW t
  PROVE  /\ Len(queue) \in Nat
         /\ Hits(queue, e, t) \in SUBSET (0 .. Len(queue))
         /\ Own(queue, e) \in SUBSET (0 .. Len(queue))
<1>1. Len(queue) \in Nat /\ DOMAIN queue = 1 .. Len(queue)
  BY LenProperties
<1>. QED BY <1>1 DEF Hits, Own

LEMMA WrittenAt ==
  ASSUME NEW samples \in [Entities -> Series], NEW queue \in Seq(Sample),
         NEW e \in Entities, NEW t \in Times
  PROVE  /\ Hits(queue, e, t) = {} => Written(samples, queue)[e][t] = samples[e][t]
         /\ Hits(queue, e, t) # {} =>
              /\ MaxOf(Hits(queue, e, t)) \in Hits(queue, e, t)
              /\ Written(samples, queue)[e][t] = queue[MaxOf(Hits(queue, e, t))].val
              /\ Written(samples, queue)[e][t] \in Values
<1>1. Hits(queue, e, t) # {} => MaxOf(Hits(queue, e, t)) \in Hits(queue, e, t)
  BY QueueBounds, Extremes
<1>2. Written(samples, queue)[e][t] =
        IF Hits(queue, e, t) = {} THEN samples[e][t] ELSE queue[MaxOf(Hits(queue, e, t))].val
  BY DEF Written, Hits
<1>3. \A i \in Hits(queue, e, t) : queue[i].val \in Values
  <2>1. \A i \in DOMAIN queue : queue[i] \in Sample
    BY LenProperties, ElementOfSeq
  <2>. QED BY <2>1 DEF Hits, Sample
<1>. QED BY <1>1, <1>2, <1>3

(* INSERT OR REPLACE makes a sample of every sample of the queue and takes *)
(* none away.                                                              *)
LEMMA WrittenStamps ==
  ASSUME NEW samples \in [Entities -> Series], NEW queue \in Seq(Sample), NEW e \in Entities
  PROVE  /\ Written(samples, queue) \in [Entities -> Series]
         /\ \A t : t \in Stamps(Written(samples, queue)[e]) <=>
              t \in Stamps(samples[e]) \/ (t \in Times /\ Hits(queue, e, t) # {})
<1>1. ASSUME NEW x \in Entities, NEW t \in Times
      PROVE  Written(samples, queue)[x][t] \in Values \cup {None}
  <2>1. samples[x][t] \in Values \cup {None}
    BY DEF Series
  <2>. QED BY <2>1, WrittenAt
<1>2. Written(samples, queue) = [x \in Entities |-> [t \in Times |-> Written(samples, queue)[x][t]]]
  BY DEF Written
<1>3. Written(samples, queue) \in [Entities -> Series]
  BY <1>1, <1>2 DEF Series
<1>4. ASSUME NEW t \in Times
      PROVE  Written(samples, queue)[e][t] # None <=>
               samples[e][t] # None \/ Hits(queue, e, t) # {}
  BY WrittenAt, StorageAssumption
<1>. QED BY <1>3, <1>4 DEF Stamps

LEMMA NothingWritten ==
  ASSUME NEW samples \in [Entities -> Series]
  PROVE  Written(samples, <<>>) = samples
<1>1. \A e \in Entities, t \in Times : Hits(<<>>, e, t) = {}
  BY DEF Hits
<1>2. \A e \in Entities : Written(samples, <<>>)[e] = [t \in Times |-> samples[e][t]]
  BY <1>1 DEF Written, Hits
<1>3. \A e \in Entities : samples[e] = [t \in Times |-> samples[e][t]]
  BY DEF Series
<1>4. Written(samples, <<>>) = [e \in Entities |-> Written(samples, <<>>)[e]]
  BY DEF Written
<1>5. samples = [e \in Entities |-> samples[e]]
  OBVIOUS
<1>. QED BY <1>2, <1>3, <1>4, <1>5

(* One sample more in the queue.                                           *)
LEMMA QueuedOwn ==
  ASSUME NEW queue \in Seq(Sample), NEW r \in Sample, NEW e \in Entities
  PROVE  /\ Append(queue, r) \in Seq(Sample)
         /\ r.id = e => /\ Own(Append(queue, r), e) # {}
                        /\ Append(queue, r)[MaxOf(Own(Append(queue, r), e))] = r
         /\ r.id # e => /\ Own(Append(queue, r), e) = Own(queue, e)
                        /\ \A i \in Own(queue, e) : Append(queue, r)[i] = queue[i]
<1>. DEFINE more == Append(queue, r)
<1>. DEFINE end == Len(queue) + 1
<1>1. /\ more \in Seq(Sample) /\ Len(queue) \in Nat
      /\ DOMAIN queue = 1 .. Len(queue) /\ DOMAIN more = 1 .. end
      /\ more[end] = r /\ \A i \in 1 .. Len(queue) : more[i] = queue[i]
  BY AppendProperties, LenProperties
<1>. HIDE DEF more
<1>2. \A i \in DOMAIN more : i \in Nat /\ i <= end
  BY <1>1
<1>3. ASSUME r.id = e
      PROVE  Own(more, e) # {} /\ more[MaxOf(Own(more, e))] = r
  <2>1. end \in Own(more, e)
    BY <1>1, <1>3 DEF Own
  <2>2. Own(more, e) \in SUBSET (0 .. end) /\ end \in Nat /\ \A i \in Own(more, e) : i <= end
    BY <1>1, <1>2 DEF Own
  <2>3. MaxOf(Own(more, e)) = end
    BY <2>1, <2>2, MaxIs
  <2>. QED BY <1>1, <2>1, <2>3
<1>4. ASSUME r.id # e
      PROVE  Own(more, e) = Own(queue, e) /\ \A i \in Own(queue, e) : more[i] = queue[i]
  BY <1>1, <1>4 DEF Own
<1>. QED BY <1>1, <1>3, <1>4 DEF more

LEMMA QueuedWritten ==
  ASSUME NEW samples \in [Entities -> Series], NEW queue \in Seq(Sample), NEW r \in Sample,
         NEW e \in Entities, NEW t \in Times
  PROVE  Written(samples, Append(queue, r))[e][t] =
           IF r.id = e /\ r.ts = t THEN r.val ELSE Written(samples, queue)[e][t]
<1>. DEFINE more == Append(queue, r)
<1>. DEFINE end == Len(queue) + 1
<1>1. /\ more \in Seq(Sample) /\ Len(queue) \in Nat
      /\ DOMAIN queue = 1 .. Len(queue) /\ DOMAIN more = 1 .. end
      /\ more[end] = r /\ \A i \in 1 .. Len(queue) : more[i] = queue[i]
  BY AppendProperties, LenProperties
<1>. HIDE DEF more
<1>2. \A i \in DOMAIN more : i \in Nat /\ i <= end
  BY <1>1
<1>3. CASE r.id = e /\ r.ts = t
  <2>1. end \in Hits(more, e, t)
    BY <1>1, <1>3 DEF Hits
  <2>2. Hits(more, e, t) \in SUBSET (0 .. end) /\ end \in Nat
          /\ \A i \in Hits(more, e, t) : i <= end
    BY <1>1, <1>2 DEF Hits
  <2>3. MaxOf(Hits(more, e, t)) = end
    BY <2>1, <2>2, MaxIs
  <2>4. Written(samples, more)[e][t] = more[end].val
    BY <1>1, <2>1, <2>3, WrittenAt
  <2>. QED BY <1>1, <1>3, <2>4 DEF more
<1>4. CASE ~(r.id = e /\ r.ts = t)
  <2>1. Hits(more, e, t) = Hits(queue, e, t) /\ \A i \in Hits(queue, e, t) : more[i] = queue[i]
    BY <1>1, <1>4 DEF Hits
  <2>2. CASE Hits(queue, e, t) = {}
    BY <1>1, <1>4, <2>1, <2>2, WrittenAt DEF more
  <2>3. CASE Hits(queue, e, t) # {}
    <3>1. MaxOf(Hits(queue, e, t)) \in Hits(queue, e, t)
            /\ Written(samples, queue)[e][t] = queue[MaxOf(Hits(queue, e, t))].val
      BY <2>3, WrittenAt
    <3>2. Written(samples, more)[e][t] = more[MaxOf(Hits(queue, e, t))].val
      BY <1>1, <2>1, <2>3, WrittenAt
    <3>. QED BY <1>4, <2>1, <3>1, <3>2 DEF more
  <2>. QED BY <2>2, <2>3
<1>. QED BY <1>3, <1>4

(* The last sample of an entity that waits is what is written at its       *)
(* second.                                                                 *)
LEMMA LastOneWritten ==
  ASSUME NEW samples \in [Entities -> Series], NEW queue \in Seq(Sample),
         NEW e \in Entities, Own(queue, e) # {}
  PROVE  LET r == queue[MaxOf(Own(queue, e))]
         IN /\ r \in Sample /\ r.id = e /\ Hits(queue, e, r.ts) # {}
            /\ Written(samples, queue)[e][r.ts] = r.val
<1>. DEFINE i == MaxOf(Own(queue, e))
<1>1. i \in Own(queue, e) /\ \A j \in Own(queue, e) : j <= i
  BY QueueBounds, Extremes
<1>. HIDE DEF i
<1>2. queue[i] \in Sample /\ queue[i].id = e /\ i \in Hits(queue, e, queue[i].ts)
  BY <1>1, LenProperties, ElementOfSeq DEF Own, Hits
<1>3. \A j \in Hits(queue, e, queue[i].ts) : j <= i
  BY <1>1 DEF Own, Hits
<1>4. MaxOf(Hits(queue, e, queue[i].ts)) = i
  BY <1>2, <1>3, QueueBounds, MaxIs
<1>5. queue[i].ts \in Times
  BY <1>2 DEF Sample
<1>6. Written(samples, queue)[e][queue[i].ts] = queue[i].val
  BY <1>2, <1>4, <1>5, WrittenAt
<1>. QED BY <1>2, <1>6 DEF i

(* Part of a queue writes part of its samples.                             *)
LEMMA PartWritten ==
  ASSUME NEW samples \in [Entities -> Series], NEW queue \in Seq(Sample),
         NEW k \in 0 .. Len(queue), NEW e \in Entities
  PROVE  /\ Written(samples, SubSeq(queue, 1, k)) \in [Entities -> Series]
         /\ Stamps(samples[e]) \subseteq Stamps(Written(samples, SubSeq(queue, 1, k))[e])
         /\ Stamps(Written(samples, SubSeq(queue, 1, k))[e])
              \subseteq Stamps(Written(samples, queue)[e])
<1>. DEFINE part == SubSeq(queue, 1, k)
<1>1. part \in Seq(Sample)
  <2>1. Len(queue) \in Nat
    BY LenProperties
  <2>. QED BY <2>1, SubSeqProperties
<1>2. DOMAIN part = 1 .. k /\ \A i \in 1 .. k : part[i] = queue[i] /\ i \in DOMAIN queue
  <2>1. Len(queue) \in Nat /\ DOMAIN queue = 1 .. Len(queue)
    BY LenProperties
  <2>. QED BY <2>1
<1>. HIDE DEF part
<1>3. \A t : Hits(part, e, t) \subseteq Hits(queue, e, t)
  BY <1>2 DEF Hits
<1>4. Stamps(Written(samples, part)[e]) \subseteq Stamps(Written(samples, queue)[e])
  <2>1. /\ \A t : t \in Stamps(Written(samples, part)[e]) <=>
             t \in Stamps(samples[e]) \/ (t \in Times /\ Hits(part, e, t) # {})
        /\ \A t : t \in Stamps(Written(samples, queue)[e]) <=>
             t \in Stamps(samples[e]) \/ (t \in Times /\ Hits(queue, e, t) # {})
    BY <1>1, WrittenStamps
  <2>. QED BY <1>3, <2>1
<1>5. Written(samples, part) \in [Entities -> Series]
        /\ Stamps(samples[e]) \subseteq Stamps(Written(samples, part)[e])
  BY <1>1, WrittenStamps
<1>. QED BY <1>4, <1>5 DEF part

LEMMA PurgedStamps ==
  ASSUME NEW samples \in [Entities -> Series], NEW e \in Entities, now \in Times
  PROVE  /\ Purged(samples) \in [Entities -> Series]
         /\ \A t : t \in Stamps(Purged(samples)[e]) <=>
              t \in Stamps(samples[e]) /\ now - Retention <= t
         /\ \A t \in Times :
              Purged(samples)[e][t] = IF t < now - Retention THEN None ELSE samples[e][t]
<1>1. \A x \in Entities, t \in Times : samples[x][t] \in Values \cup {None}
  BY DEF Series
<1>2. Purged(samples) \in [Entities -> Series]
  BY <1>1 DEF Purged, Series
<1>3. \A t \in Times :
        Purged(samples)[e][t] = IF t < now - Retention THEN None ELSE samples[e][t]
  BY DEF Purged
<1>4. \A t \in Times : t \in Int /\ now - Retention \in Int
  BY StorageAssumption DEF Times
<1>. QED BY <1>2, <1>3, <1>4 DEF Stamps

(* UPDATE entities touches no row but those that exist.                    *)
LEMMA UpdatedRow ==
  ASSUME NEW row \in [Entities -> Values \cup {None, Absent}], NEW queue \in Seq(Sample)
  PROVE  /\ Updated(row, queue) \in [Entities -> Values \cup {None, Absent}]
         /\ \A e \in Entities :
              Updated(row, queue)[e] =
                IF Own(queue, e) = {} \/ row[e] = Absent THEN row[e]
                ELSE queue[MaxOf(Own(queue, e))].val
<1>1. \A e \in Entities :
        Updated(row, queue)[e] =
          IF Own(queue, e) = {} \/ row[e] = Absent THEN row[e]
          ELSE queue[MaxOf(Own(queue, e))].val
  BY DEF Updated, Own
<1>2. ASSUME NEW e \in Entities, Own(queue, e) # {}
      PROVE  queue[MaxOf(Own(queue, e))].val \in Values
  <2>1. MaxOf(Own(queue, e)) \in Own(queue, e)
    BY <1>2, QueueBounds, Extremes
  <2>2. \A i \in Own(queue, e) : queue[i] \in Sample
    BY LenProperties, ElementOfSeq DEF Own
  <2>. QED BY <2>1, <2>2 DEF Sample
<1>3. \A e \in Entities : Updated(row, queue)[e] \in Values \cup {None, Absent}
  BY <1>1, <1>2
<1>4. Updated(row, queue) = [e \in Entities |-> Updated(row, queue)[e]]
  BY DEF Updated
<1>. QED BY <1>1, <1>3, <1>4

LEMMA FlushedTables ==
  ASSUME NEW tables \in Tables, NEW queue \in Seq(Sample)
  PROVE  Flushed(tables, queue) \in Tables
<1>1. Written(tables.samples, queue) \in [Entities -> Series]
  <2>1. tables.samples \in [Entities -> Series]
    BY DEF Tables
  <2>2. CASE Entities = {}
    BY <2>2 DEF Written
  <2>3. CASE Entities # {}
    BY <2>1, <2>3, WrittenStamps
  <2>. QED BY <2>2, <2>3
<1>2. Updated(tables.row, queue) \in [Entities -> Values \cup {None, Absent}]
  BY UpdatedRow DEF Tables
<1>. QED BY <1>1, <1>2 DEF Flushed, Tables

(* SELECT entity_id, MAX(ts) ... finds the newest sample.                  *)
LEMMA LastStoredIsNewest ==
  ASSUME NEW samples \in [Entities -> Series]
  PROVE  /\ LastStored(samples) \in [Entities -> Memory \cup {None}]
         /\ \A e \in Entities : Stamps(samples[e]) # {} =>
              IsNewest(samples[e], LastStored(samples)[e])
<1>1. ASSUME NEW e \in Entities, Stamps(samples[e]) # {}
      PROVE  IsNewest(samples[e], LastStored(samples)[e])
  <2>1. samples[e] \in Series
    OBVIOUS
  <2>2. IsNewest(samples[e], [ts |-> MaxOf(Stamps(samples[e])),
                              val |-> samples[e][MaxOf(Stamps(samples[e]))]])
    BY <1>1, <2>1, HasNewest
  <2>. QED BY <1>1, <2>2 DEF LastStored
<1>2. ASSUME NEW e \in Entities
      PROVE  LastStored(samples)[e] \in Memory \cup {None}
  <2>1. CASE Stamps(samples[e]) = {}
    BY <2>1 DEF LastStored
  <2>2. CASE Stamps(samples[e]) # {}
    BY <1>1, <2>2 DEF IsNewest
  <2>. QED BY <2>1, <2>2
<1>3. LastStored(samples) = [e \in Entities |-> LastStored(samples)[e]]
  BY DEF LastStored
<1>. QED BY <1>1, <1>2, <1>3

-----------------------------------------------------------------------------
LEMMA TypesInit == Init => TypesOK
<1>. SUFFICES ASSUME Init PROVE TypesOK
  OBVIOUS
<1>1. db \in Tables
  BY DEF Init, Tables, Series
<1>2. <<>> \in Seq(Sample)
  OBVIOUS
<1>3. 0 \in Times
  BY StorageAssumption DEF Times
<1>4. BudgetOK(budget)
  BY StorageAssumption DEF Init, BudgetOK
<1>. QED BY <1>1, <1>2, <1>3, <1>4, StorageAssumption DEF Init, TypesOK

(* A bound that is used up stays a number and gets no larger.              *)
LEMMA BudgetSpent ==
  ASSUME NEW b, BudgetOK(b)
  PROVE  /\ BudgetOK([b EXCEPT !.changes = @ - 1])
         /\ BudgetOK([b EXCEPT !.removals = @ - 1])
         /\ BudgetOK([b EXCEPT !.downs = @ - 1])
         /\ BudgetOK([b EXCEPT !.steps = @ - 1])
         /\ BudgetOK([b EXCEPT !.errors = @ - 1])
<1>1. StepBacks \in Int /\ DbErrors \in Int
  BY StorageAssumption
<1>2. /\ b.changes - 1 \in Int /\ b.removals - 1 \in Int /\ b.downs - 1 \in Int
      /\ b.steps - 1 \in Int /\ b.steps - 1 <= StepBacks
      /\ b.errors - 1 \in Int /\ b.errors - 1 <= DbErrors
  BY <1>1 DEF BudgetOK
<1>. QED BY <1>2 DEF BudgetOK

LEMMA TypesNext == TypesOK /\ [Next]_vars => TypesOK'
<1>. SUFFICES ASSUME TypesOK, [Next]_vars PROVE TypesOK'
  OBVIOUS
<1>0. /\ db \in Tables /\ disk \in Tables /\ db.row \in [Entities -> Values \cup {None, Absent}]
      /\ db.samples \in [Entities -> Series] /\ disk.samples \in [Entities -> Series]
  BY DEF TypesOK, Tables
<1>1. ASSUME NEW e \in Entities, Report(e) PROVE TypesOK'
  <2>1. topic[e] \in Values /\ [ts |-> now, val |-> topic[e]] \in Memory
          /\ [id |-> e, ts |-> now, val |-> topic[e]] \in Sample
    BY DEF TypesOK, Memory, Sample
  <2>2. shown' \in [Entities -> Values \cup {None, Absent}]
    BY <1>1, <2>1 DEF TypesOK, Report
  <2>3. last' \in [Entities -> Memory \cup {None}]
    BY <1>1, <2>1 DEF TypesOK, Report
  <2>4. pending' \in Seq(Sample)
    BY <1>1, <2>1, AppendProperties DEF TypesOK, Report
  <2>. QED BY <1>1, <2>2, <2>3, <2>4 DEF TypesOK, Report
<1>2. ASSUME NEW e \in Entities, Discover(e) PROVE TypesOK'
  <2>1. db' = [db EXCEPT !.row = [db.row EXCEPT ![e] = Saved(db.row[e])]]
    BY <1>2 DEF Discover
  <2>2. [db.row EXCEPT ![e] = Saved(db.row[e])] \in [Entities -> Values \cup {None, Absent}]
    BY <1>0 DEF Saved
  <2>3. db' \in Tables /\ disk' \in Tables
    BY <1>0, <1>2, <2>1, <2>2 DEF Tables, Discover
  <2>4. shown' \in [Entities -> Values \cup {None, Absent}]
    BY <1>2 DEF TypesOK, Discover
  <2>. QED BY <1>2, <2>3, <2>4 DEF TypesOK, Discover
<1>3. ASSUME NEW e \in Entities, Remove(e) PROVE TypesOK'
  <2>1. db' = [db EXCEPT !.row = [db.row EXCEPT ![e] = Absent]]
    BY <1>3 DEF Remove
  <2>2. [db.row EXCEPT ![e] = Absent] \in [Entities -> Values \cup {None, Absent}]
    BY <1>0
  <2>3. db' \in Tables /\ disk' \in Tables
    BY <1>0, <1>3, <2>1, <2>2 DEF Tables, Remove
  <2>4. shown' \in [Entities -> Values \cup {None, Absent}]
    BY <1>3 DEF TypesOK, Remove
  <2>5. BudgetOK(budget')
    BY <1>3, BudgetSpent DEF TypesOK, Remove
  <2>. QED BY <1>3, <2>3, <2>4, <2>5 DEF TypesOK, Remove
<1>4. ASSUME NEW e \in Entities, Change(e) PROVE TypesOK'
  <2>1. topic' \in [Entities -> Values]
    BY <1>4 DEF TypesOK, Change
  <2>2. BudgetOK(budget')
    BY <1>4, BudgetSpent DEF TypesOK, Change
  <2>. QED BY <1>4, <2>1, <2>2 DEF TypesOK, Change
<1>5. CASE Flush
  <2>1. db' \in Tables /\ disk' \in Tables
    BY <1>0, <1>5, FlushedTables DEF TypesOK, Flush
  <2>2. pending' \in Seq(Sample)
    BY <1>5 DEF Flush
  <2>. QED BY <1>5, <2>1, <2>2 DEF TypesOK, Flush
<1>6. CASE FlushFails
  <2>1. PICK k \in 0 .. Len(pending) :
          db' = [db EXCEPT !.samples = Written(db.samples, SubSeq(pending, 1, k))]
    BY <1>6 DEF FlushFails
  <2>2. Written(db.samples, SubSeq(pending, 1, k)) \in [Entities -> Series]
    <3>1. CASE Entities = {}
      BY <3>1 DEF Written
    <3>2. CASE Entities # {}
      BY <1>0, <3>2, PartWritten DEF TypesOK
    <3>. QED BY <3>1, <3>2
  <2>3. db' \in Tables
    BY <1>0, <2>1, <2>2 DEF Tables
  <2>4. pending' \in Seq(Sample)
    BY <1>6 DEF FlushFails
  <2>5. BudgetOK(budget')
    BY <1>6, BudgetSpent DEF TypesOK, FlushFails
  <2>. QED BY <1>6, <2>3, <2>4, <2>5 DEF TypesOK, FlushFails
<1>7. CASE Purge
  <2>1. Purged(db.samples) \in [Entities -> Series]
    <3>1. CASE Entities = {}
      BY <3>1 DEF Purged
    <3>2. CASE Entities # {}
      BY <1>0, <3>2, PurgedStamps DEF TypesOK
    <3>. QED BY <3>1, <3>2
  <2>2. db' \in Tables /\ disk' \in Tables
    BY <1>0, <1>7, <2>1 DEF Tables, Purge
  <2>. QED BY <1>7, <2>2 DEF TypesOK, Purge
<1>8. CASE Stop
  <2>1. db' \in Tables /\ disk' \in Tables
    BY <1>0, <1>8, FlushedTables DEF TypesOK, Stop
  <2>2. pending' \in Seq(Sample)
    BY <1>8 DEF Stop
  <2>3. BudgetOK(budget')
    BY <1>8, BudgetSpent DEF TypesOK, Stop
  <2>. QED BY <1>8, <2>1, <2>2, <2>3 DEF TypesOK, Stop
<1>9. CASE Crash
  <2>1. pending' \in Seq(Sample)
    BY <1>9 DEF Crash
  <2>2. BudgetOK(budget')
    BY <1>9, BudgetSpent DEF TypesOK, Crash
  <2>. QED BY <1>0, <1>9, <2>1, <2>2 DEF TypesOK, Crash
<1>10. CASE Start
  <2>1. last' \in [Entities -> Memory \cup {None}]
    BY <1>0, <1>10, LastStoredIsNewest DEF Start
  <2>2. shown' \in [Entities -> Values \cup {None, Absent}]
    BY <1>0, <1>10 DEF Start, Tables
  <2>. QED BY <1>10, <2>1, <2>2 DEF TypesOK, Start
<1>11. CASE Tick
  <2>1. now' \in Times
    BY <1>11, StorageAssumption DEF TypesOK, Tick, Times
  <2>. QED BY <1>11, <2>1 DEF TypesOK, Tick
<1>12. CASE StepBack
  <2>1. now' \in Times
    BY <1>12, StorageAssumption DEF TypesOK, StepBack, Times
  <2>2. BudgetOK(budget')
    BY <1>12, BudgetSpent DEF TypesOK, StepBack
  <2>. QED BY <1>12, <2>1, <2>2 DEF TypesOK, StepBack
<1>13. CASE UNCHANGED vars
  BY <1>13 DEF TypesOK, vars
<1>. QED
  BY <1>1, <1>2, <1>3, <1>4, <1>5, <1>6, <1>7, <1>8, <1>9, <1>10, <1>11, <1>12, <1>13 DEF Next

-----------------------------------------------------------------------------
LEMMA SeriesOfAll ==
  ASSUME TypesOK
  PROVE  /\ db.samples \in [Entities -> Series] /\ disk.samples \in [Entities -> Series]
         /\ db.row \in [Entities -> Values \cup {None, Absent}]
         /\ \A e \in Entities : AllSamples[e] \in Series
         /\ pending = <<>> => AllSamples = db.samples
<1>1. /\ db.samples \in [Entities -> Series] /\ disk.samples \in [Entities -> Series]
      /\ db.row \in [Entities -> Values \cup {None, Absent}]
  BY DEF TypesOK, Tables
<1>2. \A e \in Entities : AllSamples[e] \in Series
  BY <1>1, WrittenStamps DEF TypesOK, AllSamples
<1>3. pending = <<>> => AllSamples = db.samples
  BY <1>1, NothingWritten DEF AllSamples
<1>. QED BY <1>1, <1>2, <1>3

(* What each kind of step makes of the samples, written or waiting.        *)
LEMMA Kept ==
  ASSUME TypesOK, NEW e \in Entities, NEW x \in Entities, Report(e), Keeps(e, topic[e])
  PROVE  /\ \A t \in Times : AllSamples'[x][t] =
              IF x = e /\ t = now THEN topic[e] ELSE AllSamples[x][t]
         /\ last' = [last EXCEPT ![e] = [ts |-> now, val |-> topic[e]]]
         /\ db' = db /\ disk' = disk
         /\ x = e => /\ Own(pending', e) # {}
                     /\ pending'[MaxOf(Own(pending', e))]
                          = [id |-> e, ts |-> now, val |-> topic[e]]
         /\ x # e => /\ Own(pending', x) = Own(pending, x)
                     /\ \A i \in Own(pending, x) : pending'[i] = pending[i]
<1>1. PICK r \in Sample : r = [id |-> e, ts |-> now, val |-> topic[e]]
  BY DEF TypesOK, Sample
<1>2. pending' = Append(pending, r) /\ db' = db /\ disk' = disk
        /\ last' = [last EXCEPT ![e] = [ts |-> now, val |-> topic[e]]]
  BY <1>1 DEF Report
<1>3. r.id = e /\ r.ts = now /\ r.val = topic[e]
  BY <1>1
<1>4. pending \in Seq(Sample) /\ db.samples \in [Entities -> Series] /\ x \in Entities
  BY SeriesOfAll DEF TypesOK
<1>5. \A t \in Times : Written(db.samples, Append(pending, r))[x][t] =
        IF r.id = x /\ r.ts = t THEN r.val ELSE Written(db.samples, pending)[x][t]
  BY ONLY <1>4, QueuedWritten
<1>9. r.id = x => /\ Own(Append(pending, r), x) # {}
                 /\ Append(pending, r)[MaxOf(Own(Append(pending, r), x))] = r
  BY ONLY <1>4, QueuedOwn
<1>10. r.id # x => /\ Own(Append(pending, r), x) = Own(pending, x)
                  /\ \A i \in Own(pending, x) : Append(pending, r)[i] = pending[i]
  BY ONLY <1>4, QueuedOwn
<1>6. AllSamples' = Written(db.samples, Append(pending, r))
  BY <1>2 DEF AllSamples
<1>7. \A t \in Times : AllSamples'[x][t] =
        IF x = e /\ t = now THEN topic[e] ELSE AllSamples[x][t]
  BY <1>3, <1>5, <1>6 DEF AllSamples
<1>. QED BY <1>1, <1>2, <1>3, <1>7, <1>9, <1>10

LEMMA Unkept ==
  ASSUME NEW e \in Entities, Report(e), ~Keeps(e, topic[e])
  PROVE  UNCHANGED <<db, disk, pending, last, AllSamples>>
BY DEF Report, AllSamples

(* A flush that succeeds keeps what there is.                              *)
LEMMA FlushedAll ==
  ASSUME TypesOK, db' = Flushed(db, pending), pending' = <<>>
  PROVE  AllSamples' = AllSamples /\ db'.samples = AllSamples
<1>1. db'.samples = AllSamples /\ AllSamples' = Written(db'.samples, <<>>)
  BY DEF Flushed, AllSamples
<1>2. AllSamples = [e \in Entities |-> AllSamples[e]]
  BY DEF AllSamples, Written
<1>3. AllSamples \in [Entities -> Series]
  BY <1>2, SeriesOfAll
<1>. QED BY <1>1, <1>3, NothingWritten

LEMMA PurgedAll ==
  ASSUME TypesOK, Purge, NEW e \in Entities
  PROVE  /\ \A t \in Times : AllSamples'[e][t] =
              IF t < now - Retention /\ Hits(pending, e, t) = {} THEN None ELSE AllSamples[e][t]
         /\ Stamps(AllSamples'[e]) \subseteq Stamps(AllSamples[e])
<1>1. db'.samples = Purged(db.samples) /\ pending' = pending
  BY SeriesOfAll DEF Purge, TypesOK, Tables
<1>2. Purged(db.samples) \in [Entities -> Series] /\ pending \in Seq(Sample)
        /\ db.samples \in [Entities -> Series]
  BY SeriesOfAll, PurgedStamps DEF TypesOK
<1>3. AllSamples' = Written(Purged(db.samples), pending)
  BY <1>1 DEF AllSamples
<1>4. ASSUME NEW t \in Times
      PROVE  AllSamples'[e][t] =
               IF t < now - Retention /\ Hits(pending, e, t) = {} THEN None ELSE AllSamples[e][t]
  <2>1. Purged(db.samples)[e][t] = IF t < now - Retention THEN None ELSE db.samples[e][t]
    BY <1>2, PurgedStamps DEF TypesOK
  <2>2. CASE Hits(pending, e, t) = {}
    BY <1>2, <1>3, <2>1, <2>2, WrittenAt DEF AllSamples
  <2>3. CASE Hits(pending, e, t) # {}
    BY <1>2, <1>3, <2>3, WrittenAt DEF AllSamples
  <2>. QED BY <2>2, <2>3
<1>. QED BY <1>4 DEF Stamps

LEMMA NothingWaits ==
  ASSUME TypesOK', pending' = <<>>
  PROVE  AllSamples' = db'.samples
<1>1. AllSamples' = Written(db'.samples, <<>>)
  BY DEF AllSamples
<1>2. db'.samples \in [Entities -> Series]
  BY DEF TypesOK, Tables
<1>. QED BY <1>1, <1>2, NothingWritten

(* Steps that add no sample keep the distances.                            *)
LEMMA NothingAdded ==
  ASSUME SpacingInv, Up' => Up /\ last' = last,
         \A e \in Entities : Stamps(AllSamples'[e]) \subseteq Stamps(AllSamples[e])
  PROVE  NoneLater' /\ NumericApart'
<1>1. \A e \in Numeric : Stamps(AllSamples'[e]) \subseteq Stamps(AllSamples[e])
  BY StorageAssumption
<1>2. NumericApart'
  BY <1>1 DEF SpacingInv, NumericApart, Stamps
<1>3. NoneLater'
  BY <1>1 DEF SpacingInv, NoneLater, Stamps
<1>. QED BY <1>2, <1>3

LEMMA SpacingInit == Init => SpacingInv
<1>. SUFFICES ASSUME Init PROVE SpacingInv
  OBVIOUS
<1>1. TypesOK
  BY TypesInit
<1>2. \A e \in Entities : Stamps(AllSamples[e]) = {} /\ Stamps(disk.samples[e]) = {}
  <2>1. AllSamples = db.samples
    BY <1>1, SeriesOfAll DEF Init
  <2>. QED BY <2>1 DEF Init, Stamps
<1>. QED BY <1>1, <1>2, StorageAssumption DEF Init, SpacingInv, Committed, NoneLater, NumericApart, Up

LEMMA SpacingNext == SpacingInv /\ [Next]_vars => SpacingInv'
<1>. SUFFICES ASSUME SpacingInv, [Next]_vars PROVE SpacingInv'
  OBVIOUS
<1>. USE DEF SpacingInv
<1>0. TypesOK'
  BY TypesNext
<1>1. ASSUME NEW e \in Entities, Report(e) PROVE SpacingInv'
  <2>1. CASE Keeps(e, topic[e])
    <3>1. ASSUME NEW x \in Entities
          PROVE  /\ x # e => Stamps(AllSamples'[x]) \subseteq Stamps(AllSamples[x])
                 /\ Stamps(AllSamples'[x]) \subseteq Stamps(AllSamples[x]) \cup {now}
      <4>1. \A t \in Times : AllSamples'[x][t] =
              IF x = e /\ t = now THEN topic[e] ELSE AllSamples[x][t]
        BY <1>1, <2>1, Kept
      <4>. QED BY <4>1 DEF Stamps
    <3>2. db' = db /\ disk' = disk /\ last' = [last EXCEPT ![e] = [ts |-> now, val |-> topic[e]]]
      BY <1>1, <2>1 DEF Report
    <3>3. Committed'
      BY <1>1, <3>2 DEF Committed, Report, Up, Stamps
    <3>4. [ts |-> now, val |-> topic[e]] # None
      BY StorageAssumption DEF TypesOK, Times
    <3>5. now \in Int /\ MinInterval \in Int /\ 0 <= MinInterval
      BY StorageAssumption DEF TypesOK, Times
    <3>6. ASSUME e \in Numeric, NEW s \in Stamps(AllSamples[e])
          PROVE  s + MinInterval <= now /\ s \in Int
      <4>1. last[e] # None /\ s <= last[e].ts
        BY <1>1, <3>6 DEF NoneLater, Report
      <4>2. now - last[e].ts >= MinInterval
        BY <2>1, <3>6, <4>1 DEF Keeps, Due
      <4>3. last[e] \in Memory
        BY <4>1 DEF TypesOK
      <4>4. last[e].ts \in Int /\ s \in Int
        BY <4>3 DEF Memory, Stamps, Times
      <4>. QED BY <3>5, <4>1, <4>2, <4>4
    <3>7. NumericApart'
      <4>1. ASSUME NEW x \in Numeric, NEW s \in Stamps(AllSamples'[x]),
                   NEW t \in Stamps(AllSamples'[x]), s < t
            PROVE  t - s >= MinInterval
        <5>1. x \in Entities
          BY StorageAssumption
        <5>2. CASE s \in Stamps(AllSamples[x]) /\ t \in Stamps(AllSamples[x])
          BY <4>1, <5>2 DEF NumericApart
        <5>3. CASE x = e /\ s = now
          <6>1. t \in Stamps(AllSamples[e])
            BY <3>1, <3>5, <4>1, <5>3
          <6>. QED BY <3>5, <3>6, <4>1, <5>3, <6>1
        <5>4. CASE x = e /\ t = now /\ s # now
          <6>1. s \in Stamps(AllSamples[e])
            BY <3>1, <4>1, <5>4
          <6>2. s + MinInterval <= now /\ s \in Int
            BY <3>6, <4>1, <5>4, <6>1
          <6>. QED BY <3>5, <5>4, <6>2
        <5>. QED BY <3>1, <5>1, <5>2, <5>3, <5>4
      <4>. QED BY <4>1 DEF NumericApart, Stamps
    <3>8. NoneLater'
      <4>1. ASSUME NEW x \in Numeric, NEW s \in Stamps(AllSamples'[x])
            PROVE  last'[x] # None /\ s <= last'[x].ts
        <5>1. x \in Entities
          BY StorageAssumption
        <5>2. CASE x = e
          <6>1. last'[x] = [ts |-> now, val |-> topic[e]]
            BY <3>2, <5>2 DEF TypesOK
          <6>2. e \in Numeric /\ s \in Stamps(AllSamples[e]) \cup {now}
            BY <3>1, <4>1, <5>2
          <6>3. s \in Stamps(AllSamples[e]) => s + MinInterval <= now /\ s \in Int
            BY <3>6, <6>2
          <6>4. s <= now
            BY <3>5, <6>2, <6>3
          <6>. QED BY <3>4, <6>1, <6>4
        <5>3. CASE x # e
          <6>1. s \in Stamps(AllSamples[x]) /\ Up
            BY <1>1, <3>1, <4>1, <5>1, <5>3 DEF Report
          <6>2. last'[x] = last[x]
            BY <3>2, <5>1, <5>3 DEF TypesOK
          <6>. QED BY <6>1, <6>2 DEF NoneLater
        <5>. QED BY <5>2, <5>3
      <4>. QED BY <4>1 DEF NoneLater, Stamps
    <3>. QED BY <1>0, <3>3, <3>7, <3>8
  <2>2. CASE ~Keeps(e, topic[e])
    <3>1. UNCHANGED <<db, disk, pending, last, AllSamples>> /\ flusher' = flusher
      BY <1>1, <2>2, Unkept DEF Report
    <3>2. Committed'
      BY <3>1 DEF Committed, Up, Stamps
    <3>3. NoneLater' /\ NumericApart'
      BY <3>1, NothingAdded DEF Up
    <3>. QED BY <1>0, <3>2, <3>3
  <2>. QED BY <2>1, <2>2
<1>2. ASSUME AllSamples' = AllSamples, db'.samples = db.samples, disk'.samples \in {disk.samples, db.samples},
             Up, Up', last' = last
      PROVE  SpacingInv'
  <2>1. Committed'
    BY <1>2 DEF Committed, Stamps
  <2>. QED BY <1>0, <1>2, <2>1, NothingAdded
<1>3. ASSUME NEW e \in Entities, Discover(e) \/ Remove(e) PROVE SpacingInv'
  <2>1. db'.samples = db.samples /\ disk'.samples = db.samples
    BY <1>3 DEF Discover, Remove, TypesOK, Tables
  <2>2. AllSamples' = AllSamples /\ Up /\ Up' /\ last' = last
    BY <1>3, <2>1 DEF Discover, Remove, AllSamples, Up
  <2>. QED BY <1>2, <2>1, <2>2
<1>4. CASE \/ \E e \in Entities : Change(e)
           \/ Tick \/ StepBack \/ UNCHANGED vars
  <2>1. UNCHANGED <<db, disk, pending, last, flusher>>
    BY <1>4 DEF Change, Tick, StepBack, vars
  <2>2. AllSamples' = AllSamples
    BY <2>1 DEF AllSamples
  <2>3. Committed'
    BY <2>1 DEF Committed, Up, Stamps
  <2>. QED BY <1>0, <2>1, <2>2, <2>3, NothingAdded DEF Up
<1>5. CASE Flush
  <2>1. AllSamples' = AllSamples /\ Up /\ Up' /\ last' = last /\ disk' = db'
    BY <1>5, FlushedAll DEF Flush, Up
  <2>2. Committed'
    BY <2>1 DEF Committed
  <2>. QED BY <1>0, <2>1, <2>2, NothingAdded
<1>6. CASE FlushFails
  <2>1. PICK k \in 0 .. Len(pending) :
          db' = [db EXCEPT !.samples = Written(db.samples, SubSeq(pending, 1, k))]
    BY <1>6 DEF FlushFails
  <2>2. db'.samples = Written(db.samples, SubSeq(pending, 1, k))
    BY <2>1 DEF TypesOK, Tables
  <2>3. ASSUME NEW e \in Entities
        PROVE  /\ Stamps(AllSamples'[e]) \subseteq Stamps(AllSamples[e])
               /\ Stamps(disk'.samples[e]) \subseteq Stamps(db'.samples[e])
    <3>1. AllSamples' = db'.samples
      BY <1>0, <1>6, NothingWaits DEF FlushFails
    <3>2. /\ Stamps(db.samples[e]) \subseteq Stamps(db'.samples[e])
          /\ Stamps(db'.samples[e]) \subseteq Stamps(AllSamples[e])
      BY <2>2, SeriesOfAll, PartWritten DEF TypesOK, AllSamples
    <3>. QED BY <1>6, <3>1, <3>2 DEF Committed, FlushFails
  <2>4. Committed'
    BY <1>6, <2>3 DEF Committed, FlushFails, Up, Stamps
  <2>. QED BY <1>0, <1>6, <2>3, <2>4, NothingAdded DEF FlushFails, Up
<1>7. CASE Purge
  <2>1. \A e \in Entities : Stamps(AllSamples'[e]) \subseteq Stamps(AllSamples[e])
    BY <1>7, PurgedAll
  <2>2. Committed'
    BY <1>7 DEF Purge, Committed, Up
  <2>. QED BY <1>0, <1>7, <2>1, <2>2, NothingAdded DEF Purge, Up
<1>8. ASSUME Stop \/ Crash PROVE SpacingInv'
  <2>0. disk' = db' /\ pending' = <<>> /\ ~Up'
    BY <1>8 DEF Stop, Crash, Up
  <2>1. Committed' /\ ~Up' /\ AllSamples' = db'.samples
    BY <1>0, <2>0, NothingWaits DEF Committed, Up
  <2>2. \A e \in Entities : Stamps(AllSamples'[e]) \subseteq Stamps(AllSamples[e])
    <3>1. CASE Stop /\ pending # <<>>
      BY <3>1, FlushedAll DEF Stop
    <3>2. CASE Crash \/ pending = <<>>
      <4>1. db' = disk
        BY <1>8, <3>2 DEF Stop, Crash
      <4>2. ASSUME NEW e \in Entities
            PROVE  Stamps(db.samples[e]) \subseteq Stamps(AllSamples[e])
        BY SeriesOfAll, WrittenStamps DEF TypesOK, AllSamples
      <4>. QED BY <2>1, <4>1, <4>2 DEF Committed
    <3>. QED BY <1>8, <3>1, <3>2
  <2>. QED BY <1>0, <2>1, <2>2, NothingAdded
<1>9. CASE Start
  <2>1. /\ AllSamples = disk.samples /\ AllSamples' = AllSamples
        /\ UNCHANGED <<db, disk, pending>> /\ Up'
    BY <1>9, SeriesOfAll DEF Start, Committed, Up, AllSamples
  <2>2. \A e \in Entities : Stamps(AllSamples[e]) # {} => IsNewest(AllSamples[e], last'[e])
    BY <1>9, <2>1, SeriesOfAll, LastStoredIsNewest DEF Start
  <2>3. \A m \in Memory : m # None
    BY StorageAssumption DEF Memory, Times
  <2>4. NoneLater'
    BY <2>1, <2>2, <2>3, StorageAssumption DEF NoneLater, IsNewest, Stamps
  <2>5. Committed'
    BY <1>9, <2>1 DEF Committed, Stamps
  <2>6. NumericApart'
    BY <2>1 DEF NumericApart, Stamps
  <2>. QED BY <1>0, <2>4, <2>5, <2>6
<1>. QED BY <1>1, <1>3, <1>4, <1>5, <1>6, <1>7, <1>8, <1>9 DEF Next

-----------------------------------------------------------------------------
(* A flush that failed or a clock that was set back is never undone.       *)
LEMMA StillIntact ==
  ASSUME TypesOK, [Next]_vars, Intact'
  PROVE  Intact /\ ~FlushFails /\ ~StepBack
<1>1. /\ budget.steps \in Int /\ budget.errors \in Int
      /\ budget.steps <= StepBacks /\ budget.errors <= DbErrors
      /\ StepBacks \in Int /\ DbErrors \in Int
  BY StorageAssumption DEF TypesOK, BudgetOK
<1>2. ~FlushFails
  <2>1. FlushFails => budget'.errors = budget.errors - 1
    BY DEF FlushFails, TypesOK, BudgetOK
  <2>. QED BY <1>1, <2>1 DEF Intact
<1>3. ~StepBack
  <2>1. StepBack => budget'.steps = budget.steps - 1
    BY DEF StepBack, TypesOK, BudgetOK
  <2>. QED BY <1>1, <2>1 DEF Intact
<1>4. budget'.steps = budget.steps /\ budget'.errors = budget.errors
  <2>1. CASE UNCHANGED budget
    BY <2>1
  <2>2. ASSUME NEW e \in Entities, Remove(e) \/ Change(e)
        PROVE  budget'.steps = budget.steps /\ budget'.errors = budget.errors
    BY <2>2 DEF Remove, Change, TypesOK, BudgetOK
  <2>3. CASE Stop \/ Crash
    BY <2>3 DEF Stop, Crash, TypesOK, BudgetOK
  <2>4. ASSUME NEW e \in Entities, Report(e) \/ Discover(e) PROVE UNCHANGED budget
    BY <2>4 DEF Report, Discover
  <2>5. Flush \/ Purge \/ Start \/ Tick \/ UNCHANGED vars => UNCHANGED budget
    BY DEF Flush, Purge, Start, Tick, vars
  <2>. QED BY <1>2, <1>3, <2>1, <2>2, <2>3, <2>4, <2>5 DEF Next
<1>. QED BY <1>2, <1>3, <1>4 DEF Intact

(* The rows a flush writes are those of the newest samples.                *)
LEMMA FlushedRow ==
  ASSUME StorageInv, Intact, Up, NEW e \in Entities,
         Updated(db.row, pending)[e] \in Values, Stamps(AllSamples[e]) # {}
  PROVE  Updated(db.row, pending)[e] = Newest(AllSamples[e])
<1>. USE DEF StorageInv, SpacingInv
<1>1. /\ db.samples \in [Entities -> Series] /\ pending \in Seq(Sample)
      /\ db.row \in [Entities -> Values \cup {None, Absent}]
      /\ AllSamples[e] \in Series /\ db = disk
  BY SeriesOfAll DEF TypesOK, Undisturbed, Faultless
<1>2. Updated(db.row, pending)[e] =
        IF Own(pending, e) = {} \/ db.row[e] = Absent THEN db.row[e]
        ELSE pending[MaxOf(Own(pending, e))].val
  BY <1>1, UpdatedRow
<1>3. CASE Own(pending, e) = {}
  <2>1. \A t \in Times : Hits(pending, e, t) = {}
    BY <1>3 DEF Own, Hits
  <2>2. \A t \in Times : AllSamples[e][t] = db.samples[e][t]
    BY <1>1, <2>1, WrittenAt DEF AllSamples
  <2>3. AllSamples[e] = db.samples[e]
    BY <1>1, <2>2 DEF Series
  <2>. QED BY <1>1, <1>2, <1>3, <2>3 DEF RowIsNewest
<1>4. CASE db.row[e] = Absent
  BY <1>2, <1>4, StorageAssumption
<1>5. CASE Own(pending, e) # {} /\ db.row[e] # Absent
  <2>0. LastIsNewest(e)
    BY DEF Undisturbed, Faultless
  <2>1. IsNewest(AllSamples[e], last[e]) /\ pending[MaxOf(Own(pending, e))].val = last[e].val
    BY <1>5, <2>0 DEF LastIsNewest
  <2>. QED BY <1>2, <1>5, <2>1, NewestOf
<1>. QED BY <1>3, <1>4, <1>5

(* Purging leaves the newest sample of a series, or none.                  *)
LEMMA NewestStays ==
  ASSUME NEW old \in Series, NEW new \in Series, NEW m, IsNewest(old, m),
         Stamps(new) \subseteq Stamps(old), new[m.ts] = old[m.ts]
  PROVE  IsNewest(new, m)
BY DEF IsNewest, Stamps

LEMMA StorageInit == Init => StorageInv
<1>. SUFFICES ASSUME Init PROVE StorageInv
  OBVIOUS
<1>1. SpacingInv /\ TypesOK
  BY SpacingInit, TypesInit
<1>2. \A e \in Entities : Stamps(AllSamples[e]) = {} /\ Stamps(disk.samples[e]) = {}
  <2>1. AllSamples = db.samples
    BY <1>1, SeriesOfAll DEF Init
  <2>. QED BY <2>1 DEF Init, Stamps
<1>3. \A e \in Entities : Own(pending, e) = {}
  BY DEF Init, Own
<1>4. Undisturbed
  BY <1>2, <1>3 DEF Init, Undisturbed, Faultless, LastIsNewest
<1>. QED BY <1>1, <1>2, <1>4 DEF StorageInv, ShownIsLast, RowIsNewest

LEMMA ReportNext ==
  ASSUME StorageInv, SpacingInv', Intact, NEW e \in Entities, Report(e)
  PROVE  Faultless' /\ ShownIsLast' /\ RowIsNewest'
<1>. USE DEF StorageInv, SpacingInv
<1>0. /\ Up /\ flusher' = flusher /\ disk' = disk /\ db' = db /\ now' = now /\ budget' = budget
      /\ shown' = [shown EXCEPT ![e] = topic[e]]
  BY DEF Report
<1>1. RowIsNewest'
  BY <1>0 DEF RowIsNewest, Intact
<1>2. topic[e] \in Values /\ now \in Times /\ now \in Int
        /\ [ts |-> now, val |-> topic[e]] \in Memory
  BY DEF TypesOK, Times, Memory
<1>3. CASE Keeps(e, topic[e])
  <2>1. ASSUME NEW x \in Entities
        PROVE  /\ \A t \in Times : AllSamples'[x][t] =
                    IF x = e /\ t = now THEN topic[e] ELSE AllSamples[x][t]
               /\ last' = [last EXCEPT ![e] = [ts |-> now, val |-> topic[e]]]
               /\ x = e => /\ Own(pending', e) # {}
                           /\ pending'[MaxOf(Own(pending', e))]
                                = [id |-> e, ts |-> now, val |-> topic[e]]
               /\ x # e => /\ Own(pending', x) = Own(pending, x)
                           /\ \A i \in Own(pending, x) : pending'[i] = pending[i]
    BY <1>3, Kept
  <2>2. \A x \in Entities : \A s \in Stamps(AllSamples'[x]) : s <= now
    <3>1. ASSUME NEW x \in Entities, NEW s \in Stamps(AllSamples'[x]) PROVE s <= now
      <4>1. s = now \/ s \in Stamps(AllSamples[x])
        BY <2>1 DEF Stamps
      <4>. QED BY <1>2, <4>1 DEF Undisturbed, Faultless
    <3>. QED BY <3>1
  <2>3. last'[e] = [ts |-> now, val |-> topic[e]] /\ \A x \in Entities \ {e} : last'[x] = last[x]
    BY <2>1 DEF TypesOK
  <2>4. LastIsNewest(e)'
    <3>1. AllSamples'[e][now] = topic[e] /\ topic[e] # None
      BY <1>2, <2>1, StorageAssumption
    <3>2. IsNewest(AllSamples'[e], last'[e])
      BY <1>2, <2>2, <2>3, <3>1 DEF IsNewest, Stamps
    <3>. QED BY <2>1, <2>3, <3>2 DEF LastIsNewest
  <2>5. ASSUME NEW x \in Entities, x # e
        PROVE  LastIsNewest(x)' /\ Stamps(AllSamples'[x]) = Stamps(AllSamples[x])
    <3>1. \A t \in Times : AllSamples'[x][t] = AllSamples[x][t]
      BY <2>1, <2>5
    <3>2. Stamps(AllSamples'[x]) = Stamps(AllSamples[x])
      BY <3>1 DEF Stamps
    <3>3. LastIsNewest(x)
      BY <1>0 DEF Undisturbed, Faultless
    <3>4. last'[x] = last[x]
      BY <2>3, <2>5
    <3>5. Stamps(AllSamples'[x]) # {} => IsNewest(AllSamples'[x], last'[x])
      BY <3>1, <3>2, <3>3, <3>4 DEF LastIsNewest, IsNewest, Stamps
    <3>6. Own(pending, x) # {} => MaxOf(Own(pending, x)) \in Own(pending, x)
      BY QueueBounds, Extremes DEF TypesOK
    <3>7. Own(pending', x) = Own(pending, x) /\ \A i \in Own(pending, x) : pending'[i] = pending[i]
      BY <2>1, <2>5
    <3>8. Own(pending', x) # {} =>
            pending'[MaxOf(Own(pending', x))] = [id |-> x, ts |-> last'[x].ts, val |-> last'[x].val]
      BY <3>3, <3>4, <3>6, <3>7 DEF LastIsNewest
    <3>. QED BY <3>2, <3>5, <3>8 DEF LastIsNewest
  <2>6. Faultless'
    BY <1>0, <2>2, <2>4, <2>5 DEF Undisturbed, Faultless
  <2>7. ShownIsLast'
    <3>1. ASSUME NEW x \in Entities \ Numeric, shown'[x] \in Values, Stamps(AllSamples'[x]) # {}
          PROVE  last'[x].val = shown'[x]
      <4>1. CASE x = e
        BY <1>0, <2>3, <4>1 DEF TypesOK
      <4>2. CASE x # e
        BY <1>0, <2>3, <2>5, <3>1, <4>2 DEF ShownIsLast, TypesOK
      <4>. QED BY <4>1, <4>2
    <3>. QED BY <3>1 DEF ShownIsLast
  <2>. QED BY <1>1, <2>6, <2>7
<1>4. CASE ~Keeps(e, topic[e])
  <2>1. UNCHANGED <<db, disk, pending, last, AllSamples>>
    BY <1>4, Unkept
  <2>2. Faultless'
    BY <1>0, <2>1 DEF Undisturbed, Faultless, LastIsNewest, Up
  <2>3. ASSUME NEW x \in Entities \ Numeric, shown'[x] \in Values, Stamps(AllSamples'[x]) # {}
        PROVE  last'[x].val = shown'[x]
    <3>1. CASE x = e
      <4>1. last[e].val = topic[e]
        BY <1>4, <3>1 DEF Keeps, Changed
      <4>. QED BY <1>0, <2>1, <3>1, <4>1 DEF TypesOK
    <3>2. CASE x # e
      BY <1>0, <2>1, <2>3, <3>2 DEF ShownIsLast, TypesOK
    <3>. QED BY <3>1, <3>2
  <2>. QED BY <1>1, <2>2, <2>3 DEF ShownIsLast
<1>. QED BY <1>3, <1>4

LEMMA FlushNext ==
  ASSUME StorageInv, SpacingInv', Intact, Flush
  PROVE  Faultless' /\ ShownIsLast' /\ RowIsNewest'
<1>. USE DEF StorageInv, SpacingInv
<1>0. /\ Up /\ Up' /\ disk' = db' /\ db' = Flushed(db, pending) /\ pending' = <<>>
      /\ UNCHANGED <<shown, last, now, flusher, budget>>
  BY DEF Flush, Up
<1>1. AllSamples' = AllSamples /\ disk'.samples = AllSamples
  BY <1>0, FlushedAll
<1>2. \A e \in Entities : disk'.row[e] = Updated(db.row, pending)[e]
  BY <1>0 DEF Flushed
<1>3. RowIsNewest'
  BY <1>0, <1>1, <1>2, FlushedRow DEF RowIsNewest
<1>4. \A e \in Entities : Own(pending', e) = {}
  BY <1>0 DEF Own
<1>5. Faultless'
  BY <1>0, <1>1, <1>4 DEF Undisturbed, Faultless, LastIsNewest
<1>6. ShownIsLast'
  BY <1>0, <1>1 DEF ShownIsLast
<1>. QED BY <1>3, <1>5, <1>6

LEMMA PurgeNext ==
  ASSUME StorageInv, SpacingInv', Intact, Purge
  PROVE  Faultless' /\ ShownIsLast' /\ RowIsNewest'
<1>. USE DEF StorageInv, SpacingInv
<1>0. /\ Up /\ Up' /\ disk' = db' /\ db' = [db EXCEPT !.samples = Purged(db.samples)]
      /\ UNCHANGED <<shown, pending, last, now, flusher, budget>>
  BY DEF Purge, Up
<1>1. /\ db = disk /\ db.samples \in [Entities -> Series] /\ pending \in Seq(Sample)
      /\ disk'.samples = Purged(db.samples) /\ disk'.row = disk.row
      /\ now \in Times /\ now - Retention \in Int
  BY <1>0, SeriesOfAll, StorageAssumption DEF Undisturbed, Faultless, TypesOK, Tables, Times
<1>2. ASSUME NEW e \in Entities
      PROVE  /\ \A t \in Times : AllSamples'[e][t] =
                  IF t < now - Retention /\ Hits(pending, e, t) = {} THEN None ELSE AllSamples[e][t]
             /\ Stamps(AllSamples'[e]) \subseteq Stamps(AllSamples[e])
             /\ AllSamples[e] \in Series /\ AllSamples'[e] \in Series
  <2>1. db'.samples \in [Entities -> Series] /\ pending' \in Seq(Sample)
    BY DEF TypesOK, Tables
  <2>2. AllSamples'[e] \in Series
    BY <2>1, WrittenStamps DEF AllSamples
  <2>. QED BY <2>2, PurgedAll, SeriesOfAll
<1>3. ASSUME NEW e \in Entities PROVE LastIsNewest(e)'
  <2>1. LastIsNewest(e)
    BY <1>0 DEF Undisturbed, Faultless
  <2>2. ASSUME Stamps(AllSamples'[e]) # {}
        PROVE  IsNewest(AllSamples'[e], last'[e])
    <3>1. PICK s \in Stamps(AllSamples'[e]) : TRUE
      BY <2>2
    <3>2. IsNewest(AllSamples[e], last[e]) /\ s <= last[e].ts
      BY <1>2, <2>1, <3>1 DEF LastIsNewest, IsNewest
    <3>3. last[e].ts \in Times /\ s \in Times /\ last[e].ts \in Int /\ s \in Int
      BY <3>1, <3>2 DEF IsNewest, Stamps, Times
    <3>4. AllSamples'[e][last[e].ts] = AllSamples[e][last[e].ts]
      <4>1. CASE Own(pending, e) = {}
        <5>1. Hits(pending, e, s) = {}
          BY <4>1 DEF Own, Hits
        <5>2. AllSamples'[e][s] # None
          BY <3>1 DEF Stamps
        <5>3. ~(s < now - Retention)
          BY <1>2, <3>3, <5>1, <5>2
        <5>4. ~(last[e].ts < now - Retention)
          BY <1>1, <3>2, <3>3, <5>3
        <5>. QED BY <1>2, <3>3, <5>4
      <4>2. CASE Own(pending, e) # {}
        <5>1. /\ pending[MaxOf(Own(pending, e))].ts = last[e].ts
              /\ Hits(pending, e, pending[MaxOf(Own(pending, e))].ts) # {}
          BY <1>1, <2>1, <4>2, LastOneWritten DEF LastIsNewest
        <5>. QED BY <1>2, <3>3, <5>1
      <4>. QED BY <4>1, <4>2
    <3>. QED BY <1>0, <1>2, <3>2, <3>4, NewestStays
  <2>. QED BY <1>0, <2>1, <2>2 DEF LastIsNewest
<1>4. Faultless'
  BY <1>0, <1>2, <1>3 DEF Undisturbed, Faultless
<1>5. ShownIsLast'
  BY <1>0, <1>2 DEF ShownIsLast
<1>6. RowIsNewest'
  <2>1. ASSUME NEW e \in Entities, disk'.row[e] \in Values, Stamps(disk'.samples[e]) # {}
        PROVE  disk'.row[e] = Newest(disk'.samples[e])
    <3>1. PICK s \in Stamps(Purged(db.samples)[e]) : TRUE
      BY <1>1, <2>1
    <3>2. /\ \A t : t \in Stamps(Purged(db.samples)[e]) <=>
               t \in Stamps(db.samples[e]) /\ now - Retention <= t
          /\ \A t \in Times : Purged(db.samples)[e][t] =
               IF t < now - Retention THEN None ELSE db.samples[e][t]
          /\ Purged(db.samples)[e] \in Series /\ db.samples[e] \in Series
      BY <1>1, PurgedStamps
    <3>3. PICK m : IsNewest(db.samples[e], m)
      BY <3>1, <3>2, HasNewest
    <3>4. s <= m.ts /\ m.ts \in Times /\ s \in Int /\ m.ts \in Int /\ now - Retention <= s
      BY <3>1, <3>2, <3>3 DEF IsNewest, Stamps, Times
    <3>5. Purged(db.samples)[e][m.ts] = db.samples[e][m.ts]
      BY <1>1, <3>2, <3>4
    <3>6. IsNewest(Purged(db.samples)[e], m)
      BY <3>2, <3>3, <3>5, NewestStays
    <3>7. Newest(Purged(db.samples)[e]) = Newest(db.samples[e]) /\ Stamps(db.samples[e]) # {}
      BY <3>3, <3>6, NewestOf
    <3>. QED BY <1>1, <2>1, <3>7 DEF RowIsNewest
  <2>. QED BY <2>1 DEF RowIsNewest
<1>. QED BY <1>4, <1>5, <1>6

LEMMA DownNext ==
  ASSUME StorageInv, SpacingInv', Intact, Stop \/ Crash
  PROVE  Faultless' /\ ShownIsLast' /\ RowIsNewest'
<1>. USE DEF StorageInv, SpacingInv
<1>0. /\ Up /\ ~Up' /\ flusher' # "dead" /\ disk' = db' /\ now' = now /\ db = disk /\ pending' = <<>>
  BY DEF Stop, Crash, Up, Undisturbed, Faultless
<1>1. ShownIsLast'
  BY <1>0 DEF ShownIsLast
<1>2. CASE disk' = Flushed(db, pending)
  <2>1. AllSamples' = AllSamples /\ disk'.samples = AllSamples
    BY <1>0, <1>2, FlushedAll
  <2>2. \A e \in Entities : disk'.row[e] = Updated(db.row, pending)[e]
    BY <1>2 DEF Flushed
  <2>3. RowIsNewest'
    BY <1>0, <2>1, <2>2, FlushedRow DEF RowIsNewest
  <2>4. Faultless'
    BY <1>0, <2>1 DEF Undisturbed, Faultless
  <2>. QED BY <1>1, <2>3, <2>4
<1>3. CASE disk' = disk
  <2>1. RowIsNewest'
    BY <1>3 DEF RowIsNewest
  <2>2. AllSamples' = db.samples
    BY <1>0, <1>3, NothingWaits
  <2>3. \A e \in Entities : Stamps(AllSamples'[e]) \subseteq Stamps(AllSamples[e])
    BY <2>2, SeriesOfAll, WrittenStamps DEF TypesOK, AllSamples
  <2>4. Faultless'
    BY <1>0, <2>3 DEF Undisturbed, Faultless
  <2>. QED BY <1>1, <2>1, <2>4
<1>4. disk' = Flushed(db, pending) \/ disk' = disk
  BY <1>0 DEF Stop, Crash
<1>. QED BY <1>2, <1>3, <1>4

LEMMA StartNext ==
  ASSUME StorageInv, SpacingInv', Intact, Start
  PROVE  Faultless' /\ ShownIsLast' /\ RowIsNewest'
<1>. USE DEF StorageInv, SpacingInv
<1>0. /\ ~Up /\ Up' /\ flusher' = "running" /\ shown' = disk.row /\ last' = LastStored(disk.samples)
      /\ UNCHANGED <<db, disk, pending, now, budget>>
      /\ db = disk /\ pending = <<>>
  BY DEF Start, Up, Committed
<1>1. AllSamples = disk.samples /\ AllSamples' = AllSamples /\ disk.samples \in [Entities -> Series]
  BY <1>0, SeriesOfAll DEF AllSamples
<1>2. \A e \in Entities : Stamps(AllSamples'[e]) # {} => IsNewest(AllSamples'[e], last'[e])
  BY <1>0, <1>1, LastStoredIsNewest
<1>3. Faultless'
  BY <1>0, <1>1, <1>2 DEF Undisturbed, Faultless, LastIsNewest, Own
<1>4. ASSUME NEW e \in Entities \ Numeric, shown'[e] \in Values, Stamps(AllSamples'[e]) # {}
      PROVE  last'[e].val = shown'[e]
  <2>1. shown'[e] = Newest(disk.samples[e])
    BY <1>0, <1>1, <1>4 DEF RowIsNewest
  <2>. QED BY <1>1, <1>2, <1>4, <2>1, NewestOf
<1>5. RowIsNewest'
  BY <1>0 DEF RowIsNewest
<1>. QED BY <1>3, <1>4, <1>5 DEF ShownIsLast

LEMMA OthersNext ==
  ASSUME StorageInv, SpacingInv', Intact,
         (\E e \in Entities : Discover(e) \/ Remove(e) \/ Change(e)) \/ Tick \/ UNCHANGED vars
  PROVE  Faultless' /\ ShownIsLast' /\ RowIsNewest'
<1>. USE DEF StorageInv, SpacingInv
<1>1. ASSUME NEW e \in Entities, Discover(e) \/ Remove(e)
      PROVE  Faultless' /\ ShownIsLast' /\ RowIsNewest'
  <2>1. /\ db = disk /\ disk' = db' /\ db'.samples = db.samples
        /\ UNCHANGED <<pending, last, now, flusher>> /\ Up
    BY <1>1 DEF Discover, Remove, Undisturbed, Faultless, TypesOK, Tables
  <2>2. AllSamples' = AllSamples
    BY <2>1 DEF AllSamples
  <2>3. Faultless'
    BY <2>1, <2>2 DEF Undisturbed, Faultless, LastIsNewest, Up
  <2>4. ASSUME NEW x \in Entities
        PROVE  /\ shown'[x] \in Values => shown'[x] = shown[x]
               /\ db'.row[x] \in Values => db'.row[x] = db.row[x]
    <3>1. shown'[x] \in {shown[x], None, Absent}
      BY <1>1 DEF Discover, Remove, TypesOK
    <3>2. db'.row[x] \in {db.row[x], None, Absent}
      BY <1>1 DEF Discover, Remove, Saved, TypesOK, Tables
    <3>. QED BY <3>1, <3>2, StorageAssumption
  <2>5. ASSUME NEW x \in Entities \ Numeric, shown'[x] \in Values, Stamps(AllSamples'[x]) # {}
        PROVE  last'[x].val = shown'[x]
    <3>1. shown'[x] = shown[x]
      BY <2>4, <2>5
    <3>. QED BY <2>1, <2>2, <2>5, <3>1 DEF ShownIsLast
  <2>6. ASSUME NEW x \in Entities, disk'.row[x] \in Values, Stamps(disk'.samples[x]) # {}
        PROVE  disk'.row[x] = Newest(disk'.samples[x])
    <3>1. disk'.row[x] = disk.row[x] /\ disk'.samples = disk.samples
      BY <2>1, <2>4, <2>6
    <3>. QED BY <2>6, <3>1 DEF RowIsNewest
  <2>. QED BY <2>3, <2>5, <2>6 DEF ShownIsLast, RowIsNewest
<1>2. CASE (\E e \in Entities : Change(e)) \/ Tick \/ UNCHANGED vars
  <2>1. UNCHANGED <<db, disk, pending, last, shown, flusher>>
    BY <1>2 DEF Change, Tick, vars
  <2>2. now' \in Int /\ now \in Int /\ now <= now'
    <3>1. now \in Int
      BY DEF TypesOK, Times
    <3>. QED BY <1>2, <3>1 DEF Change, Tick, vars
  <2>3. AllSamples' = AllSamples /\ \A e \in Entities : \A s \in Stamps(AllSamples[e]) : s \in Int
    BY <2>1 DEF AllSamples, Stamps, Times
  <2>4. \A e \in Entities : \A s \in Stamps(AllSamples'[e]) : s <= now'
    BY <2>2, <2>3 DEF Undisturbed, Faultless
  <2>5. Faultless'
    BY <2>1, <2>3, <2>4 DEF Undisturbed, Faultless, LastIsNewest, Up
  <2>. QED BY <2>1, <2>3, <2>5 DEF ShownIsLast, RowIsNewest, Up
<1>. QED BY <1>1, <1>2

LEMMA StorageNext == StorageInv /\ [Next]_vars => StorageInv'
<1>. SUFFICES ASSUME StorageInv, [Next]_vars PROVE StorageInv'
  OBVIOUS
<1>1. SpacingInv'
  BY SpacingNext DEF StorageInv
<1>2. ASSUME Intact' PROVE Faultless' /\ ShownIsLast' /\ RowIsNewest'
  <2>1. Intact /\ ~FlushFails /\ ~StepBack
    BY <1>2, StillIntact DEF StorageInv, SpacingInv
  <2>. QED
    BY <1>1, <2>1, ReportNext, FlushNext, PurgeNext, DownNext, StartNext, OthersNext DEF Next
<1>3. ShownIsLast' /\ RowIsNewest' /\ Undisturbed'
  BY <1>2 DEF ShownIsLast, RowIsNewest, Undisturbed
<1>. QED BY <1>1, <1>3 DEF StorageInv

LEMMA ShownIsCurrent == StorageInv => HistoryCurrent
<1>. SUFFICES ASSUME StorageInv, Up, Intact, NEW e \in Entities \ Numeric,
                     shown[e] \in Values, Stamps(AllSamples[e]) # {}
              PROVE  Newest(AllSamples[e]) = shown[e]
  BY DEF HistoryCurrent
<1>1. last[e].val = shown[e]
  BY DEF StorageInv, ShownIsLast
<1>2. IsNewest(AllSamples[e], last[e])
  BY DEF StorageInv, Undisturbed, Faultless, LastIsNewest
<1>. QED BY <1>1, <1>2, NewestOf

(* storage.py:84, two samples of a numeric entity are never closer than    *)
(* min_interval_seconds, whatever crashes, failing flushes, removals and a *)
(* clock that is set back make of record's memory.                         *)
THEOREM SamplesApart == Spec => []NumericApart
<1>1. SpacingInv => NumericApart
  BY DEF SpacingInv
<1>. QED BY <1>1, SpacingInit, SpacingNext, PTL DEF Spec

(* storage.py:104, the row a restart restores an entity from holds its     *)
(* newest sample in the file, after any crash, purge and rediscovery.      *)
THEOREM RowsAreNewest == Spec => []RowIsNewest
<1>1. StorageInv => RowIsNewest
  BY DEF StorageInv
<1>. QED BY <1>1, StorageInit, StorageNext, PTL DEF Spec

(* storage.py:75, the newest sample of an entity that is not numeric,      *)
(* written or waiting, is the state shown, also after a restart.           *)
THEOREM HistoryIsCurrent == Spec => []HistoryCurrent
BY ShownIsCurrent, StorageInit, StorageNext, PTL DEF Spec

-----------------------------------------------------------------------------
(* Charts.                                                                 *)

(* The points history answers with.                                        *)
ChartPoints == [t : Int, order : Int, vals : SUBSET Values]

(* A point that no point not after t follows is shown at t, and alone when *)
(* every other one comes before it.                                        *)
LEMMA LevelShows ==
  ASSUME NEW chart \in SUBSET ChartPoints, NEW t \in Int, NEW p \in chart, p.t <= t,
         \A q \in chart : q.t <= t => q.t < p.t \/ (q.t = p.t /\ q.order <= p.order)
  PROVE  /\ p.vals \subseteq Level(chart, t)
         /\ (\A q \in chart : q.t = p.t /\ q.order = p.order => q = p)
              => Level(chart, t) = p.vals
<1>. DEFINE past == {q \in chart : q.t <= t}
<1>. DEFINE top == {x \in past : \A q \in past : q.t < x.t \/ (q.t = x.t /\ q.order <= x.order)}
<1>1. p \in top /\ Level(chart, t) = UNION {x.vals : x \in top}
  BY DEF Level
<1>2. \A q \in chart : q.t \in Int /\ q.order \in Int
  BY DEF ChartPoints
<1>3. ASSUME NEW x \in top PROVE x.t = p.t /\ x.order = p.order
  <2>1. p \in past /\ x \in past
    OBVIOUS
  <2>2. /\ x.t < p.t \/ (x.t = p.t /\ x.order <= p.order)
        /\ p.t < x.t \/ (p.t = x.t /\ p.order <= x.order)
    BY <2>1
  <2>. QED BY <1>2, <2>1, <2>2
<1>4. \A x \in top : x \in chart
  OBVIOUS
<1>. HIDE DEF top
<1>5. ASSUME \A q \in chart : q.t = p.t /\ q.order = p.order => q = p
      PROVE  top = {p}
  BY <1>1, <1>3, <1>4, <1>5
<1>. QED BY <1>1, <1>5

LEMMA LatestStamp ==
  ASSUME NEW series \in Series, NEW t, AtOrBefore(series, t) # {}
  PROVE  LET m == MaxOf(AtOrBefore(series, t))
         IN /\ m \in Stamps(series) /\ m \in Int /\ m <= t
            /\ \A s \in Stamps(series) : s <= t => s <= m
            /\ series[m] \in Values /\ ValueAt(series, t) = series[m]
<1>. DEFINE m == MaxOf(AtOrBefore(series, t))
<1>1. AtOrBefore(series, t) \in SUBSET (0 .. MaxTime) /\ MaxTime \in Nat
  BY StampsBounded DEF AtOrBefore
<1>2. m \in AtOrBefore(series, t) /\ \A s \in AtOrBefore(series, t) : s <= m
  BY <1>1, Extremes
<1>3. ValueAt(series, t) = series[m]
  BY DEF ValueAt
<1>. HIDE DEF m
<1>4. m \in Stamps(series) /\ m <= t /\ \A s \in Stamps(series) : s <= t => s <= m
  BY <1>2 DEF AtOrBefore
<1>5. m \in Times /\ series[m] \in Values
  BY <1>4 DEF Stamps, Series
<1>. QED BY <1>3, <1>4, <1>5 DEF m, Times

(* The point that carries the level before the window.                     *)
LEMMA LeadPoint ==
  ASSUME NEW series \in Series, NEW start \in Int, NEW p \in Lead(series, start)
  PROVE  /\ p \in ChartPoints /\ p.t = start /\ p.order = 0
         /\ Lead(series, start) = {p}
<1>. DEFINE older == {s \in Stamps(series) : s < start}
<1>1. older # {} /\ p = [t |-> start, order |-> 0, vals |-> {series[MaxOf(older)]}]
        /\ Lead(series, start) = {p}
  BY DEF Lead
<1>2. older \in SUBSET (0 .. MaxTime) /\ MaxTime \in Nat
  BY StampsBounded
<1>3. MaxOf(older) \in older
  BY <1>1, <1>2, Extremes
<1>. HIDE DEF older
<1>4. series[MaxOf(older)] \in Values
  BY <1>3 DEF older, Stamps, Series
<1>. QED BY <1>1, <1>4 DEF ChartPoints

(* The chart of all samples shows the value in force at every second.      *)
LEMMA AllPointsShown ==
  ASSUME NEW series \in Series, NEW start \in Int, NEW end \in Int, NEW t \in start .. end,
         AtOrBefore(series, t) # {}
  PROVE  Level(Lead(series, start) \cup Points(series, start, end), t) = {ValueAt(series, t)}
<1>. DEFINE m == MaxOf(AtOrBefore(series, t))
<1>. DEFINE chart == Lead(series, start) \cup Points(series, start, end)
<1>1. /\ m \in Stamps(series) /\ m \in Int /\ m <= t
      /\ \A s \in Stamps(series) : s <= t => s <= m
      /\ series[m] \in Values /\ ValueAt(series, t) = series[m]
  BY LatestStamp
<1>. HIDE DEF m
<1>2. ASSUME NEW p \in Points(series, start, end)
      PROVE  /\ p \in ChartPoints /\ p.order = 1 /\ p.t \in Stamps(series) /\ start <= p.t
             /\ p.vals = {series[p.t]} /\ p = [t |-> p.t, order |-> 1, vals |-> {series[p.t]}]
  <2>1. PICK s \in InWindow(series, start, end) : p = [t |-> s, order |-> 1, vals |-> {series[s]}]
    BY DEF Points
  <2>2. s \in Stamps(series) /\ start <= s /\ s \in Times /\ series[s] \in Values /\ s \in Int
    BY DEF InWindow, Stamps, Series, Times
  <2>3. p \in ChartPoints
    BY <2>1, <2>2 DEF ChartPoints
  <2>. QED BY <2>1, <2>2, <2>3
<1>3. chart \in SUBSET ChartPoints
  BY <1>2, LeadPoint
<1>4. \A s \in Stamps(series) : s \in Int
  BY DEF Stamps, Times
<1>5. CASE start <= m
  <2>. DEFINE p == [t |-> m, order |-> 1, vals |-> {series[m]}]
  <2>1. p \in chart
    BY <1>1, <1>5 DEF Points, InWindow
  <2>2. p.t = m /\ p.order = 1 /\ p.vals = {series[m]}
    OBVIOUS
  <2>3. ASSUME NEW q \in chart, q.t <= t
        PROVE  q.t < m \/ (q.t = m /\ q.order <= 1)
    <3>1. CASE q \in Lead(series, start)
      BY <1>1, <1>5, <3>1, LeadPoint
    <3>2. CASE q \in Points(series, start, end)
      BY <1>1, <1>2, <1>4, <2>3, <3>2
    <3>. QED BY <3>1, <3>2
  <2>4. ASSUME NEW q \in chart, q.t = m, q.order = 1 PROVE q = p
    <3>1. q \in Points(series, start, end)
      BY <2>4, LeadPoint
    <3>. QED BY <1>2, <2>4, <3>1
  <2>. HIDE DEF p, chart
  <2>5. Level(chart, t) = p.vals
    BY <1>1, <1>3, <2>1, <2>2, <2>3, <2>4, LevelShows
  <2>. QED BY <1>1, <2>2, <2>5 DEF chart
<1>6. CASE m < start
  <2>. DEFINE older == {s \in Stamps(series) : s < start}
  <2>1. older # {} /\ older \in SUBSET (0 .. MaxTime) /\ MaxTime \in Nat /\ m \in older
    BY <1>1, <1>6, StampsBounded
  <2>2. \A s \in older : s <= m
    BY <1>1, <1>4
  <2>3. MaxOf(older) = m
    BY <2>1, <2>2, MaxIs
  <2>4. Lead(series, start) = {[t |-> start, order |-> 0, vals |-> {series[m]}]}
    BY <2>1, <2>3 DEF Lead
  <2>. DEFINE p == [t |-> start, order |-> 0, vals |-> {series[m]}]
  <2>5. p \in chart /\ p.t = start /\ p.order = 0 /\ p.vals = {series[m]}
    BY <2>4
  <2>6. ASSUME NEW q \in chart, q.t <= t PROVE q = p
    <3>1. CASE q \in Points(series, start, end)
      BY <1>1, <1>2, <1>4, <1>6, <2>6, <3>1
    <3>. QED BY <2>4, <3>1
  <2>. HIDE DEF p, chart
  <2>7. \A q \in chart : q.t <= t => q.t < p.t \/ (q.t = p.t /\ q.order <= p.order)
    BY <2>5, <2>6
  <2>8. ASSUME NEW q \in chart, q.t = p.t /\ q.order = p.order PROVE q = p
    BY <2>5, <2>6, <2>8
  <2>9. Level(chart, t) = p.vals
    BY <1>3, <2>5, <2>7, <2>8, LevelShows
  <2>. QED BY <1>1, <2>5, <2>9 DEF chart
<1>. QED BY <1>1, <1>5, <1>6

-----------------------------------------------------------------------------
(* Buckets.                                                                *)

LEMMA ProductGrows ==
  ASSUME NEW a \in Int, NEW b \in Int, NEW d \in Nat, a <= b
  PROVE  a * d <= b * d
<1>1. b - a \in Nat
  OBVIOUS
<1>2. (b - a) * d \in Nat
  BY <1>1
<1>3. (b - a) * d = b * d - a * d
  OBVIOUS
<1>4. a * d \in Int /\ b * d \in Int
  OBVIOUS
<1>. QED BY <1>2, <1>3, <1>4

LEMMA Division ==
  ASSUME NEW a \in Nat, NEW d \in Nat \ {0}
  PROVE  /\ a \div d \in Nat /\ (a \div d) * d \in Nat
         /\ (a \div d) * d <= a /\ a < (a \div d) * d + d
BY SMTT(30)

(* The start of a bucket is the last one not after any second in it.       *)
LEMMA BucketStarts ==
  ASSUME NEW a \in Nat, NEW c \in Nat, NEW d \in Nat \ {0}, (c \div d) * d <= a
  PROVE  c \div d <= a \div d /\ (c \div d) * d <= (a \div d) * d
<1>. DEFINE x == c \div d
<1>. DEFINE y == a \div d
<1>1. x \in Nat /\ y \in Nat /\ a < y * d + d /\ x * d <= a
  BY Division
<1>. HIDE DEF x, y
<1>2. ASSUME y + 1 <= x PROVE FALSE
  <2>1. (y + 1) * d <= x * d
    BY <1>1, <1>2, ProductGrows
  <2>2. (y + 1) * d = y * d + d /\ y * d \in Int /\ x * d \in Int
    BY <1>1
  <2>. QED BY <1>1, <2>1, <2>2
<1>3. x <= y
  BY <1>1, <1>2
<1>4. x * d <= y * d
  BY <1>1, <1>3, ProductGrows
<1>. QED BY <1>3, <1>4 DEF x, y

(* bucket seconds times max_points cover the window.                       *)
LEMMA BucketCovers ==
  ASSUME NEW start \in Nat, NEW end \in Nat, start < end
  PROVE  /\ Bucket(start, end) \in Nat \ {0}
         /\ end - start <= MaxPoints * Bucket(start, end)
<1>. DEFINE c == (end - start + MaxPoints - 1) \div MaxPoints
<1>0. MaxPoints \in Nat \ {0} /\ end - start + MaxPoints - 1 \in Nat
  BY StorageAssumption
<1>1. c \in Nat /\ end - start + MaxPoints - 1 < c * MaxPoints + MaxPoints
  BY <1>0, Division
<1>2. Bucket(start, end) = MaxOf({1, c})
  BY DEF Bucket
<1>. HIDE DEF c
<1>3. c * MaxPoints \in Int /\ MaxPoints \in Int /\ c * MaxPoints = MaxPoints * c
  BY <1>0, <1>1
<1>4. end - start <= MaxPoints * c
  BY <1>0, <1>1, <1>3
<1>5. c # 0
  <2>1. c = 0 => MaxPoints * c = 0
    BY <1>0
  <2>. QED BY <1>4, <2>1
<1>6. {1, c} \in SUBSET (0 .. c) /\ \A y \in {1, c} : y <= c
  BY <1>1, <1>5
<1>7. MaxOf({1, c}) = c
  BY <1>1, <1>6, MaxIs
<1>. QED BY <1>1, <1>2, <1>4, <1>5, <1>7

LEMMA MaxOfTwo ==
  ASSUME NEW a \in Nat, NEW c \in Nat
  PROVE  MaxOf({a, c}) = IF a < c THEN c ELSE a
<1>1. CASE a < c
  <2>1. {a, c} \in SUBSET (0 .. c) /\ c \in {a, c} /\ \A y \in {a, c} : y <= c
    BY <1>1
  <2>. QED BY <1>1, <2>1, MaxIs
<1>2. CASE ~(a < c)
  <2>1. {a, c} \in SUBSET (0 .. a) /\ a \in {a, c} /\ \A y \in {a, c} : y <= a
    BY <1>2
  <2>. QED BY <1>2, <2>1, MaxIs
<1>. QED BY <1>1, <1>2

(* The bucket a second falls in, and the point of the bucket from f on.    *)
FloorOf(s, b) == (s \div b) * b

BucketPoint(series, start, end, f) ==
  [t |-> MaxOf({f, start}), order |-> 1,
   vals |-> {series[s] : s \in {x \in InWindow(series, start, end) :
                                  FloorOf(x, Bucket(start, end)) = f}}]

LEMMA BucketPointShape ==
  ASSUME NEW series \in Series, NEW start \in Nat, NEW end \in Nat, start < end
  PROVE  /\ \A s \in InWindow(series, start, end) :
              LET p == BucketPoint(series, start, end, FloorOf(s, Bucket(start, end)))
              IN p \in BucketPoints(series, start, end) /\ series[s] \in p.vals
         /\ \A p \in BucketPoints(series, start, end) :
              \E s \in InWindow(series, start, end) :
                 p = BucketPoint(series, start, end, FloorOf(s, Bucket(start, end)))
<1>1. BucketPoints(series, start, end) =
        {BucketPoint(series, start, end, f) :
           f \in {FloorOf(s, Bucket(start, end)) : s \in InWindow(series, start, end)}}
  BY DEF BucketPoints, BucketPoint, FloorOf
<1>2. \A s \in InWindow(series, start, end) :
        series[s] \in BucketPoint(series, start, end, FloorOf(s, Bucket(start, end))).vals
  BY DEF BucketPoint
<1>. HIDE DEF BucketPoint, FloorOf
<1>. QED BY <1>1, <1>2

(* Where the point of the bucket of second s lies.                         *)
LEMMA BucketPointAt ==
  ASSUME NEW series \in Series, NEW start \in Nat, NEW end \in Nat, start < end,
         NEW s \in InWindow(series, start, end)
  PROVE  LET f == FloorOf(s, Bucket(start, end))
             p == BucketPoint(series, start, end, f)
         IN /\ s \in Nat /\ start <= s /\ s <= end /\ f \in Nat /\ f <= s
            /\ p.t = (IF f < start THEN start ELSE f) /\ p.order = 1
            /\ p \in ChartPoints
<1>. DEFINE b == Bucket(start, end)
<1>. DEFINE f == FloorOf(s, b)
<1>1. s \in Stamps(series) /\ start <= s /\ s <= end /\ s \in Nat
  BY DEF InWindow, Stamps, Times
<1>2. b \in Nat \ {0}
  BY BucketCovers
<1>. HIDE DEF b
<1>3. f \in Nat /\ f <= s
  BY <1>1, <1>2, Division DEF FloorOf
<1>. HIDE DEF f
<1>4. MaxOf({f, start}) = IF f < start THEN start ELSE f
  BY <1>3, MaxOfTwo
<1>5. BucketPoint(series, start, end, f).t = (IF f < start THEN start ELSE f)
        /\ BucketPoint(series, start, end, f).order = 1
  BY <1>4 DEF BucketPoint
<1>6. {series[x] : x \in {y \in InWindow(series, start, end) : FloorOf(y, b) = f}}
        \in SUBSET Values
  <2>1. \A x \in InWindow(series, start, end) : series[x] \in Values
    BY DEF InWindow, Stamps, Series
  <2>. QED BY <2>1
<1>7. (IF f < start THEN start ELSE f) \in Int
  BY <1>3
<1>8. BucketPoint(series, start, end, f) \in ChartPoints
  BY <1>4, <1>6, <1>7 DEF BucketPoint, ChartPoints, b
<1>. QED BY <1>1, <1>3, <1>5, <1>8 DEF f, b

(* No sample lies outside the bucket the chart shows at its second.        *)
LEMMA BucketShown ==
  ASSUME NEW series \in Series, NEW start \in Nat, NEW end \in Nat, start < end,
         NEW t \in InWindow(series, start, end)
  PROVE  series[t] \in Level(Lead(series, start) \cup BucketPoints(series, start, end), t)
<1>. DEFINE b == Bucket(start, end)
<1>. DEFINE chart == Lead(series, start) \cup BucketPoints(series, start, end)
<1>0. PICK p : p = BucketPoint(series, start, end, FloorOf(t, b))
  OBVIOUS
<1>1. b \in Nat \ {0}
  BY BucketCovers
<1>2. p \in BucketPoints(series, start, end) /\ series[t] \in p.vals
  BY <1>0, BucketPointShape
<1>3. /\ t \in Nat /\ start <= t /\ FloorOf(t, b) \in Nat /\ FloorOf(t, b) <= t
      /\ p.t = (IF FloorOf(t, b) < start THEN start ELSE FloorOf(t, b)) /\ p.order = 1
  BY <1>0, BucketPointAt
<1>4. ASSUME NEW q \in BucketPoints(series, start, end)
      PROVE  \E s \in InWindow(series, start, end) :
               /\ s \in Nat /\ FloorOf(s, b) \in Nat /\ q \in ChartPoints /\ q.order = 1
               /\ q.t = (IF FloorOf(s, b) < start THEN start ELSE FloorOf(s, b))
  <2>1. PICK s \in InWindow(series, start, end) :
          q = BucketPoint(series, start, end, FloorOf(s, b))
    BY BucketPointShape
  <2>. QED BY <2>1, BucketPointAt
<1>. HIDE DEF b
<1>5. chart \in SUBSET ChartPoints
  BY <1>4, LeadPoint
<1>6. ASSUME NEW q \in chart, q.t <= t
      PROVE  q.t < p.t \/ (q.t = p.t /\ q.order <= p.order)
  <2>1. CASE q \in Lead(series, start)
    <3>1. q.t = start /\ q.order = 0
      BY <2>1, LeadPoint
    <3>. QED BY <1>3, <3>1
  <2>2. CASE q \in BucketPoints(series, start, end)
    <3>1. PICK s \in InWindow(series, start, end) :
            /\ s \in Nat /\ FloorOf(s, b) \in Nat /\ q.order = 1
            /\ q.t = (IF FloorOf(s, b) < start THEN start ELSE FloorOf(s, b))
      BY <1>4, <2>2
    <3>2. FloorOf(s, b) <= t
      BY <1>3, <1>6, <3>1
    <3>3. FloorOf(s, b) <= FloorOf(t, b)
      BY <1>1, <1>3, <3>1, <3>2, BucketStarts DEF FloorOf
    <3>. QED BY <1>3, <3>1, <3>3
  <2>. QED BY <2>1, <2>2
<1>7. p \in chart /\ p.t <= t /\ t \in Int
  BY <1>2, <1>3
<1>. HIDE DEF chart
<1>8. p.vals \subseteq Level(chart, t)
  BY <1>5, <1>6, <1>7, LevelShows
<1>. QED BY <1>2, <1>8 DEF chart

(* max_points buckets, one more where the window does not begin with one,  *)
(* and the point before the window.                                        *)
LEMMA FewPoints ==
  ASSUME NEW series \in Series, NEW start \in Nat, NEW end \in Nat, start < end
  PROVE  LET chart == Lead(series, start) \cup BucketPoints(series, start, end)
         IN IsFiniteSet(chart) /\ Cardinality(chart) <= MaxPoints + 2
<1>. DEFINE b == Bucket(start, end)
<1>. DEFINE k0 == start \div b
<1>. DEFINE point(k) == BucketPoint(series, start, end, (k0 + k) * b)
<1>. DEFINE G == [k \in 0 .. MaxPoints |-> point(k)]
<1>. DEFINE T == {point(k) : k \in 0 .. MaxPoints}
<1>1. b \in Nat \ {0} /\ end - start <= MaxPoints * b /\ MaxPoints \in Nat
  BY BucketCovers, StorageAssumption
<1>. HIDE DEF b
<1>2. k0 \in Nat /\ k0 * b <= start /\ start < k0 * b + b
  BY <1>1, Division
<1>. HIDE DEF k0
<1>3. ASSUME NEW s \in InWindow(series, start, end)
      PROVE  s \div b \in k0 .. k0 + MaxPoints
  <2>1. s \in Nat /\ start <= s /\ s <= end
    BY BucketPointAt
  <2>2. s \div b \in Nat /\ (s \div b) * b <= s
    BY <1>1, <2>1, Division
  <2>3. k0 <= s \div b
    BY <1>1, <1>2, <2>1, BucketStarts DEF k0
  <2>4. ASSUME k0 + MaxPoints + 1 <= s \div b PROVE FALSE
    <3>1. (k0 + MaxPoints + 1) * b <= (s \div b) * b
      BY <1>1, <1>2, <2>2, <2>4, ProductGrows
    <3>2. (k0 + MaxPoints + 1) * b = k0 * b + MaxPoints * b + b
      BY <1>1, <1>2
    <3>3. k0 * b \in Int /\ MaxPoints * b \in Int /\ (s \div b) * b \in Int
      BY <1>1, <1>2, <2>2
    <3>. QED BY <1>1, <1>2, <2>1, <2>2, <3>1, <3>2, <3>3
  <2>. QED BY <1>1, <1>2, <2>2, <2>3, <2>4
<1>4. BucketPoints(series, start, end) \subseteq T
  <2>1. ASSUME NEW p \in BucketPoints(series, start, end) PROVE p \in T
    <3>1. PICK s \in InWindow(series, start, end) :
            p = BucketPoint(series, start, end, FloorOf(s, b))
      BY BucketPointShape DEF b
    <3>2. PICK k \in 0 .. MaxPoints : s \div b = k0 + k
      <4>1. s \div b \in k0 .. k0 + MaxPoints
        BY <1>3
      <4>2. (s \div b) - k0 \in 0 .. MaxPoints /\ s \div b = k0 + ((s \div b) - k0)
        BY <1>1, <1>2, <4>1
      <4>. QED BY <4>2
    <3>3. p = point(k)
      BY <3>1, <3>2 DEF FloorOf
    <3>. QED BY <3>3
  <2>. QED BY <2>1
<1>5. IsFiniteSet(T) /\ Cardinality(T) <= MaxPoints + 1
  <2>1. IsFiniteSet(0 .. MaxPoints) /\ Cardinality(0 .. MaxPoints) = MaxPoints + 1
    BY <1>1, FS_Interval
  <2>2. G \in Surjection(0 .. MaxPoints, T)
    BY DEF Surjection
  <2>. HIDE DEF G, T
  <2>3. IsFiniteSet(T) /\ Cardinality(T) <= Cardinality(0 .. MaxPoints)
    BY <2>1, <2>2, FS_Surjection
  <2>. QED BY <2>1, <2>3
<1>. HIDE DEF T, G
<1>6. IsFiniteSet(BucketPoints(series, start, end))
        /\ Cardinality(BucketPoints(series, start, end)) <= Cardinality(T)
  BY <1>4, <1>5, FS_Subset
<1>7. Cardinality(T) \in Nat /\ Cardinality(BucketPoints(series, start, end)) \in Nat
  BY <1>5, <1>6, FS_CardinalityType
<1>8. CASE Lead(series, start) = {}
  <2>1. Lead(series, start) \cup BucketPoints(series, start, end) = BucketPoints(series, start, end)
    BY <1>8
  <2>2. Cardinality(BucketPoints(series, start, end)) <= MaxPoints + 2
    BY <1>1, <1>5, <1>6, <1>7
  <2>. QED BY <1>6, <2>1, <2>2
<1>9. ASSUME NEW x \in Lead(series, start)
      PROVE  LET chart == Lead(series, start) \cup BucketPoints(series, start, end)
             IN IsFiniteSet(chart) /\ Cardinality(chart) <= MaxPoints + 2
  <2>1. Lead(series, start) \cup BucketPoints(series, start, end)
          = BucketPoints(series, start, end) \cup {x}
    BY LeadPoint
  <2>2. /\ IsFiniteSet(BucketPoints(series, start, end) \cup {x})
        /\ Cardinality(BucketPoints(series, start, end) \cup {x})
             <= Cardinality(BucketPoints(series, start, end)) + 1
    BY <1>6, <1>7, FS_AddElement
  <2>3. Cardinality(BucketPoints(series, start, end) \cup {x}) \in Nat
    BY <2>2, FS_CardinalityType
  <2>4. Cardinality(BucketPoints(series, start, end) \cup {x}) <= MaxPoints + 2
    BY <1>1, <1>5, <1>6, <1>7, <2>2, <2>3
  <2>. QED BY <2>1, <2>2, <2>4
<1>. QED BY <1>8, <1>9

LEMMA ChartsShowSamples == TypesOK => ChartFaithful
<1>. SUFFICES ASSUME TypesOK, NEW e \in Entities, NEW start \in 0 .. now - 1
              PROVE
                LET series == db.samples[e]
                    chart  == History(series, start, now, e \in Numeric)
                    inside == InWindow(series, start, now)
                IN IF e \in Numeric /\ Cardinality(inside) > MaxPoints
                   THEN /\ Cardinality(chart) <= MaxPoints + 2
                        /\ \A p \in chart : start <= p.t /\ p.t <= now
                        /\ \A t \in inside : series[t] \in Level(chart, t)
                   ELSE \A t \in start .. now :
                          AtOrBefore(series, t) # {} => Level(chart, t) = {ValueAt(series, t)}
  BY DEF ChartFaithful
<1>1. PICK series \in Series : series = db.samples[e]
  BY DEF TypesOK, Tables
<1>2. now \in Nat /\ start \in Nat /\ start < now
  BY DEF TypesOK, Times
<1>3. CASE e \in Numeric /\ Cardinality(InWindow(series, start, now)) > MaxPoints
  <2>1. PICK chart : chart = Lead(series, start) \cup BucketPoints(series, start, now)
    OBVIOUS
  <2>2. History(series, start, now, e \in Numeric) = chart
    BY <1>3, <2>1 DEF History
  <2>3. Cardinality(chart) <= MaxPoints + 2
    BY <1>2, <2>1, FewPoints
  <2>4. \A p \in chart : start <= p.t /\ p.t <= now
    <3>1. ASSUME NEW p \in BucketPoints(series, start, now)
          PROVE  start <= p.t /\ p.t <= now
      <4>1. PICK s \in InWindow(series, start, now) :
              p = BucketPoint(series, start, now, FloorOf(s, Bucket(start, now)))
        BY <1>2, BucketPointShape
      <4>2. /\ s \in Nat /\ start <= s /\ s <= now
            /\ FloorOf(s, Bucket(start, now)) \in Nat /\ FloorOf(s, Bucket(start, now)) <= s
            /\ p.t = (IF FloorOf(s, Bucket(start, now)) < start THEN start
                      ELSE FloorOf(s, Bucket(start, now)))
        BY <1>2, <4>1, BucketPointAt
      <4>. QED BY <1>2, <4>2
    <3>. QED BY <1>2, <2>1, <3>1, LeadPoint
  <2>5. \A t \in InWindow(series, start, now) : series[t] \in Level(chart, t)
    BY <1>2, <2>1, BucketShown
  <2>. QED BY <1>1, <1>3, <2>2, <2>3, <2>4, <2>5
<1>4. CASE ~(e \in Numeric /\ Cardinality(InWindow(series, start, now)) > MaxPoints)
  <2>1. History(series, start, now, e \in Numeric)
          = Lead(series, start) \cup Points(series, start, now)
    BY <1>4 DEF History
  <2>2. \A t \in start .. now : AtOrBefore(series, t) # {} =>
          Level(Lead(series, start) \cup Points(series, start, now), t) = {ValueAt(series, t)}
    BY <1>2, AllPointsShown
  <2>. QED BY <1>1, <1>4, <2>1, <2>2
<1>. QED BY <1>3, <1>4

(* history and values_at (storage.py:161 and 210) agree: a chart of any    *)
(* window shows at every second the value in force, and one that is        *)
(* downsampled stays within its bound and hides no sample, for every       *)
(* max_points, window and history.                                         *)
THEOREM ChartsAreFaithful == Spec => []ChartFaithful
BY ChartsShowSamples, TypesInit, TypesNext, PTL DEF Spec

=============================================================================
