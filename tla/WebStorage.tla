----------------------------- MODULE WebStorage -----------------------------
(***************************************************************************)
(* The dashboard's history: class Storage of web/nasa_web/storage.py with  *)
(* its callers, the paho thread (_handle_discovery, _handle_state) and the *)
(* loops and the lifespan of app.py.                                       *)
(*                                                                         *)
(* Every method of Storage holds its lock for its whole body, so each is   *)
(* one action.  The connection sees db; the file holds disk; the two       *)
(* differ only while a transaction is open, which happens when a flush     *)
(* fails half way.  Time counts in the seconds of a sample's key.          *)
(***************************************************************************)
EXTENDS Integers, Sequences, FiniteSets

CONSTANTS
  Entities,      \* the discovered entities
  Numeric,       \* those whose samples have no text
  Values,        \* the states an entity can report
  First,         \* bound: the state every topic starts with
  None,          \* no value, no sample
  Absent,        \* no row, not in the registry
  Heartbeat,     \* heartbeat_seconds
  MinInterval,   \* min_interval_seconds
  Retention,     \* retention_days, in seconds
  MaxPoints,     \* max_points of a history request
  MaxTime,       \* bound: the clock stops here
  PendingBound,  \* bound: samples waiting for a flush
  Changes,       \* bound: changes of the reported states
  Removals,      \* bound: entities removed from discovery
  Downs,         \* bound: the process is stopped or killed
  StepBacks,     \* bound: the system clock is set back
  DbErrors       \* bound: a flush that raises

ASSUME StorageAssumption ==
  /\ Numeric \subseteq Entities
  /\ First \in Values
  /\ {None, Absent} \cap Values = {} /\ None # Absent
  /\ None \notin [ts : 0 .. MaxTime, val : Values]
  /\ {Heartbeat, MinInterval, Retention, MaxTime, PendingBound} \subseteq Nat
  /\ MaxPoints \in Nat \ {0}
  /\ MinInterval <= MaxTime
  /\ {Changes, Removals, Downs, StepBacks, DbErrors} \subseteq Nat

VARIABLES
  topic,    \* entity -> the state its MQTT topic carries
  shown,    \* entity -> its value in the registry, Absent if unknown
  db,       \* what the connection sees: tables samples and entities
  disk,     \* what is committed
  pending,  \* Storage._pending
  last,     \* Storage._last
  now,      \* int(time.time())
  flusher,  \* the task of _flush_loop: "running", "dead", "down"
  budget    \* what is left of the bounds above

vars == <<topic, shown, db, disk, pending, last, now, flusher, budget>>

Times == 0 .. MaxTime
Up == flusher # "down"

MaxOf(S) == CHOOSE x \in S : \A y \in S : y <= x
MinOf(S) == CHOOSE x \in S : \A y \in S : x <= y

-----------------------------------------------------------------------------
(* The statements.                                                         *)

(* INSERT OR REPLACE of a queue of samples, in its order.                  *)
Written(samples, queue) ==
  [e \in Entities |-> [t \in Times |->
     LET hits == {i \in DOMAIN queue : queue[i].id = e /\ queue[i].ts = t}
     IN IF hits = {} THEN samples[e][t] ELSE queue[MaxOf(hits)].val]]

(* The variants named Bug_... are what a mistake in the code would make of *)
(* the definition that follows them; only the mutation checks use them.    *)

(* UPDATE entities with the latest pending sample of each; no row, no      *)
(* update.                                                                 *)
Bug_FirstPending(row, queue) ==
  [e \in Entities |->
     LET own == {i \in DOMAIN queue : queue[i].id = e}
     IN IF own = {} \/ row[e] = Absent THEN row[e] ELSE queue[MinOf(own)].val]

Updated(row, queue) ==
  [e \in Entities |->
     LET own == {i \in DOMAIN queue : queue[i].id = e}
     IN IF own = {} \/ row[e] = Absent THEN row[e] ELSE queue[MaxOf(own)].val]

Flushed(tables, queue) ==
  [samples |-> Written(tables.samples, queue), row |-> Updated(tables.row, queue)]

Stamps(series) == {t \in Times : series[t] # None}

(* SELECT entity_id, MAX(ts) ... GROUP BY entity_id.                       *)
Bug_NothingLoaded(samples) == [e \in Entities |-> None]

LastStored(samples) ==
  [e \in Entities |->
     IF Stamps(samples[e]) = {} THEN None
     ELSE LET t == MaxOf(Stamps(samples[e])) IN [ts |-> t, val |-> samples[e][t]]]

Purged(samples) ==
  [e \in Entities |-> [t \in Times |->
     IF t < now - Retention THEN None ELSE samples[e][t]]]

-----------------------------------------------------------------------------
(* record: is this report of entity e worth a sample?                      *)

Changed(e, v) == last[e].val # v

Due(e, interval) == now - last[e].ts >= interval

Bug_MinIntervalForAll(e, v) ==
  last[e] # None =>
    (Changed(e, v) \/ Due(e, Heartbeat)) /\ Due(e, MinInterval)

Keeps(e, v) ==
  last[e] # None =>
    /\ Changed(e, v) \/ Due(e, Heartbeat)
    /\ e \in Numeric => Due(e, MinInterval)

Bug_LastOnEveryReport(e) ==
  /\ Up
  /\ shown[e] # Absent
  /\ shown' = [shown EXCEPT ![e] = topic[e]]
  /\ last' = [last EXCEPT ![e] = [ts |-> now, val |-> topic[e]]]
  /\ Len(pending) < PendingBound
  /\ pending' = IF Keeps(e, topic[e])
                THEN Append(pending, [id |-> e, ts |-> now, val |-> topic[e]])
                ELSE pending
  /\ UNCHANGED <<topic, db, disk, now, flusher, budget>>

(* _handle_state of a report: the registry, then record.                   *)
Report(e) ==
  /\ Up
  /\ shown[e] # Absent
  /\ shown' = [shown EXCEPT ![e] = topic[e]]
  /\ \/ /\ Keeps(e, topic[e])
        /\ Len(pending) < PendingBound
        /\ last' = [last EXCEPT ![e] = [ts |-> now, val |-> topic[e]]]
        /\ pending' = Append(pending, [id |-> e, ts |-> now, val |-> topic[e]])
     \/ /\ ~Keeps(e, topic[e])
        /\ UNCHANGED <<last, pending>>
  /\ UNCHANGED <<topic, db, disk, now, flusher, budget>>

(* save_entity: ON CONFLICT keeps the value columns of the row.            *)
Saved(row) == IF row = Absent THEN None ELSE row

(* _handle_discovery of a config: upsert keeps the live value of a known   *)
(* entity, save_entity commits.                                            *)
Discover(e) ==
  /\ Up
  /\ db' = [db EXCEPT !.row[e] = Saved(@)]
  /\ disk' = db'
  /\ shown' = [shown EXCEPT ![e] = IF @ = Absent THEN None ELSE @]
  /\ UNCHANGED <<topic, pending, last, now, flusher, budget>>

(* _handle_discovery of an empty config: the entity and its row go, its    *)
(* samples, its pending samples and its entry of _last stay.               *)
Remove(e) ==
  /\ Up
  /\ shown[e] # Absent
  /\ budget.removals > 0
  /\ db' = [db EXCEPT !.row[e] = Absent]
  /\ disk' = db'
  /\ shown' = [shown EXCEPT ![e] = Absent]
  /\ budget' = [budget EXCEPT !.removals = @ - 1]
  /\ UNCHANGED <<topic, pending, last, now, flusher>>

-----------------------------------------------------------------------------
(* The loops and the lifespan of app.py.                                   *)

Flush ==
  /\ flusher = "running"
  /\ pending # <<>>
  /\ db' = Flushed(db, pending)
  /\ disk' = db'
  /\ pending' = <<>>
  /\ UNCHANGED <<topic, shown, last, now, flusher, budget>>

(* sqlite3 raises: the pending list is gone, some samples are in an open   *)
(* transaction, and _flush_loop, which catches nothing, ends.              *)
FlushFails ==
  /\ flusher = "running"
  /\ pending # <<>>
  /\ budget.errors > 0
  /\ \E k \in 0 .. Len(pending) :
       db' = [db EXCEPT !.samples = Written(db.samples, SubSeq(pending, 1, k))]
  /\ pending' = <<>>
  /\ flusher' = "dead"
  /\ budget' = [budget EXCEPT !.errors = @ - 1]
  /\ UNCHANGED <<topic, shown, disk, last, now>>

Purge ==
  /\ Up
  /\ db' = [db EXCEPT !.samples = Purged(db.samples)]
  /\ disk' = db'
  /\ UNCHANGED <<topic, shown, pending, last, now, flusher, budget>>

(* The end of the lifespan: storage.close flushes, and closing rolls an    *)
(* open transaction back.                                                  *)
Stop ==
  /\ Up
  /\ budget.downs > 0
  /\ disk' = IF pending = <<>> THEN disk ELSE Flushed(db, pending)
  /\ db' = disk'
  /\ pending' = <<>>
  /\ flusher' = "down"
  /\ budget' = [budget EXCEPT !.downs = @ - 1]
  /\ UNCHANGED <<topic, shown, last, now>>

Crash ==
  /\ Up
  /\ budget.downs > 0
  /\ db' = disk
  /\ pending' = <<>>
  /\ flusher' = "down"
  /\ budget' = [budget EXCEPT !.downs = @ - 1]
  /\ UNCHANGED <<topic, shown, disk, last, now>>

(* Storage.__init__ and _restore_entities.                                 *)
Start ==
  /\ ~Up
  /\ last' = LastStored(disk.samples)
  /\ shown' = disk.row
  /\ flusher' = "running"
  /\ UNCHANGED <<topic, db, disk, pending, now, budget>>

-----------------------------------------------------------------------------
(* The surroundings: the bridge publishes, the clock runs.                 *)

(* Bound: no change too late for MinInterval to pass before MaxTime.       *)
InTime(e) ==
  \A t \in Stamps(Written(db.samples, pending)[e]) \cup {now} :
     t + MinInterval <= MaxTime

Change(e) ==
  /\ budget.changes > 0
  /\ InTime(e)
  /\ \E v \in Values \ {topic[e]} : topic' = [topic EXCEPT ![e] = v]
  /\ budget' = [budget EXCEPT !.changes = @ - 1]
  /\ UNCHANGED <<shown, db, disk, pending, last, now, flusher>>

Tick ==
  /\ now < MaxTime
  /\ now' = now + 1
  /\ UNCHANGED <<topic, shown, db, disk, pending, last, flusher, budget>>

StepBack ==
  /\ budget.steps > 0
  /\ now > 0
  /\ now' = now - 1
  /\ budget' = [budget EXCEPT !.steps = @ - 1]
  /\ UNCHANGED <<topic, shown, db, disk, pending, last, flusher>>

-----------------------------------------------------------------------------
Init ==
  /\ topic = [e \in Entities |-> First]
  /\ shown = [e \in Entities |-> Absent]
  /\ db = [samples |-> [e \in Entities |-> [t \in Times |-> None]],
           row |-> [e \in Entities |-> Absent]]
  /\ disk = db
  /\ pending = <<>>
  /\ last = [e \in Entities |-> None]
  /\ now = 0
  /\ flusher = "running"
  /\ budget = [changes |-> Changes, removals |-> Removals, downs |-> Downs,
               steps |-> StepBacks, errors |-> DbErrors]

Next ==
  \/ \E e \in Entities : Report(e) \/ Discover(e) \/ Remove(e) \/ Change(e)
  \/ Flush \/ FlushFails \/ Purge
  \/ Stop \/ Crash \/ Start
  \/ Tick \/ StepBack

Spec == Init /\ [][Next]_vars

(* The loops of a running process go on, a stopped container is started    *)
(* again, the clock runs, and the heat pump repeats its reports.           *)
Fairness ==
  /\ WF_vars(Flush) /\ WF_vars(Start) /\ WF_vars(Tick)
  /\ \A e \in Entities : WF_vars(Report(e))

FairSpec == Spec /\ Fairness

-----------------------------------------------------------------------------
(* The reads.                                                              *)

AtOrBefore(series, t) == {s \in Stamps(series) : s <= t}

(* values_at: the last value at or before t, else the first one after it.  *)
ValueAt(series, t) ==
  CASE AtOrBefore(series, t) # {} -> series[MaxOf(AtOrBefore(series, t))]
    [] Stamps(series) # {} /\ AtOrBefore(series, t) = {} ->
         series[MinOf(Stamps(series))]
    [] OTHER -> None

(* history: the point that carries the level before the window, then a     *)
(* point a sample, or a point a bucket when there are too many samples.    *)
Lead(series, start) ==
  LET older == {s \in Stamps(series) : s < start}
  IN IF older = {} THEN {}
     ELSE {[t |-> start, order |-> 0, vals |-> {series[MaxOf(older)]}]}

InWindow(series, start, end) == {s \in Stamps(series) : start <= s /\ s <= end}

Bucket(start, end) == MaxOf({1, (end - start + MaxPoints - 1) \div MaxPoints})

Bug_LeadOnly(series, start, end) ==
  {[t |-> s, order |-> 1, vals |-> {series[s]}] :
     s \in InWindow(series, start + 1, end)}

Points(series, start, end) ==
  {[t |-> s, order |-> 1, vals |-> {series[s]}] :
     s \in InWindow(series, start, end)}

BucketPoints(series, start, end) ==
  LET b == Bucket(start, end)
      floor(s) == (s \div b) * b
      inside == InWindow(series, start, end)
  IN {[t |-> MaxOf({f, start}), order |-> 1,
       vals |-> {series[s] : s \in {x \in inside : floor(x) = f}}] :
        f \in {floor(s) : s \in inside}}

History(series, start, end, aggregate) ==
  Lead(series, start) \cup
    IF aggregate /\ Cardinality(InWindow(series, start, end)) > MaxPoints
    THEN BucketPoints(series, start, end) ELSE Points(series, start, end)

-----------------------------------------------------------------------------
(* Properties.                                                             *)

AllSamples == Written(db.samples, pending)

Newest(series) == series[MaxOf(Stamps(series))]

(* No flush has failed and the clock was never set back.                   *)
Intact == budget.errors = DbErrors /\ budget.steps = StepBacks

(* MIN_INTERVAL_SECONDS, web/README.md:33 ("changing numeric values at     *)
(* most every MIN_INTERVAL_SECONDS"): whatever is lost by a crash, a       *)
(* failing flush, a removal or a clock that is set back, two samples of a  *)
(* numeric entity are never closer, in the file or still to be written.    *)
NumericApart ==
  \A e \in Numeric : \A s, t \in Stamps(AllSamples[e]) :
     s < t => t - s >= MinInterval

(* record (storage.py:75, "state changes of binary/enum entities are       *)
(* always stored"): the newest sample of such an entity, written or        *)
(* waiting, is the state the dashboard shows, also after a crash lost      *)
(* what was waiting and the entities were restored from their rows.        *)
HistoryCurrent ==
  (Up /\ Intact) =>
    \A e \in Entities \ Numeric :
      (shown[e] \in Values /\ Stamps(AllSamples[e]) # {}) =>
         Newest(AllSamples[e]) = shown[e]

(* flush writes samples and entity rows in one transaction: in the file,   *)
(* the value an entity is restored with is its newest sample, whatever     *)
(* purge, removal, rediscovery and a crash between two flushes do.         *)
RowIsNewest ==
  Intact =>
    \A e \in Entities :
      (disk.row[e] \in Values /\ Stamps(disk.samples[e]) # {}) =>
         disk.row[e] = Newest(disk.samples[e])

(* The values a chart shows at second t: those of its last point not after *)
(* t, the later one of two at the same second.                             *)
Level(chart, t) ==
  LET past == {p \in chart : p.t <= t}
  IN UNION {p.vals : p \in {x \in past : \A q \in past :
               q.t < x.t \/ (q.t = x.t /\ q.order <= x.order)}}

(* history as api_history asks for it, downsampled for numeric entities    *)
(* only.  A chart of any window up to now shows at every second the value  *)
(* values_at gives for it; a downsampled one is at most MaxPoints buckets  *)
(* and the two ends long, lies in the window, and no sample is outside the *)
(* range of the bucket it falls in.                                        *)
ChartFaithful ==
  \A e \in Entities : \A start \in 0 .. now - 1 :
    LET series == db.samples[e]
        chart  == History(series, start, now, e \in Numeric)
        inside == InWindow(series, start, now)
    IN IF e \in Numeric /\ Cardinality(inside) > MaxPoints
       THEN /\ Cardinality(chart) <= MaxPoints + 2
            /\ \A p \in chart : start <= p.t /\ p.t <= now
            /\ \A t \in inside : series[t] \in Level(chart, t)
       ELSE \A t \in start .. now :
              AtOrBefore(series, t) # {} => Level(chart, t) = {ValueAt(series, t)}

StaysKnown(e) == <>[](Up /\ shown[e] # Absent)

Stored(e) == Stamps(disk.samples[e]) # {} /\ Newest(disk.samples[e]) = topic[e]

(* What is stored in the end: an entity that stays known, in a process     *)
(* that stays up, has the state of its topic as the newest sample in the   *)
(* file, whatever was lost before (web/README.md:33, samples on change and *)
(* on heartbeat).                                                          *)
StoredInTheEnd ==
  ([](budget.steps = StepBacks) /\ <>[](flusher = "running")) =>
    \A e \in Entities : StaysKnown(e) => <>[]Stored(e)

=============================================================================
