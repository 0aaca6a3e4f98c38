------------------------------ MODULE WebFigures ------------------------------
(***************************************************************************)
(* What the dashboard's page makes of the samples it is answered with: the *)
(* gaps of line charts, state timelines, sparklines and bar axes           *)
(* (charts.js, views/overview.js), the shares of the drawer (drawer.js)    *)
(* and the rows of the energy view (views/energy.js).                      *)
(*                                                                         *)
(* The samples come in one after the other, as the heat pump reports them; *)
(* every state is an answer of the server.  Time is in whole seconds, as   *)
(* in the answers (scaled down, as the gap of 20 minutes is).              *)
(***************************************************************************)
EXTENDS Integers, Sequences, FiniteSetsExt, SequencesExt, TLC

CONSTANTS
  Null,       \* null: a sample without a value, nothing to draw
  Values,     \* values of a counter, and states of a timeline
  MinGap,     \* silence that may break a line: 20 minutes
  UsualStep,  \* step taken when the median is 0: 60 s
  Horizon,    \* bound: the last instant
  Points,     \* bound: samples of a series
  Windows,    \* windows asked for: start and end
  Clocks,     \* what the browser's clock says
  Spark,      \* points of a sparkline
  Day,        \* length of a day
  Month       \* length of a month, in days

ASSUME FiguresAssumption ==
  /\ Values \subseteq Nat /\ Null \notin Nat
  /\ {MinGap, UsualStep, Day, Month} \subseteq Nat \ {0} /\ 4 * UsualStep <= MinGap
  /\ Horizon \in Nat /\ Points \in Nat /\ Spark \in Nat \ {0, 1}
  /\ \A w \in Windows : w.start \in Nat /\ w.end \in Nat /\ w.start < w.end
  /\ Clocks \subseteq Nat
  /\ Day * Month <= Horizon   \* one period at least

VARIABLE series   \* an answer of api.history: samples [t, v], oldest first

Least(a, b) == IF a < b THEN a ELSE b
Greatest(a, b) == IF a < b THEN b ELSE a

(* The variants named Bug_... are what a mistake in the code would make of *)
(* the definition that follows them; only the mutation checks use them.    *)

-----------------------------------------------------------------------------
(* Line charts.                                                            *)

Steps(s) == [i \in 1 .. Len(s) - 1 |-> s[i + 1].t - s[i].t]

(* steps.sort: the same numbers, in order.                                 *)
Ordered(q) ==
  LET places == CHOOSE p \in Bijection(DOMAIN q, DOMAIN q) :
                  \A i, j \in DOMAIN q : i < j => q[p[i]] <= q[p[j]]
  IN [i \in DOMAIN q |-> q[places[i]]]

(* withGaps: the step from which on a line is broken.                      *)
Bug_Shortest(s) ==
  LET step == Ordered(Steps(s))[1]
  IN Greatest(MinGap, 4 * (IF step = 0 THEN UsualStep ELSE step))

Limit(s) ==
  LET median == Ordered(Steps(s))[(Len(s) - 1) \div 2 + 1]
  IN Greatest(MinGap, 4 * (IF median = 0 THEN UsualStep ELSE median))

(* A null a second after the last sample before a gap breaks the line.     *)
WithGaps(s) ==
  IF Len(s) < 3 THEN s
  ELSE FlattenSeq([i \in DOMAIN s |->
         IF i > 1 /\ s[i].t - s[i - 1].t > Limit(s)
         THEN <<[t |-> s[i - 1].t + 1, v |-> Null], s[i]>> ELSE <<s[i]>>])

-----------------------------------------------------------------------------
(* Timelines.                                                              *)

(* How long sample i holds, within the window and not beyond now.          *)
Piece(s, i, w, now) ==
  [state |-> s[i].v,
   from |-> Greatest(w.start, s[i].t),
   to |-> Least(w.end, IF i < Len(s) THEN s[i + 1].t ELSE now)]

(* Neighbours of one state become one segment, empty ones are left out.    *)
Bug_Joined(segs, p) ==
  IF p.to <= p.from THEN segs
  ELSE IF segs # <<>> /\ Last(segs).state = p.state
       THEN Append(Front(segs), [Last(segs) EXCEPT !.to = p.from])
       ELSE Append(segs, p)

Joined(segs, p) ==
  IF p.to <= p.from THEN segs
  ELSE IF segs # <<>> /\ Last(segs).state = p.state /\ Last(segs).to = p.from
       THEN Append(Front(segs), [Last(segs) EXCEPT !.to = p.to])
       ELSE Append(segs, p)

Timeline(s, w, now) ==
  LET upTo[i \in 0 .. Len(s)] ==
        IF i = 0 THEN <<>> ELSE Joined(upTo[i - 1], Piece(s, i, w, now))
  IN upTo[Len(s)]

(* resample: point i of a sparkline, at start + span * i / (Spark - 1); j  *)
(* goes on while the next sample is not later than that.                   *)
Instant(w, i) == (Spark - 1) * w.start + (w.end - w.start) * i

Resample(s, w) ==
  LET NotLater(k, i) == (Spark - 1) * s[k].t <= Instant(w, i)
      At[i \in 0 .. Spark - 1] ==
        LET j == IF i = 0 THEN 1 ELSE At[i - 1]
        IN Min({k \in j .. Len(s) : k = Len(s) \/ ~NotLater(k + 1, i)})
  IN [i \in 0 .. Spark - 1 |->
        IF s # <<>> /\ NotLater(At[i], i) THEN s[At[i]].v ELSE Null]

-----------------------------------------------------------------------------
(* The drawer: how long each state lasted.                                 *)

Share(s, end, state) ==
  LET lasted(i) == (IF i < Len(s) THEN s[i + 1].t ELSE end) - s[i].t
      total[i \in 0 .. Len(s)] ==
        IF i = 0 THEN 0
        ELSE total[i - 1] + (IF s[i].v = state THEN lasted(i) ELSE 0)
  IN total[Len(s)]

-----------------------------------------------------------------------------
(* The energy view.                                                        *)

(* values_at of storage.py: the last value at or before x, else the first. *)
ValueAt(s, x) ==
  LET valued == {i \in DOMAIN s : s[i].v # Null}
      before == {i \in valued : s[i].t <= x}
  IN IF before # {} THEN s[Max(before)].v
     ELSE IF valued # {} THEN s[Min(valued)].v ELSE Null

(* boundaries: the starts of n periods, then now.                          *)
Boundaries(n, length) == [i \in 1 .. n + 1 |-> IF i <= n THEN (i - 1) * length ELSE Horizon]

(* load: what a counter gained in period i; a counter that was set back    *)
(* gained nothing.                                                         *)
Bug_SignedDelta(s, bs, i) ==
  LET a == ValueAt(s, bs[i]) b == ValueAt(s, bs[i + 1])
  IN IF a = Null \/ b = Null THEN Null ELSE b - a

Delta(s, bs, i) ==
  LET a == ValueAt(s, bs[i]) b == ValueAt(s, bs[i + 1])
  IN IF a = Null \/ b = Null THEN Null ELSE Greatest(0, b - a)

Rows(s, bs) == [i \in 1 .. Len(bs) - 1 |-> Delta(s, bs, i)]

Total(rows) ==
  LET upTo[i \in 0 .. Len(rows)] ==
        IF i = 0 THEN 0 ELSE upTo[i - 1] + (IF rows[i] = Null THEN 0 ELSE rows[i])
  IN upTo[Len(rows)]

(* niceMax of charts.js, in tenths: 1, 2, 2.5, 5 or 10 times a power of    *)
(* ten; at least 0.001, here 1.                                            *)
NiceMax(v) ==
  LET power[k \in 0 .. v] == IF k = 0 THEN 1 ELSE 10 * power[k - 1]
      magnitude == power[CHOOSE k \in 0 .. v : power[k] <= v /\ v < 10 * power[k]]
      factor == CHOOSE f \in {10, 20, 25, 50, 100} :
                  /\ 10 * v <= f * magnitude
                  /\ \A g \in {10, 20, 25, 50, 100} : 10 * v <= g * magnitude => f <= g
  IN factor * magnitude

(* The axis of a bar chart.                                                *)
Axis(rows) == NiceMax(Max({1} \cup {rows[i] : i \in {j \in DOMAIN rows : rows[j] # Null}}))

-----------------------------------------------------------------------------
FiguresInit == series = <<>>

Sampled(t, v) ==
  /\ Len(series) < Points
  /\ series # <<>> => Last(series).t <= t
  /\ series' = Append(series, [t |-> t, v |-> v])

FiguresNext ==
  \E t \in 0 .. Horizon, v \in Values \cup {Null} : Sampled(t, v)

FiguresSpec == FiguresInit /\ [][FiguresNext]_series

-----------------------------------------------------------------------------
(* Properties.                                                             *)

(* charts.js:13, "so lines don't bridge periods without data": a line is   *)
(* broken exactly where a step is longer than the least gap and than four  *)
(* times most of the steps; nothing else is taken away or added, and the   *)
(* times stay in order, as the chart needs them.                           *)
LinesHonest ==
  LET n == Len(series) - 1
      step == Steps(series)
      Shorter(i) == {j \in 1 .. n : 4 * step[j] < step[i]}
      gaps == {i \in 1 .. n : /\ n > 1 /\ step[i] > MinGap
                              /\ Cardinality(Shorter(i)) > n \div 2}
      drawn == WithGaps(series)
  IN /\ Len(drawn) = Len(series) + Cardinality(gaps)
     /\ \A i \in DOMAIN series :
          LET at == i + Cardinality({j \in gaps : j < i})
          IN /\ drawn[at] = series[i]
             /\ i \in gaps => drawn[at + 1] = [t |-> series[i].t + 1, v |-> Null]
     /\ \A i \in 1 .. Len(drawn) - 1 : drawn[i].t <= drawn[i + 1].t

(* The state in force at an instant: the last sample not after it.         *)
InForce(x) ==
  LET before == {i \in DOMAIN series : series[i].t <= x}
  IN IF before = {} THEN Null ELSE series[Max(before)].v

(* A timeline shows at every instant of its window up to now the state in  *)
(* force, once, and nothing where there is none; two segments that touch   *)
(* have different states.  A sparkline shows the value in force.  In the   *)
(* drawer's "share of time per state" (drawer.js:92) each state has as     *)
(* many seconds as there are instants at which it was in force, so the     *)
(* shares are the whole of the time since the first sample.                *)
DrawnIsInForce ==
  LET Begun(x) == \E i \in DOMAIN series : series[i].t <= x
  IN /\ \A w \in Windows :
          /\ \A now \in Clocks :
               LET segs == Timeline(series, w, now)
                   Over(x) == {i \in DOMAIN segs : segs[i].from <= x /\ x < segs[i].to}
               IN /\ \A x \in w.start .. w.end - 1 :
                       IF x < now /\ Begun(x)
                       THEN \E i \in DOMAIN segs : Over(x) = {i} /\ segs[i].state = InForce(x)
                       ELSE Over(x) # {} => Begun(x) /\ Last(series).t > now
                  /\ \A i \in 1 .. Len(segs) - 1 :
                       segs[i].to = segs[i + 1].from => segs[i].state # segs[i + 1].state
          /\ \A i \in 0 .. Spark - 1 :
               Resample(series, w)[i] = InForce(Instant(w, i) \div (Spark - 1))
     /\ \A state \in Values \cup {Null} :
          Share(series, Horizon, state) =
            Cardinality({x \in 0 .. Horizon - 1 : Begun(x) /\ InForce(x) = state})

(* What the energy view adds up over days is no less than over months, and *)
(* for a counter that is never set back both are what it gained; no bar is *)
(* higher than its axis, and the highest takes at least half of it.        *)
EnergyAddsUp ==
  LET periods == Horizon \div (Day * Month)
      days == Rows(series, Boundaries(periods * Month, Day))
      months == Rows(series, Boundaries(periods, Day * Month))
      counted == {i \in DOMAIN series : series[i].v # Null}
  IN /\ Total(months) <= Total(days)
     /\ (counted # {} /\ \A i, j \in counted : i < j => series[i].v <= series[j].v) =>
          \A rows \in {days, months} :
            Total(rows) = ValueAt(series, Horizon) - ValueAt(series, 0)
     /\ \A rows \in {days, months} :
          /\ \A i \in DOMAIN rows : rows[i] # Null => 0 <= rows[i] /\ 10 * rows[i] <= Axis(rows)
          /\ \A i \in DOMAIN rows : rows[i] # Null /\ rows[i] > 0 =>
               \E j \in DOMAIN rows : rows[j] # Null /\ 20 * rows[j] >= Axis(rows)

=============================================================================
