------------------------------- MODULE WebPage -------------------------------
(***************************************************************************)
(* The views of the dashboard's page and what they load: app.js (routes),  *)
(* views/overview.js, views/history.js, views/energy.js, drawer.js, and    *)
(* the set of live charts in charts.js.                                    *)
(*                                                                         *)
(* A load is a request to the server and, some time later, an answer.      *)
(* Answers come in any order, or not at all, and meet a page on which the  *)
(* user has gone on: what a load reads before its await is in the request, *)
(* what it reads after it is read by the answer's action.                  *)
(***************************************************************************)
EXTENDS Integers, Sequences, FiniteSets

CONSTANTS
  None,       \* nothing, null
  Blank,      \* a place whose chart was destroyed
  Names,      \* names in the location's hash
  Entities,   \* entities whose drawer is opened
  Numeric,    \* the numeric ones
  Ranges,     \* range buttons of the drawer, in days
  UsualRange, \* the one a tile, a row or the schematic opens with
  LongRange,  \* the one the settings open with
  Spans,      \* range buttons of the history, in units of time; 0 is now
  MinSpan,    \* the shortest span a zoom leads to
  Past,       \* bound: how far back the history pages
  Panels,     \* charts of the history view
  Sensors,    \* sensors of the custom chart
  Unit,       \* their units
  Modes,      \* modes of the energy view
  InFlight,   \* bound: requests under way
  Acts,       \* bound: what the user does
  Failures,   \* bound: requests that fail
  Overtakes,  \* bound: answers that overtake an earlier one of their kind
  SlowTicks   \* bound: timers that fire before the last answer is there

Views == {"overview", "history", "energy", "settings", "entities"}

ASSUME PageAssumption ==
  /\ None \notin Names \cup Views \cup {"here", "gone", "day"}
  /\ None \notin [id : Entities, range : Ranges] /\ Numeric \subseteq Entities
  /\ None \notin [from : Int, to : Int]
  /\ {UsualRange, LongRange} \subseteq Ranges
  /\ Spans # {} /\ Modes # {}
  /\ Spans \subseteq Nat \ {0} /\ MinSpan \in Nat \ {0} /\ Past \in Nat
  /\ Panels \in Nat
  /\ IsFiniteSet(Sensors)
  /\ {InFlight, Acts, Failures, Overtakes, SlowTicks} \subseteq Nat

VARIABLES
  hash,        \* the name in the location's hash
  ready,       \* store.ready: a snapshot has come, a view is mounted
  known,       \* the entities of the views are discovered
  built,       \* the mounted view has found them
  timers,      \* views with intervals running
  figure,      \* what the charts of the mounted view were loaded for
  today,       \* overview: the card of the day is filled
  win,         \* history: span and end (None: now)
  custom,      \* history: the chosen sensors
  boxes,       \* history: what the place of the custom charts shows
  owned,       \* history: how many charts customCharts holds
  mode,        \* energy: days or months
  drawer,      \* the drawer's entity and range, None if it is closed
  sheet,       \* what the place of its chart shows; None is the skeleton
  plot,        \* its chart: "here", "gone" (its place was thrown away), None
  registered,  \* the size of the set charts of charts.js
  requests,    \* requests under way, oldest first
  budget       \* what is left of the bounds above

mounted == <<built, timers, figure, today, boxes, owned>>
choice == <<win, custom, mode>>
panel == <<drawer, sheet, plot>>
vars == <<hash, ready, known, mounted, choice, panel, registered, requests, budget>>

-----------------------------------------------------------------------------
ViewOf(name) == IF name \in Views THEN name ELSE "overview"
view == IF ready THEN ViewOf(hash) ELSE None

(* range: what the span and its end mean now.                              *)
Window(w) ==
  LET e == IF w.end = None THEN 0 ELSE w.end IN [from |-> e - w.span, to |-> e]

(* A request: which load it belongs to, what was asked, whether the        *)
(* element kept for the answer is still in the page, load's silent.        *)
Request(of, ask) == [of |-> of, ask |-> ask, live |-> TRUE, silent |-> FALSE]

(* load of the history; without any entity the server refuses it.          *)
HistoryRequest(w, k, silent) ==
  [Request("history", IF k THEN Window(w) ELSE None) EXCEPT !.silent = silent]

Room(n) == Len(requests) + n <= InFlight

Spend(what) == budget[what] > 0 /\ budget' = [budget EXCEPT ![what] = @ - 1]

(* The place an answer was to fill is thrown away.                         *)
Detached(seq, kinds) ==
  [i \in DOMAIN seq |-> IF seq[i].of \in kinds THEN [seq[i] EXCEPT !.live = FALSE] ELSE seq[i]]

Without(seq, i) == [j \in 1 .. Len(seq) - 1 |-> seq[IF j < i THEN j ELSE j + 1]]

(* The variants named Bug_... are what a mistake in the code would make of *)
(* the definition that follows them; only the mutation checks use them.    *)

(* Charts: of the mounted view, of the custom chart (one per unit), of the *)
(* drawer.                                                                 *)
ChartsOf(v, k) == IF v = "overview" THEN 1 ELSE IF v = "history" /\ k THEN Panels ELSE 0
Groups(chosen) == Cardinality({Unit[x] : x \in chosen})
DrawerCharts == IF plot = None THEN 0 ELSE 1

-----------------------------------------------------------------------------
(* Routes.                                                                 *)

(* What mount loads.  The overview looks for its entities again whenever   *)
(* it loads, the history draws charts of what it finds now, the energy     *)
(* view stays empty if it finds no counters.                               *)
OverviewLoads(k) == IF k THEN <<Request("trend", None), Request("today", None)>> ELSE <<>>
HistoryLoads(k) == <<HistoryRequest(win, k, FALSE)>>
EnergyLoads(k) == IF k THEN <<Request("energy", mode)>> ELSE <<>>

LoadsOf(v, k) ==
  IF v = "overview" THEN OverviewLoads(k)
  ELSE IF v = "history" THEN HistoryLoads(k)
  ELSE IF v = "energy" THEN EnergyLoads(k) ELSE <<>>

(* The intervals mount starts.                                             *)
Bug_NoEnergyInterval(v, k) == {x \in {v} : v \in {"overview", "history"}}

TimersOf(v, k) == {x \in {v} : v \in {"overview", "history"} \/ (v = "energy" /\ k)}

(* The charts unmount destroys; those of the custom chart are the history  *)
(* view's.                                                                 *)
Bug_CustomChartsKept == ChartsOf(view, built)

Released == ChartsOf(view, built) + (IF view = "history" THEN owned ELSE 0)

(* unmount of the current view and mount of v on a fresh element.          *)
Show(v, k) ==
  /\ built' = k /\ figure' = None /\ today' = FALSE /\ boxes' = <<>>
  /\ timers' = (timers \ {view}) \cup TimersOf(v, k)
  /\ owned' = IF view = "history" THEN 0 ELSE owned
  /\ registered' = registered - Released - DrawerCharts + ChartsOf(v, k)
  /\ requests' = Detached(requests, {"today", "custom"}) \o LoadsOf(v, k)

(* hashchange: the drawer closes, then route.                              *)
Navigate(name) ==
  /\ Spend("acts") /\ Room(2)
  /\ hash' = name
  /\ drawer' = None /\ sheet' = None /\ plot' = None
  /\ IF ready /\ name # hash
     THEN Show(ViewOf(name), known)
     ELSE registered' = registered - DrawerCharts /\ UNCHANGED <<mounted, requests>>
  /\ UNCHANGED <<ready, known, choice>>

(* The first snapshot shows the view of the hash.                          *)
FirstSnapshot(k) ==
  /\ ~ready
  /\ ready' = TRUE /\ known' = k
  /\ Show(ViewOf(hash), k)
  /\ UNCHANGED <<hash, choice, panel, budget>>

(* A later one brings the entities; views are not mounted again.           *)
LaterSnapshot ==
  /\ ready /\ ~known
  /\ known' = TRUE
  /\ UNCHANGED <<hash, ready, mounted, choice, panel, registered, requests, budget>>

-----------------------------------------------------------------------------
(* The user.                                                               *)

Loaded(request) == requests' = Append(requests, request)

Bug_NoLoad(w) ==
  /\ view = "history" /\ Spend("acts") /\ Room(1)
  /\ win' = w
  /\ UNCHANGED <<hash, ready, known, mounted, custom, mode, panel, registered, requests>>

ShowWindow(w) ==
  /\ view = "history" /\ Spend("acts") /\ Room(1)
  /\ win' = w
  /\ Loaded(HistoryRequest(w, known, FALSE))
  /\ UNCHANGED <<hash, ready, known, mounted, custom, mode, panel, registered>>

RangeButton(s) == ShowWindow([span |-> s, end |-> None])

Earlier ==
  LET e == Window(win).from
  IN e >= -Past /\ ShowWindow([win EXCEPT !.end = e])

Later ==
  LET e == win.end + win.span
  IN win.end # None /\ ShowWindow([win EXCEPT !.end = IF e >= 0 THEN None ELSE e])

(* Drag across a chart.                                                    *)
Zoom ==
  /\ view = "history" /\ figure # None
  /\ \E a, b \in figure.from .. figure.to :
       a < b /\ ShowWindow([span |-> IF b - a < MinSpan THEN MinSpan ELSE b - a, end |-> b])

(* loadCustom up to its await: the old charts go.                          *)
LoadCustom(chosen, rest) ==
  /\ registered' = registered - owned /\ owned' = 0 /\ boxes' = <<>>
  /\ requests' =
       IF known /\ chosen # {}
       THEN Append(rest, [Request("custom", [chosen |-> chosen, win |-> Window(win)])
                            EXCEPT !.live = (view = "history")])
       ELSE rest

ToggleSensor(x) ==
  /\ view = "history" /\ known /\ Spend("acts") /\ Room(1)
  /\ custom' = IF x \in custom THEN custom \ {x} ELSE custom \cup {x}
  /\ LoadCustom(custom', requests)
  /\ UNCHANGED <<hash, ready, known, built, timers, figure, today, win, mode, panel>>

(* Without counters load raises before its request.                        *)
ModeButton(m) ==
  /\ view = "energy" /\ Spend("acts") /\ Room(1)
  /\ mode' = m
  /\ IF known THEN Loaded(Request("energy", m)) ELSE UNCHANGED requests
  /\ UNCHANGED <<hash, ready, known, mounted, win, custom, panel, registered>>

(* openEntity: a tile or row of a view, then the drawer's range buttons.   *)
OpenEntity(id, range) ==
  /\ known /\ Spend("acts") /\ Room(1)
  /\ IF drawer = None
     THEN /\ view \in {"overview", "settings", "entities"}
          /\ range = IF view = "settings" THEN LongRange ELSE UsualRange
     ELSE drawer.id = id
  /\ drawer' = [id |-> id, range |-> range]
  /\ sheet' = None
  /\ plot' = IF plot = None THEN None ELSE "gone"
  /\ requests' = Append(Detached(requests, {"drawer"}), Request("drawer", drawer'))
  /\ UNCHANGED <<hash, ready, known, mounted, choice, registered>>

CloseDrawer ==
  /\ drawer # None /\ Spend("acts")
  /\ drawer' = None /\ sheet' = None /\ plot' = None
  /\ registered' = registered - DrawerCharts
  /\ UNCHANGED <<hash, ready, known, mounted, choice, requests>>

-----------------------------------------------------------------------------
(* Intervals: 5 minutes, 1 minute, 30 seconds, 5 minutes.                  *)

Outstanding(kinds) == \E i \in DOMAIN requests : requests[i].of \in kinds

Tick(v, kinds, request) ==
  /\ v \in timers /\ known /\ Room(1)
  /\ IF Outstanding(kinds) THEN Spend("slow") ELSE UNCHANGED budget
  /\ Loaded(request)
  /\ UNCHANGED <<hash, ready, known, mounted, choice, panel, registered>>

TickTrend == Tick("overview", {"trend"}, Request("trend", None))
TickToday == Tick("overview", {"today"}, Request("today", None))
TickHistory ==
  win.end = None /\ Tick("history", {"history", "custom"}, HistoryRequest(win, known, TRUE))
TickEnergy == Tick("energy", {"energy"}, Request("energy", mode))

-----------------------------------------------------------------------------
(* Answers.                                                                *)

(* Request i is answered, or fails.                                        *)
Returns(i, of, ok) ==
  /\ i \in DOMAIN requests /\ requests[i].of = of
  /\ LET late == \E j \in 1 .. i - 1 : requests[j].of = of
         cost == [acts |-> 0, slow |-> 0, failures |-> IF ok THEN 0 ELSE 1,
                  overtakes |-> IF late THEN 1 ELSE 0]
     IN /\ \A b \in DOMAIN budget : cost[b] <= budget[b]
        /\ budget' = [b \in DOMAIN budget |-> budget[b] - cost[b]]
  /\ UNCHANGED <<hash, ready, known, built, timers, choice>>

(* overview.loadHistory: returns if the chart is gone.                     *)
TrendReturns(i, ok) ==
  /\ Returns(i, "trend", ok)
  /\ figure' = IF ok /\ view = "overview" THEN "day" ELSE figure
  /\ requests' = Without(requests, i)
  /\ UNCHANGED <<today, boxes, owned, panel, registered>>

(* loadToday: fills the element it found before the request.               *)
TodayReturns(i, ok) ==
  /\ Returns(i, "today", ok)
  /\ today' = (today \/ (ok /\ requests[i].live))
  /\ requests' = Without(requests, i)
  /\ UNCHANGED <<figure, boxes, owned, panel, registered>>

(* history.load: the charts of the view, if it is mounted and has any,     *)
(* then, whatever happened, the custom chart.                              *)
HistoryReturns(i, ok) ==
  /\ Returns(i, "history", IF requests[i].ask = None THEN TRUE ELSE ok)
  /\ LET r == requests[i]
     IN /\ figure' = IF ok /\ r.ask # None /\ view = "history" /\ built THEN r.ask ELSE figure
        /\ IF ~r.silent \/ custom # {}
           THEN LoadCustom(custom, Without(requests, i))
           ELSE requests' = Without(requests, i) /\ UNCHANGED <<boxes, owned, registered>>
  /\ UNCHANGED <<today, panel>>

(* loadCustom after its await: one chart per unit is added.                *)
CustomReturns(i, ok) ==
  /\ Returns(i, "custom", ok)
  /\ LET r == requests[i]
         n == IF ok THEN Groups(r.ask.chosen) ELSE 0
     IN /\ boxes' = IF ok /\ r.live THEN Append(boxes, r.ask) ELSE boxes
        /\ owned' = owned + n
        /\ registered' = registered + n
  /\ requests' = Without(requests, i)
  /\ UNCHANGED <<figure, today, panel>>

(* energy.load: the rows are those of the mode asked for, their labels     *)
(* those of the mode there is now.                                         *)
EnergyReturns(i, ok) ==
  /\ Returns(i, "energy", ok)
  /\ figure' = IF ok /\ view = "energy" /\ built
               THEN [rows |-> requests[i].ask, labels |-> mode] ELSE figure
  /\ requests' = Without(requests, i)
  /\ UNCHANGED <<today, boxes, owned, panel, registered>>

(* Whether an answer is drawn where its load found its place before it was *)
(* sent, or where the place is now.                                        *)
Bug_PlaceAfterAwait(r) == TRUE

DrawsHere(r) == r.live

(* drawer.load: dropped if the drawer has another entity by now; the old   *)
(* chart goes, the new one is drawn where this load was to draw it.        *)
DrawerReturns(i, ok) ==
  LET r == requests[i]
      mine == ok /\ drawer # None /\ drawer.id = r.ask.id
      numeric == r.ask.id \in Numeric
  IN /\ Returns(i, "drawer", ok)
     /\ plot' = IF ~mine THEN plot
                ELSE IF ~numeric THEN None
                ELSE IF DrawsHere(r) THEN "here" ELSE "gone"
     /\ sheet' = IF mine /\ DrawsHere(r) THEN r.ask
                 ELSE IF mine /\ plot = "here" THEN Blank
                 ELSE sheet
     /\ registered' = IF mine THEN registered - DrawerCharts + (IF numeric THEN 1 ELSE 0)
                      ELSE registered
     /\ requests' = Without(requests, i)
     /\ UNCHANGED <<drawer, figure, today, boxes, owned>>

Answered(i, ok) ==
  \/ TrendReturns(i, ok) \/ TodayReturns(i, ok) \/ HistoryReturns(i, ok)
  \/ CustomReturns(i, ok) \/ EnergyReturns(i, ok) \/ DrawerReturns(i, ok)

-----------------------------------------------------------------------------
Init ==
  /\ hash \in Names /\ ready = FALSE /\ known = FALSE
  /\ built = FALSE /\ timers = {} /\ figure = None /\ today = FALSE
  /\ boxes = <<>> /\ owned = 0
  /\ win = [span |-> CHOOSE s \in Spans : TRUE, end |-> None]
  /\ custom \in SUBSET Sensors
  /\ mode = CHOOSE m \in Modes : TRUE
  /\ drawer = None /\ sheet = None /\ plot = None
  /\ registered = 0 /\ requests = <<>>
  /\ budget = [acts |-> Acts, failures |-> Failures, overtakes |-> Overtakes, slow |-> SlowTicks]

Next ==
  \/ \E name \in Names : Navigate(name)
  \/ \E k \in BOOLEAN : FirstSnapshot(k)
  \/ LaterSnapshot
  \/ \E s \in Spans : RangeButton(s)
  \/ Earlier \/ Later \/ Zoom
  \/ \E x \in Sensors : ToggleSensor(x)
  \/ \E m \in Modes : ModeButton(m)
  \/ \E id \in Entities, range \in Ranges : OpenEntity(id, range)
  \/ CloseDrawer
  \/ TickTrend \/ TickToday \/ TickHistory \/ TickEnergy
  \/ \E i \in DOMAIN requests, ok \in BOOLEAN : Answered(i, ok)

(* Intervals fire, and requests that are under way come back.              *)
Fairness ==
  /\ WF_vars(TickTrend) /\ WF_vars(TickToday) /\ WF_vars(TickHistory) /\ WF_vars(TickEnergy)
  /\ WF_vars(\E i \in DOMAIN requests : TrendReturns(i, TRUE))
  /\ WF_vars(\E i \in DOMAIN requests : TodayReturns(i, TRUE))
  /\ WF_vars(\E i \in DOMAIN requests : HistoryReturns(i, TRUE))
  /\ WF_vars(\E i \in DOMAIN requests : CustomReturns(i, TRUE))
  /\ WF_vars(\E i \in DOMAIN requests : EnergyReturns(i, TRUE))
  /\ WF_vars(\E i \in DOMAIN requests : DrawerReturns(i, TRUE))

Spec == Init /\ [][Next]_vars
FairSpec == Spec /\ Fairness

-----------------------------------------------------------------------------
(* Properties.                                                             *)

(* charts.js:12, a change of the theme rebuilds every chart of the set:    *)
(* each of them belongs to the mounted view, to the drawer or to the list  *)
(* the history view destroys next, and no interval of a view that was left *)
(* goes on, however late an answer comes.                                  *)
NothingLeftBehind ==
  /\ registered = ChartsOf(view, built) + owned + DrawerCharts
  /\ timers \subseteq {view}
  /\ drawer = None => plot = None

(* The drawer never shows the history of another entity, or of a range     *)
(* other than the one its buttons say, in whatever order its answers come, *)
(* also when the same entity is opened again while it loads.               *)
DrawerTruthful == sheet \in {None, Blank} \/ (drawer # None /\ sheet = drawer)

(* What the mounted view has to show.                                      *)
Right ==
  /\ view = "overview" => figure # None
  /\ view = "history" => figure = Window(win)
  /\ view = "energy" => figure = [rows |-> mode, labels |-> mode]

KindsOf(v) ==
  IF v = "overview" THEN {"trend"} ELSE IF v \in {"history", "energy"} THEN {v} ELSE {}

Calm == budget.failures = Failures /\ budget.overtakes = Overtakes

(* While no request fails and none overtakes an earlier one of its kind, a *)
(* view with nothing under way shows what its buttons say, also the window *)
(* of a zoom, which no interval loads again; and so does the drawer.       *)
SettledIsRight ==
  Calm =>
    /\ known /\ built /\ ~Outstanding(KindsOf(view)) => Right
    /\ drawer # None /\ ~Outstanding({"drawer"}) => sheet = drawer

(* A view that stays open shows in the end what its buttons say, whatever  *)
(* failed or came too late: its interval loads it again.  The exceptions   *)
(* are a view mounted before its entities were known, a window in the      *)
(* past, and the custom chart without sensors, whose place keeps a chart   *)
(* that comes late.                                                        *)
ViewHeals ==
  \A v \in {"overview", "history", "energy"} :
    <>[](view = v /\ known /\ (built \/ v = "overview") /\ (v = "history" => win.end = None)) =>
      <>[](/\ Right
           /\ v = "overview" => today
           /\ v = "history" /\ custom # {} =>
                \/ boxes = <<[chosen |-> custom, win |-> Window(win)]>>
                \/ boxes = <<>> /\ Outstanding({"custom"}))

=============================================================================
