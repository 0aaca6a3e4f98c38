---------------------------- MODULE WebPage_proofs ----------------------------
(***************************************************************************)
(* Proofs about the page: what its views and its drawer ask for, with any  *)
(* number of charts, sensors, ranges and requests under way, answered in   *)
(* any order (WebPage); and what it draws of an answer, for any number of  *)
(* samples of any values (WebFigures).                                     *)
(***************************************************************************)
EXTENDS WebPage, WebFigures, SequenceTheorems, FiniteSetTheorems, WellFoundedInduction, TLAPS

(* The water law the overview draws.                                       *)
INSTANCE WaterLaw

(* What is asked.                                                          *)
Span == [from : Int, to : Int]

CustomAsk == [chosen : SUBSET Sensors, win : Span]

DrawerAsk == [id : Entities, range : Ranges]

(* A request, by the handler that its answer meets.                        *)
Requests ==
  [of : {"trend", "today", "history", "energy"},
   ask : {None} \cup Span \cup Modes, live : BOOLEAN, silent : BOOLEAN]
    \cup [of : {"custom"}, ask : CustomAsk, live : BOOLEAN, silent : BOOLEAN]
    \cup [of : {"drawer"}, ask : DrawerAsk, live : BOOLEAN, silent : BOOLEAN]

(* With the drawer at d, an answer that finds its place is d's.            *)
RequestsFor(d) ==
  {r \in Requests : r.of = "drawer" /\ r.live /\ d # None => r.ask = d}

WindowOK == win \in [span : Int, end : Int \cup {None}] /\ mode \in Modes

CountsOK ==
  /\ built \in BOOLEAN /\ known \in BOOLEAN
  /\ owned \in Nat /\ registered \in Int
  /\ custom \subseteq Sensors

PanelOK ==
  /\ plot \in {None, "here", "gone"}
  /\ drawer \in {None} \cup DrawerAsk
  /\ drawer # None => ready

(* The inductive invariant: types, what is under way, and the two          *)
(* properties.                                                             *)
PageInv ==
  /\ WindowOK /\ CountsOK /\ PanelOK
  /\ requests \in Seq(RequestsFor(drawer))
  /\ NothingLeftBehind
  /\ DrawerTruthful

-----------------------------------------------------------------------------
(* Operators.                                                              *)

LEMMA WindowType ==
  ASSUME NEW w \in [span : Int, end : Int \cup {None}]
  PROVE  Window(w) \in Span
BY DEF Window, Span

LEMMA GroupsType ==
  ASSUME NEW chosen \in SUBSET Sensors
  PROVE  Groups(chosen) \in Nat
<1> DEFINE T == {Unit[x] : x \in chosen}
<1> DEFINE f == [x \in chosen |-> Unit[x]]
<1>1. IsFiniteSet(chosen)
  BY FS_Subset, PageAssumption
<1>2. f \in Surjection(chosen, T)
  BY DEF Surjection
<1>3. IsFiniteSet(T)
  BY <1>1, <1>2, FS_Surjection
<1>. QED BY <1>3, FS_CardinalityType DEF Groups

(* The rest of a sequence without one of its elements.                     *)
LEMMA WithoutType ==
  ASSUME NEW S, NEW seq \in Seq(S), NEW i \in DOMAIN seq
  PROVE  Without(seq, i) \in Seq(S)
<1>1. Len(seq) \in Nat /\ DOMAIN seq = 1 .. Len(seq) /\ \A j \in 1 .. Len(seq) : seq[j] \in S
  BY LenProperties, ElementOfSeq
<1>2. Len(seq) - 1 \in Nat
  BY <1>1
<1>3. Without(seq, i) \in [1 .. Len(seq) - 1 -> S]
  BY <1>1, <1>2 DEF Without
<1>. QED BY <1>2, <1>3, SeqDef

(* Detached requests of a kind are drawn nowhere.                          *)
LEMMA DetachedType ==
  ASSUME NEW d, NEW seq \in Seq(RequestsFor(d)), NEW kinds
  PROVE  Detached(seq, kinds) \in Seq(RequestsFor(d))
<1>1. Len(seq) \in Nat /\ DOMAIN seq = 1 .. Len(seq)
        /\ \A j \in 1 .. Len(seq) : seq[j] \in RequestsFor(d)
  BY LenProperties, ElementOfSeq
<1>2. ASSUME NEW r \in RequestsFor(d) PROVE [r EXCEPT !.live = FALSE] \in RequestsFor(d)
  BY DEF RequestsFor, Requests
<1>3. Detached(seq, kinds) \in [1 .. Len(seq) -> RequestsFor(d)]
  BY <1>1, <1>2 DEF Detached
<1>. QED BY <1>1, <1>3, SeqDef

LEMMA DetachedDrawer ==
  ASSUME NEW d, NEW e, NEW seq \in Seq(RequestsFor(d))
  PROVE  Detached(seq, {"drawer"}) \in Seq(RequestsFor(e))
<1>1. Len(seq) \in Nat /\ DOMAIN seq = 1 .. Len(seq)
        /\ \A j \in 1 .. Len(seq) : seq[j] \in RequestsFor(d)
  BY LenProperties, ElementOfSeq
<1>2. ASSUME NEW r \in RequestsFor(d), r.of = "drawer"
      PROVE  [r EXCEPT !.live = FALSE] \in RequestsFor(e)
  BY <1>2 DEF RequestsFor, Requests
<1>3. ASSUME NEW r \in RequestsFor(d), r.of # "drawer" PROVE r \in RequestsFor(e)
  BY <1>3 DEF RequestsFor
<1>4. Detached(seq, {"drawer"}) \in [1 .. Len(seq) -> RequestsFor(e)]
  BY <1>1, <1>2, <1>3 DEF Detached
<1>. QED BY <1>1, <1>4, SeqDef

(* A closed drawer asks for nothing.                                       *)
LEMMA ClosedDrawer ==
  ASSUME NEW d, NEW seq \in Seq(RequestsFor(d))
  PROVE  seq \in Seq(RequestsFor(None))
<1>1. RequestsFor(d) \subseteq RequestsFor(None)
  BY DEF RequestsFor
<1>. QED BY <1>1, SeqMonotonic

LEMMA PlainRequest ==
  ASSUME NEW of \in {"trend", "today", "history", "energy"},
         NEW ask \in {None} \cup Span \cup Modes, NEW d
  PROVE  Request(of, ask) \in RequestsFor(d)
BY DEF Request, RequestsFor, Requests

LEMMA HistoryRequestType ==
  ASSUME NEW w \in [span : Int, end : Int \cup {None}], NEW k, NEW silent \in BOOLEAN, NEW d
  PROVE  HistoryRequest(w, k, silent) \in RequestsFor(d)
<1>1. (IF k THEN Window(w) ELSE None) \in {None} \cup Span
  BY WindowType
<1>. QED BY <1>1 DEF HistoryRequest, Request, RequestsFor, Requests

LEMMA SingleSeq ==
  ASSUME NEW S, NEW x \in S
  PROVE  <<x>> \in Seq(S)
OBVIOUS

(* What a view loads when it is mounted is for no drawer.                  *)
LEMMA LoadsType ==
  ASSUME WindowOK, NEW v, NEW k, NEW d
  PROVE  LoadsOf(v, k) \in Seq(RequestsFor(d))
<1>1. OverviewLoads(k) \in Seq(RequestsFor(d))
  BY PlainRequest DEF OverviewLoads
<1>2. HistoryRequest(win, k, FALSE) \in RequestsFor(d)
  BY HistoryRequestType DEF WindowOK
<1>3. HistoryLoads(k) \in Seq(RequestsFor(d))
  BY <1>2, SingleSeq DEF HistoryLoads
<1>4. EnergyLoads(k) \in Seq(RequestsFor(d))
  BY PlainRequest DEF EnergyLoads, WindowOK
<1>. QED BY <1>1, <1>3, <1>4 DEF LoadsOf
-----------------------------------------------------------------------------
(* Steps.                                                                  *)

LEMMA ChartsType ==
  ASSUME NEW v, NEW k \in BOOLEAN
  PROVE  ChartsOf(v, k) \in Nat
BY PageAssumption DEF ChartsOf

LEMMA PageInit == Init => PageInv
<1>. SUFFICES ASSUME Init PROVE PageInv
  OBVIOUS
<1>1. view = None /\ ChartsOf(view, built) = 0
  BY PageAssumption DEF Init, view, ChartsOf, Views
<1>2. WindowOK
  <2> DEFINE s0 == CHOOSE s \in Spans : TRUE
  <2> DEFINE m0 == CHOOSE m \in Modes : TRUE
  <2>1. s0 \in Spans /\ m0 \in Modes
    BY PageAssumption
  <2>2. win = [span |-> s0, end |-> None] /\ mode = m0
    BY DEF Init
  <2> HIDE DEF s0, m0
  <2>. QED BY <2>1, <2>2, PageAssumption DEF WindowOK
<1>3. requests \in Seq(RequestsFor(drawer))
  BY EmptySeq DEF Init
<1>4. CountsOK /\ PanelOK
  <2>1. /\ built = FALSE /\ known = FALSE /\ owned = 0 /\ registered = 0
        /\ custom \in SUBSET Sensors /\ plot = None /\ drawer = None
    BY DEF Init
  <2>2. owned \in Nat /\ registered \in Int
    BY <2>1
  <2>. QED BY <2>1, <2>2, Zenon DEF CountsOK, PanelOK
<1>5. NothingLeftBehind
  BY <1>1 DEF Init, NothingLeftBehind, DrawerCharts
<1>6. DrawerTruthful
  BY DEF Init, DrawerTruthful
<1>. QED BY <1>2, <1>3, <1>4, <1>5, <1>6 DEF PageInv

(* A view gives place to another: what unmount destroys is all the set has *)
(* of it.                                                                  *)
LEMMA ShowStep ==
  ASSUME PageInv, NEW v, NEW k \in BOOLEAN, Show(v, k),
         view' = v, drawer' = None, plot' = None
  PROVE  /\ built' \in BOOLEAN /\ owned' \in Nat /\ registered' \in Int
         /\ requests' \in Seq(RequestsFor(None))
         /\ NothingLeftBehind'
<1>. USE DEF PageInv
<1>1. ChartsOf(view, built) \in Nat /\ ChartsOf(v, k) \in Nat
  BY ChartsType DEF CountsOK
<1>2. owned' \in Nat /\ registered' = ChartsOf(v, k) + owned'
  BY <1>1 DEF Show, Released, CountsOK, NothingLeftBehind, DrawerCharts
<1>3. built' = k /\ timers' \subseteq {v}
  BY DEF Show, NothingLeftBehind, TimersOf
<1>4. NothingLeftBehind'
  BY <1>1, <1>2, <1>3 DEF NothingLeftBehind, DrawerCharts, CountsOK
<1>5. requests' \in Seq(RequestsFor(None))
  <2>1. requests \in Seq(RequestsFor(None))
    BY ClosedDrawer
  <2>2. Detached(requests, {"today", "custom"}) \in Seq(RequestsFor(None))
    BY <2>1, DetachedType
  <2>3. LoadsOf(v, k) \in Seq(RequestsFor(None))
    BY LoadsType
  <2>. QED BY <2>2, <2>3, ConcatProperties DEF Show
<1>. QED BY <1>1, <1>2, <1>3, <1>4, <1>5

LEMMA NavigateStep ==
  ASSUME PageInv, NEW name \in Names, Navigate(name)
  PROVE  PageInv'
<1>. USE DEF PageInv, CountsOK, PanelOK, WindowOK
<1>1. WindowOK' /\ PanelOK' /\ DrawerTruthful' /\ known' = known /\ custom' = custom
  BY DEF Navigate, DrawerTruthful, choice
<1>2. CASE ready /\ name # hash
  <2>1. view' = ViewOf(name)
    BY <1>2 DEF Navigate, view, ViewOf
  <2>2. Show(ViewOf(name), known) /\ drawer' = None /\ plot' = None
    BY <1>2 DEF Navigate
  <2>. QED BY <1>1, <2>1, <2>2, ShowStep
<1>3. CASE ~(ready /\ name # hash)
  <2>1. view' = view
    BY <1>3 DEF Navigate, view, ViewOf
  <2>2. /\ registered' = registered - DrawerCharts /\ requests' = requests
        /\ built' = built /\ owned' = owned /\ timers' = timers
        /\ drawer' = None /\ plot' = None
    BY <1>3 DEF Navigate, mounted
  <2>3. ChartsOf(view, built) \in Nat
    BY ChartsType
  <2>4. NothingLeftBehind'
    BY <2>1, <2>2, <2>3 DEF NothingLeftBehind, DrawerCharts
  <2>5. requests' \in Seq(RequestsFor(drawer'))
    BY <2>2, ClosedDrawer
  <2>. QED BY <1>1, <2>2, <2>3, <2>4, <2>5 DEF DrawerCharts
<1>. QED BY <1>2, <1>3

LEMMA SnapshotStep ==
  ASSUME PageInv, NEW k \in BOOLEAN, FirstSnapshot(k)
  PROVE  PageInv'
<1>. USE DEF PageInv, CountsOK, PanelOK, WindowOK
<1>1. drawer' = None /\ plot' = None /\ view' = ViewOf(hash)
  BY DEF FirstSnapshot, panel, NothingLeftBehind, view, ViewOf
<1>2. /\ WindowOK' /\ PanelOK' /\ DrawerTruthful'
      /\ known' \in BOOLEAN /\ custom' = custom
  BY <1>1 DEF FirstSnapshot, DrawerTruthful, choice, panel
<1>3. Show(ViewOf(hash), k)
  BY DEF FirstSnapshot
<1>. QED BY <1>1, <1>2, <1>3, ShowStep

(* Steps of a view, which leave the drawer and the routes alone.           *)
LEMMA ViewKept ==
  ASSUME PageInv, UNCHANGED <<hash, ready, built, timers, drawer, sheet, plot>>,
         owned' \in Nat, registered' = registered - owned + owned',
         known' \in BOOLEAN, custom' \subseteq Sensors, WindowOK',
         requests' \in Seq(RequestsFor(drawer))
  PROVE  PageInv'
<1>. USE DEF PageInv, CountsOK, PanelOK
<1>1. view' = view
  BY DEF view, ViewOf
<1>2. ChartsOf(view, built) \in Nat /\ DrawerCharts \in Nat
  BY ChartsType DEF DrawerCharts
<1>3. NothingLeftBehind'
  BY <1>1, <1>2 DEF NothingLeftBehind, DrawerCharts
<1>4. DrawerTruthful'
  BY DEF DrawerTruthful
<1>. QED BY <1>1, <1>2, <1>3, <1>4

LEMMA ShowWindowStep ==
  ASSUME PageInv, NEW w \in [span : Int, end : Int \cup {None}], ShowWindow(w)
  PROVE  PageInv'
<1>. USE DEF PageInv, CountsOK, WindowOK
<1>1. requests' \in Seq(RequestsFor(drawer))
  BY HistoryRequestType, AppendProperties DEF ShowWindow, Loaded
<1>. QED BY <1>1, ViewKept DEF ShowWindow, mounted, panel

(* An answer, and the rest of the requests.                                *)
LEMMA RestType ==
  ASSUME PageInv, NEW i, NEW of, NEW ok, Returns(i, of, ok)
  PROVE  /\ i \in DOMAIN requests
         /\ requests[i] \in RequestsFor(drawer) /\ requests[i].of = of
         /\ Without(requests, i) \in Seq(RequestsFor(drawer))
         /\ UNCHANGED <<hash, ready, known, built, timers, choice>>
<1>1. i \in DOMAIN requests /\ requests[i].of = of
        /\ UNCHANGED <<hash, ready, known, built, timers, choice>>
  BY DEF Returns
<1>2. requests \in Seq(RequestsFor(drawer))
  BY DEF PageInv
<1>. QED BY <1>1, <1>2, WithoutType, LenProperties, ElementOfSeq

(* loadCustom throws away as many charts as it holds.                      *)
LEMMA LoadCustomStep ==
  ASSUME PageInv, NEW chosen \in SUBSET Sensors, NEW rest \in Seq(RequestsFor(drawer)),
         LoadCustom(chosen, rest),
         UNCHANGED <<hash, ready, known, built, timers, drawer, sheet, plot, win, mode>>,
         custom' \subseteq Sensors
  PROVE  PageInv'
<1>. USE DEF PageInv, CountsOK, WindowOK
<1>1. owned' = 0 /\ registered' = registered - owned
  BY DEF LoadCustom
<1>2. (view = "history") \in BOOLEAN
  OBVIOUS
<1>3. [Request("custom", [chosen |-> chosen, win |-> Window(win)])
         EXCEPT !.live = (view = "history")] \in RequestsFor(drawer)
  BY <1>2, WindowType DEF Request, RequestsFor, Requests, CustomAsk
<1>4. requests' \in Seq(RequestsFor(drawer))
  BY <1>3, AppendProperties DEF LoadCustom
<1>5. WindowOK'
  OBVIOUS
<1>. QED BY <1>1, <1>4, <1>5, ViewKept

LEMMA CustomReturnsStep ==
  ASSUME PageInv, NEW i, NEW ok \in BOOLEAN, CustomReturns(i, ok)
  PROVE  PageInv'
<1>. USE DEF PageInv, CountsOK, WindowOK
<1> DEFINE n == IF ok THEN Groups(requests[i].ask.chosen) ELSE 0
<1>1. Returns(i, "custom", ok) /\ requests' = Without(requests, i)
        /\ owned' = owned + n /\ registered' = registered + n /\ UNCHANGED panel
  BY DEF CustomReturns
<1>2. requests[i].ask.chosen \in SUBSET Sensors
  <2>1. requests[i] \in RequestsFor(drawer) /\ requests[i].of = "custom"
    BY <1>1, RestType
  <2>2. requests[i].ask \in CustomAsk
    BY <2>1 DEF RequestsFor, Requests
  <2>. QED BY <2>2 DEF CustomAsk
<1>3. n \in Nat
  BY <1>2, GroupsType
<1> HIDE DEF n
<1>. QED BY <1>1, <1>3, RestType, ViewKept DEF panel, choice

LEMMA HistoryReturnsStep ==
  ASSUME PageInv, NEW i, NEW ok \in BOOLEAN, HistoryReturns(i, ok)
  PROVE  PageInv'
<1>. USE DEF PageInv, CountsOK, WindowOK
<1>1. PICK sure : Returns(i, "history", sure)
  BY DEF HistoryReturns
<1>2. UNCHANGED <<hash, ready, known, built, timers, drawer, sheet, plot, win, mode, custom>>
  BY <1>1 DEF HistoryReturns, Returns, panel, choice
<1>3. Without(requests, i) \in Seq(RequestsFor(drawer))
  BY <1>1, RestType
<1>4. CASE LoadCustom(custom, Without(requests, i))
  BY <1>2, <1>3, <1>4, LoadCustomStep
<1>5. CASE requests' = Without(requests, i) /\ UNCHANGED <<boxes, owned, registered>>
  BY <1>2, <1>3, <1>5, ViewKept
<1>. QED BY <1>4, <1>5 DEF HistoryReturns

(* The answers that fill a view.                                           *)
LEMMA ViewReturnsStep ==
  ASSUME PageInv, NEW i, NEW ok \in BOOLEAN,
         TrendReturns(i, ok) \/ TodayReturns(i, ok) \/ EnergyReturns(i, ok)
  PROVE  PageInv'
<1>. USE DEF PageInv, CountsOK, WindowOK
<1>1. PICK of : Returns(i, of, ok)
  BY DEF TrendReturns, TodayReturns, EnergyReturns
<1>2. requests' = Without(requests, i) /\ UNCHANGED <<owned, panel, registered>>
  BY DEF TrendReturns, TodayReturns, EnergyReturns
<1>. QED BY <1>1, <1>2, RestType, ViewKept DEF panel, choice

(* The answer for the drawer: either it is dropped, or it finds its place  *)
(* and is what the drawer asks for, or it takes a chart away.              *)
LEMMA DrawerReturnsStep ==
  ASSUME PageInv, NEW i, NEW ok \in BOOLEAN, DrawerReturns(i, ok)
  PROVE  PageInv'
<1>. USE DEF PageInv, CountsOK, WindowOK, PanelOK
<1> DEFINE r == requests[i]
<1> DEFINE mine == ok /\ drawer # None /\ drawer.id = r.ask.id
<1>1. Returns(i, "drawer", ok) /\ requests' = Without(requests, i)
        /\ UNCHANGED <<drawer, figure, today, boxes, owned>>
  BY DEF DrawerReturns
<1>2. UNCHANGED <<hash, ready, known, built, timers, choice>>
        /\ requests' \in Seq(RequestsFor(drawer'))
        /\ r \in RequestsFor(drawer) /\ r.of = "drawer"
  BY <1>1, RestType
<1>3. mine /\ r.live => r.ask = drawer
  BY <1>2 DEF RequestsFor
<1>4. sheet' = IF mine /\ r.live THEN r.ask
               ELSE IF mine /\ plot = "here" THEN Blank ELSE sheet
  BY DEF DrawerReturns, DrawsHere
<1>5. DrawerTruthful'
  BY <1>1, <1>3, <1>4 DEF DrawerTruthful
<1>6. view' = view /\ ChartsOf(view, built) \in Nat
  BY <1>2, ChartsType DEF view, ViewOf
<1>7. UNCHANGED <<hash, ready, known, built, timers, win, custom, mode, drawer, owned>>
  BY <1>1, <1>2 DEF choice
<1>8. CASE ~mine
  <2>1. plot' = plot /\ registered' = registered
    BY <1>8 DEF DrawerReturns
  <2>2. NothingLeftBehind'
    BY <1>6, <1>7, <2>1 DEF NothingLeftBehind, DrawerCharts
  <2>. QED BY <1>2, <1>5, <1>7, <2>1, <2>2
<1>9. CASE mine
  <2> DEFINE more == IF r.ask.id \in Numeric THEN 1 ELSE 0
  <2>1. drawer # None /\ registered' = registered - DrawerCharts + more
    BY <1>9 DEF DrawerReturns
  <2>2. plot' = IF r.ask.id \notin Numeric THEN None ELSE IF r.live THEN "here" ELSE "gone"
    BY <1>9 DEF DrawerReturns, DrawsHere
  <2>3. plot' \in {None, "here", "gone"} /\ DrawerCharts' = more
    BY <2>2, PageAssumption DEF DrawerCharts
  <2>4. DrawerCharts \in Nat /\ more \in Nat
    BY DEF DrawerCharts
  <2> HIDE DEF more, r, mine
  <2>5. registered = ChartsOf(view, built) + owned + DrawerCharts /\ timers \subseteq {view}
    BY DEF NothingLeftBehind
  <2>6. registered' = ChartsOf(view, built) + owned + more /\ registered' \in Int
    BY <1>6, <2>1, <2>4, <2>5
  <2>7. ChartsOf(view, built)' = ChartsOf(view, built)
    BY <1>6, <1>7 DEF ChartsOf
  <2>8. NothingLeftBehind'
    BY <1>6, <1>7, <2>1, <2>3, <2>5, <2>6, <2>7 DEF NothingLeftBehind
  <2>. QED BY <1>2, <1>5, <1>7, <2>3, <2>6, <2>8
<1>. QED BY <1>8, <1>9

-----------------------------------------------------------------------------
(* The user, the intervals, and the whole.                                 *)

LEMMA WindowButtonsStep ==
  ASSUME PageInv, (\E s \in Spans : RangeButton(s)) \/ Earlier \/ Later \/ Zoom
  PROVE  PageInv'
<1>. DEFINE W == [span : Int, end : Int \cup {None}]
<1>1. win \in W /\ Spans \subseteq Int /\ MinSpan \in Int
  BY PageAssumption DEF PageInv, WindowOK
<1>2. ASSUME NEW s \in Spans, RangeButton(s) PROVE PageInv'
  BY <1>1, <1>2, ShowWindowStep DEF RangeButton
<1>3. CASE Earlier
  <2>1. Window(win).from \in Int
    BY <1>1 DEF Window
  <2>2. [win EXCEPT !.end = Window(win).from] \in W
    BY <1>1, <2>1
  <2>. QED BY <1>3, <2>2, ShowWindowStep DEF Earlier
<1>4. CASE Later
  <2>1. win.end \in Int /\ win.span \in Int
    BY <1>1, <1>4 DEF Later
  <2>2. [win EXCEPT !.end = IF win.end + win.span >= 0 THEN None ELSE win.end + win.span] \in W
    BY <1>1, <2>1
  <2>. QED BY <1>4, <2>2, ShowWindowStep DEF Later
<1>5. CASE Zoom
  <2>1. PICK a \in figure.from .. figure.to, b \in figure.from .. figure.to :
          ShowWindow([span |-> IF b - a < MinSpan THEN MinSpan ELSE b - a, end |-> b])
    BY <1>5 DEF Zoom
  <2>2. a \in Int /\ b \in Int
    OBVIOUS
  <2>3. [span |-> IF b - a < MinSpan THEN MinSpan ELSE b - a, end |-> b] \in W
    BY <1>1, <2>2
  <2>. QED BY <2>1, <2>3, ShowWindowStep
<1>. QED BY <1>2, <1>3, <1>4, <1>5

LEMMA ToggleSensorStep ==
  ASSUME PageInv, NEW x \in Sensors, ToggleSensor(x)
  PROVE  PageInv'
<1>1. custom' \in SUBSET Sensors /\ LoadCustom(custom', requests)
        /\ UNCHANGED <<hash, ready, known, built, timers, drawer, sheet, plot, win, mode>>
  BY DEF ToggleSensor, panel, PageInv, CountsOK
<1>2. requests \in Seq(RequestsFor(drawer))
  BY DEF PageInv
<1>. QED BY <1>1, <1>2, LoadCustomStep

(* One more request of a view.                                             *)
LEMMA LoadedStep ==
  ASSUME PageInv, NEW request \in RequestsFor(drawer), Loaded(request),
         UNCHANGED <<hash, ready, known, mounted, panel, registered, win, custom>>,
         mode' \in Modes
  PROVE  PageInv'
<1>. USE DEF PageInv, CountsOK, WindowOK
<1>1. requests' \in Seq(RequestsFor(drawer))
  BY AppendProperties DEF Loaded
<1>. QED BY <1>1, ViewKept DEF mounted, panel

LEMMA ModeButtonStep ==
  ASSUME PageInv, NEW m \in Modes, ModeButton(m)
  PROVE  PageInv'
<1>1. UNCHANGED <<hash, ready, known, mounted, panel, registered, win, custom>> /\ mode' \in Modes
  BY DEF ModeButton
<1>2. CASE known
  BY <1>1, <1>2, PlainRequest, LoadedStep DEF ModeButton
<1>3. CASE ~known
  <2>1. UNCHANGED requests
    BY <1>3 DEF ModeButton
  <2>. QED BY <1>1, <2>1, ViewKept DEF mounted, panel, PageInv, CountsOK, WindowOK
<1>. QED BY <1>2, <1>3

LEMMA TickStep ==
  ASSUME PageInv, TickTrend \/ TickToday \/ TickHistory \/ TickEnergy
  PROVE  PageInv'
<1>1. ASSUME NEW v, NEW kinds, NEW request \in RequestsFor(drawer), Tick(v, kinds, request)
      PROVE  PageInv'
  BY <1>1, LoadedStep DEF Tick, choice, PageInv, WindowOK
<1>2. /\ Request("trend", None) \in RequestsFor(drawer)
      /\ Request("today", None) \in RequestsFor(drawer)
  BY PlainRequest
<1>3. Request("energy", mode) \in RequestsFor(drawer)
  BY PlainRequest DEF PageInv, WindowOK
<1>4. HistoryRequest(win, known, TRUE) \in RequestsFor(drawer)
  BY HistoryRequestType DEF PageInv, WindowOK
<1>. QED BY <1>1, <1>2, <1>3, <1>4 DEF TickTrend, TickToday, TickHistory, TickEnergy

(* Another entity or range: whatever was under way for the drawer has lost *)
(* its place.                                                              *)
LEMMA OpenEntityStep ==
  ASSUME PageInv, NEW id \in Entities, NEW range \in Ranges, OpenEntity(id, range)
  PROVE  PageInv'
<1>. USE DEF PageInv, CountsOK, WindowOK, PanelOK
<1>1. /\ drawer' = [id |-> id, range |-> range] /\ sheet' = None
      /\ plot' = (IF plot = None THEN None ELSE "gone")
      /\ UNCHANGED <<hash, ready, known, mounted, choice, registered>>
  BY DEF OpenEntity
<1>2. drawer' \in DrawerAsk /\ drawer' # None
  BY <1>1, PageAssumption DEF DrawerAsk
<1>3. ready
  <2>1. CASE drawer = None
    <3>1. view \in {"overview", "settings", "entities"}
      BY <2>1 DEF OpenEntity
    <3>2. CASE ~ready
      BY <3>1, <3>2, PageAssumption DEF view, Views
    <3>. QED BY <3>2
  <2>. QED BY <2>1
<1>4. PanelOK' /\ DrawerTruthful'
  BY <1>1, <1>2, <1>3 DEF DrawerTruthful
<1>5. requests' \in Seq(RequestsFor(drawer'))
  <2>1. Detached(requests, {"drawer"}) \in Seq(RequestsFor(drawer'))
    BY DetachedDrawer
  <2>2. Request("drawer", drawer') \in RequestsFor(drawer')
    BY <1>2 DEF Request, RequestsFor, Requests
  <2>. QED BY <2>1, <2>2, AppendProperties DEF OpenEntity
<1>6. NothingLeftBehind'
  <2>1. view' = view
    BY <1>1 DEF view, ViewOf
  <2>2. (plot' = None) <=> (plot = None)
    BY <1>1, PageAssumption
  <2>3. drawer' # None
    BY <1>2
  <2>. QED BY <1>1, <2>1, <2>2, <2>3 DEF NothingLeftBehind, DrawerCharts, ChartsOf, mounted
<1>. QED BY <1>1, <1>4, <1>5, <1>6 DEF mounted, choice

LEMMA CloseDrawerStep ==
  ASSUME PageInv, CloseDrawer
  PROVE  PageInv'
<1>. USE DEF PageInv, CountsOK, WindowOK, PanelOK
<1>1. /\ drawer' = None /\ sheet' = None /\ plot' = None
      /\ registered' = registered - DrawerCharts
      /\ UNCHANGED <<hash, ready, known, mounted, choice, requests>>
  BY DEF CloseDrawer
<1>2. view' = view /\ ChartsOf(view, built) \in Nat
  BY <1>1, ChartsType DEF view, ViewOf
<1>3. NothingLeftBehind' /\ registered' \in Int
  BY <1>1, <1>2 DEF NothingLeftBehind, DrawerCharts, mounted
<1>4. requests' \in Seq(RequestsFor(drawer'))
  BY <1>1, ClosedDrawer
<1>. QED BY <1>1, <1>3, <1>4 DEF mounted, choice, DrawerTruthful

(* Every step of the page keeps the invariant.                             *)
LEMMA PageStep == PageInv /\ [Next]_vars => PageInv'
<1>. SUFFICES ASSUME PageInv, [Next]_vars PROVE PageInv'
  OBVIOUS
<1>1. CASE \E name \in Names : Navigate(name)
  BY <1>1, NavigateStep
<1>2. CASE \E k \in BOOLEAN : FirstSnapshot(k)
  BY <1>2, SnapshotStep
<1>3. CASE LaterSnapshot
  BY <1>3, ViewKept DEF LaterSnapshot, mounted, choice, panel, PageInv, CountsOK, WindowOK
<1>4. CASE (\E s \in Spans : RangeButton(s)) \/ Earlier \/ Later \/ Zoom
  BY <1>4, WindowButtonsStep
<1>5. CASE \E x \in Sensors : ToggleSensor(x)
  BY <1>5, ToggleSensorStep
<1>6. CASE \E m \in Modes : ModeButton(m)
  BY <1>6, ModeButtonStep
<1>7. CASE \E id \in Entities, range \in Ranges : OpenEntity(id, range)
  BY <1>7, OpenEntityStep
<1>8. CASE CloseDrawer
  BY <1>8, CloseDrawerStep
<1>9. CASE TickTrend \/ TickToday \/ TickHistory \/ TickEnergy
  BY <1>9, TickStep
<1>10. CASE \E i \in DOMAIN requests, ok \in BOOLEAN : Answered(i, ok)
  BY <1>10, ViewReturnsStep, HistoryReturnsStep, CustomReturnsStep, DrawerReturnsStep DEF Answered
<1>11. CASE UNCHANGED vars
  BY <1>11, ViewKept DEF vars, mounted, choice, panel, PageInv, CountsOK, WindowOK
<1>. QED BY <1>1, <1>2, <1>3, <1>4, <1>5, <1>6, <1>7, <1>8, <1>9, <1>10, <1>11 DEF Next

(* views, drawer.js and charts.js: the types, what is under way and both   *)
(* properties hold in every state.                                         *)
THEOREM PageInvariant == Spec => []PageInv
BY PageInit, PageStep, PTL DEF Spec

(* charts.js:10, unmount, close and loadCustom: no chart and no interval   *)
(* of a view or drawer that is gone stays behind.                          *)
THEOREM NothingKept == Spec => []NothingLeftBehind
<1>1. PageInv => NothingLeftBehind
  BY DEF PageInv
<1>. QED BY <1>1, PageInvariant, PTL

(* drawer.js, openEntity and load: the drawer shows the history of its own *)
(* entity and range, or none.                                              *)
THEOREM DrawerShowsItsOwn == Spec => []DrawerTruthful
<1>1. PageInv => DrawerTruthful
  BY DEF PageInv
<1>. QED BY <1>1, PageInvariant, PTL

-----------------------------------------------------------------------------
(* What the buttons say.  As long as nothing fails and answers of a kind   *)
(* keep their order, the last request of a kind has the last word.         *)

(* The last request of a kind is for what is asked now, and has its place. *)
Promised(seq, kind, asked) ==
  \E i \in DOMAIN seq :
    /\ seq[i].of = kind /\ seq[i].ask = asked /\ seq[i].live
    /\ \A j \in DOMAIN seq : i < j => seq[j].of # kind

Absent(seq, kind) == \A j \in DOMAIN seq : seq[j].of # kind

Fits(seq, kind, asked, right) ==
  Promised(seq, kind, asked) \/ (Absent(seq, kind) /\ right)

ViewFits ==
  known /\ built =>
    /\ view = "overview" => Fits(requests, "trend", None, figure # None)
    /\ view = "history" => Fits(requests, "history", Window(win), figure = Window(win))
    /\ view = "energy" => Fits(requests, "energy", mode, figure = [rows |-> mode, labels |-> mode])

DrawerFits == drawer # None => Fits(requests, "drawer", drawer, sheet = drawer)

BudgetOK ==
  /\ budget \in [{"acts", "slow", "failures", "overtakes"} -> Int]
  /\ budget.failures <= Failures /\ budget.overtakes <= Overtakes

(* A view finds only entities that are known.                              *)
Fitting ==
  /\ BudgetOK
  /\ built => known
  /\ Calm => ViewFits /\ DrawerFits

FitsInv == PageInv /\ Fitting

(* What the last request of a kind says is kept.                           *)
Keeps(old, new, kind) ==
  /\ Absent(old, kind) => Absent(new, kind)
  /\ \A asked : Promised(old, kind, asked) => Promised(new, kind, asked)

LEMMA AppendKeeps ==
  ASSUME NEW S, NEW seq \in Seq(S), NEW r, NEW kind, r.of # kind
  PROVE  Keeps(seq, Append(seq, r), kind)
<1> DEFINE new == Append(seq, r)
<1>1. /\ Len(seq) \in Nat /\ DOMAIN seq = 1 .. Len(seq) /\ DOMAIN new = 1 .. Len(seq) + 1
      /\ \A j \in 1 .. Len(seq) : new[j] = seq[j]
      /\ new[Len(seq) + 1] = r
  <2>1. seq \in Seq(S \cup {r}) /\ r \in S \cup {r}
    BY SeqMonotonic
  <2>. QED BY <2>1, AppendProperties, LenProperties
<1> HIDE DEF new
<1>2. \A j \in DOMAIN new : j \in DOMAIN seq \/ j = Len(seq) + 1
  BY <1>1
<1>3. \A j \in DOMAIN seq : j \in DOMAIN new
  BY <1>1
<1>4. Absent(seq, kind) => Absent(new, kind)
  BY <1>1, <1>2 DEF Absent
<1>5. ASSUME NEW asked, Promised(seq, kind, asked) PROVE Promised(new, kind, asked)
  <2>1. PICK i \in DOMAIN seq :
          /\ seq[i].of = kind /\ seq[i].ask = asked /\ seq[i].live
          /\ \A j \in DOMAIN seq : i < j => seq[j].of # kind
    BY <1>5 DEF Promised
  <2>2. new[i].of = kind /\ new[i].ask = asked /\ new[i].live /\ i \in DOMAIN new
    BY <1>1, <1>3, <2>1
  <2>3. \A j \in DOMAIN new : i < j => new[j].of # kind
    BY <1>1, <1>2, <2>1
  <2>. QED BY <2>2, <2>3 DEF Promised
<1>. QED BY <1>4, <1>5 DEF Keeps, new

LEMMA AppendPromises ==
  ASSUME NEW S, NEW seq \in Seq(S), NEW r, NEW kind, NEW asked,
         r.of = kind, r.ask = asked, r.live
  PROVE  Promised(Append(seq, r), kind, asked)
<1> DEFINE new == Append(seq, r)
<1>1. Len(seq) \in Nat /\ DOMAIN new = 1 .. Len(seq) + 1 /\ new[Len(seq) + 1] = r
  <2>1. seq \in Seq(S \cup {r}) /\ r \in S \cup {r}
    BY SeqMonotonic
  <2>. QED BY <2>1, AppendProperties, LenProperties
<1> HIDE DEF new
<1>2. \A j \in DOMAIN new : ~(Len(seq) + 1 < j)
  BY <1>1
<1>3. Len(seq) + 1 \in DOMAIN new
  BY <1>1
<1>. QED BY <1>1, <1>2, <1>3 DEF Promised, new

LEMMA DetachedKeeps ==
  ASSUME NEW d, NEW seq \in Seq(RequestsFor(d)), NEW kinds, NEW kind, kind \notin kinds
  PROVE  Keeps(seq, Detached(seq, kinds), kind)
<1> DEFINE new == Detached(seq, kinds)
<1>1. DOMAIN new = DOMAIN seq
  BY DEF Detached
<1>2. ASSUME NEW j \in DOMAIN seq
      PROVE  new[j].of = seq[j].of /\ (seq[j].of = kind => new[j] = seq[j])
  <2>1. seq[j] \in RequestsFor(d)
    BY LenProperties, ElementOfSeq
  <2>2. [seq[j] EXCEPT !.live = FALSE].of = seq[j].of
    BY <2>1 DEF RequestsFor, Requests
  <2>. QED BY <2>2 DEF Detached
<1> HIDE DEF new
<1>3. Absent(seq, kind) => Absent(new, kind)
  BY <1>1, <1>2 DEF Absent
<1>4. ASSUME NEW asked, Promised(seq, kind, asked) PROVE Promised(new, kind, asked)
  BY <1>1, <1>2, <1>4 DEF Promised
<1>. QED BY <1>3, <1>4 DEF Keeps, new

LEMMA ConcatPromises ==
  ASSUME NEW S, NEW s \in Seq(S), NEW t \in Seq(S), NEW kind, NEW asked,
         Promised(t, kind, asked)
  PROVE  Promised(s \o t, kind, asked)
<1> DEFINE new == s \o t
<1>1. /\ Len(s) \in Nat /\ Len(t) \in Nat /\ DOMAIN t = 1 .. Len(t)
      /\ DOMAIN new = 1 .. Len(s) + Len(t)
      /\ \A j \in 1 .. Len(s) + Len(t) : j > Len(s) => new[j] = t[j - Len(s)]
  BY ConcatProperties, LenProperties
<1> HIDE DEF new
<1>2. PICK i \in DOMAIN t :
        /\ t[i].of = kind /\ t[i].ask = asked /\ t[i].live
        /\ \A j \in DOMAIN t : i < j => t[j].of # kind
  BY DEF Promised
<1>3. i \in Int /\ 1 <= i /\ i <= Len(t)
  BY <1>1
<1>4. Len(s) + i \in DOMAIN new /\ Len(s) + i > Len(s) /\ (Len(s) + i) - Len(s) = i
  BY <1>1, <1>3
<1>5. new[Len(s) + i] = t[i]
  BY <1>1, <1>4
<1>6. ASSUME NEW j \in DOMAIN new, Len(s) + i < j PROVE new[j].of # kind
  <2>1. j - Len(s) \in DOMAIN t /\ i < j - Len(s) /\ j > Len(s)
    BY <1>1, <1>3, <1>6
  <2>. QED BY <1>1, <1>2, <2>1
<1>. QED BY <1>2, <1>4, <1>5, <1>6 DEF Promised, new

(* The places the requests but one have in the rest.                       *)
LEMMA WithoutPlaces ==
  ASSUME NEW S, NEW seq \in Seq(S), NEW i \in DOMAIN seq
  PROVE  /\ \A j \in DOMAIN Without(seq, i) :
              LET q == IF j < i THEN j ELSE j + 1
              IN q \in DOMAIN seq /\ q # i /\ Without(seq, i)[j] = seq[q]
         /\ \A q \in DOMAIN seq : q # i =>
              LET j == IF q < i THEN q ELSE q - 1
              IN j \in DOMAIN Without(seq, i) /\ Without(seq, i)[j] = seq[q]
<1>1. Len(seq) \in Nat /\ DOMAIN seq = 1 .. Len(seq)
  BY LenProperties
<1>2. DOMAIN Without(seq, i) = 1 .. Len(seq) - 1
  BY DEF Without
<1>3. \A j \in 1 .. Len(seq) - 1 : Without(seq, i)[j] = seq[IF j < i THEN j ELSE j + 1]
  BY DEF Without
<1>4. ASSUME NEW j \in DOMAIN Without(seq, i), NEW q, q = IF j < i THEN j ELSE j + 1
      PROVE  q \in DOMAIN seq /\ q # i /\ Without(seq, i)[j] = seq[q]
  BY <1>1, <1>2, <1>3, <1>4
<1>5. ASSUME NEW q \in DOMAIN seq, q # i, NEW j, j = IF q < i THEN q ELSE q - 1
      PROVE  j \in DOMAIN Without(seq, i) /\ Without(seq, i)[j] = seq[q]
  <2>1. j \in 1 .. Len(seq) - 1 /\ q = IF j < i THEN j ELSE j + 1
    BY <1>1, <1>5
  <2>. QED BY <1>2, <1>3, <2>1
<1>. QED BY <1>4, <1>5

LEMMA WithoutKeeps ==
  ASSUME NEW S, NEW seq \in Seq(S), NEW i \in DOMAIN seq, NEW kind
  PROVE  /\ Absent(seq, kind) => Absent(Without(seq, i), kind)
         /\ \A asked : Promised(seq, kind, asked) =>
              \/ Promised(Without(seq, i), kind, asked)
              \/ /\ seq[i].of = kind /\ seq[i].ask = asked /\ seq[i].live
                 /\ \A j \in DOMAIN seq : i < j => seq[j].of # kind
<1> DEFINE new == Without(seq, i)
<1> DEFINE back(j) == IF j < i THEN j ELSE j + 1
<1> DEFINE on(q) == IF q < i THEN q ELSE q - 1
<1>1. DOMAIN seq \subseteq Int /\ DOMAIN new \subseteq Int
  BY LenProperties DEF Without
<1>2. \A j \in DOMAIN new : back(j) \in DOMAIN seq /\ back(j) # i /\ new[j] = seq[back(j)]
  BY WithoutPlaces
<1>3. \A q \in DOMAIN seq : q # i => on(q) \in DOMAIN new /\ new[on(q)] = seq[q]
  BY WithoutPlaces
<1>4. \A q \in DOMAIN seq, j \in DOMAIN new : on(q) < j /\ q # i => q < back(j)
  BY <1>1
<1> HIDE DEF new, back, on
<1>5. Absent(seq, kind) => Absent(new, kind)
  BY <1>2 DEF Absent
<1>6. ASSUME NEW asked, Promised(seq, kind, asked),
             ~(/\ seq[i].of = kind /\ seq[i].ask = asked /\ seq[i].live
               /\ \A j \in DOMAIN seq : i < j => seq[j].of # kind)
      PROVE  Promised(new, kind, asked)
  <2>1. PICK q \in DOMAIN seq :
          /\ seq[q].of = kind /\ seq[q].ask = asked /\ seq[q].live
          /\ \A j \in DOMAIN seq : q < j => seq[j].of # kind
    BY <1>6 DEF Promised
  <2>2. q # i
    BY <1>6, <2>1
  <2>3. on(q) \in DOMAIN new /\ new[on(q)] = seq[q]
    BY <1>3, <2>2
  <2>4. ASSUME NEW j \in DOMAIN new, on(q) < j PROVE new[j].of # kind
    BY <1>2, <1>4, <2>1, <2>2, <2>4
  <2>. QED BY <2>1, <2>3, <2>4 DEF Promised
<1>. QED BY <1>5, <1>6 DEF new

(* A request of another kind is answered.                                  *)
LEMMA WithoutOther ==
  ASSUME NEW S, NEW seq \in Seq(S), NEW i \in DOMAIN seq, NEW kind, seq[i].of # kind
  PROVE  Keeps(seq, Without(seq, i), kind)
BY WithoutKeeps DEF Keeps

(* The first request of a kind is answered: it was the last one too, or    *)
(* the last one is still under way.                                        *)
LEMMA WithoutFirst ==
  ASSUME NEW S, NEW seq \in Seq(S), NEW i \in DOMAIN seq, NEW kind, NEW asked,
         seq[i].of = kind, \A j \in 1 .. i - 1 : seq[j].of # kind,
         Promised(seq, kind, asked)
  PROVE  \/ Promised(Without(seq, i), kind, asked)
         \/ Absent(Without(seq, i), kind) /\ seq[i].ask = asked /\ seq[i].live
<1>1. CASE /\ seq[i].of = kind /\ seq[i].ask = asked /\ seq[i].live
           /\ \A j \in DOMAIN seq : i < j => seq[j].of # kind
  <2>1. DOMAIN seq = 1 .. Len(seq) /\ Len(seq) \in Nat
    BY LenProperties
  <2>2. \A q \in DOMAIN seq : q # i => seq[q].of # kind
    BY <1>1, <2>1
  <2>3. DOMAIN Without(seq, i) \subseteq Int
    BY <2>1 DEF Without
  <2>4. Absent(Without(seq, i), kind)
    BY <2>2, <2>3, WithoutPlaces DEF Absent
  <2>. QED BY <1>1, <2>4
<1>. QED BY <1>1, WithoutKeeps

(* What the user does and the intervals cost nothing that Calm counts.     *)
LEMMA UserBudget ==
  ASSUME BudgetOK, NEW what \in {"acts", "slow"}, Spend(what) \/ UNCHANGED budget
  PROVE  BudgetOK' /\ (Calm' => Calm)
<1>1. /\ budget' \in [{"acts", "slow", "failures", "overtakes"} -> Int]
      /\ budget'.failures = budget.failures /\ budget'.overtakes = budget.overtakes
  BY DEF BudgetOK, Spend
<1>. QED BY <1>1 DEF BudgetOK, Calm

(* Calm, an answer is a success and the first of its kind.                 *)
LEMMA AnswerBudget ==
  ASSUME PageInv, BudgetOK, NEW i, NEW of, NEW ok \in BOOLEAN, Returns(i, of, ok)
  PROVE  /\ BudgetOK'
         /\ Calm' => Calm /\ ok /\ \A j \in 1 .. i - 1 : requests[j].of # of
<1>1. PICK late \in BOOLEAN : late = (\E j \in 1 .. i - 1 : requests[j].of = of)
  OBVIOUS
<1>2. PICK cost \in [acts : {0}, slow : {0}, failures : {0, 1}, overtakes : {0, 1}] :
        cost = [acts |-> 0, slow |-> 0, failures |-> IF ok THEN 0 ELSE 1,
                overtakes |-> IF late THEN 1 ELSE 0]
  OBVIOUS
<1>3. budget' = [b \in DOMAIN budget |-> budget[b] - cost[b]]
  BY <1>1, <1>2 DEF Returns
<1>4. DOMAIN budget = {"acts", "slow", "failures", "overtakes"}
      /\ budget.failures \in Int /\ budget.overtakes \in Int
      /\ budget.acts \in Int /\ budget.slow \in Int
  BY DEF BudgetOK
<1>5. /\ budget'.failures = budget.failures - cost.failures
      /\ budget'.overtakes = budget.overtakes - cost.overtakes
      /\ budget'.acts = budget.acts - cost.acts /\ budget'.slow = budget.slow - cost.slow
      /\ budget' = [b \in {"acts", "slow", "failures", "overtakes"} |-> budget'[b]]
  BY <1>3, <1>4
<1>6. /\ cost.failures \in {0, 1} /\ cost.overtakes \in {0, 1} /\ cost.acts = 0 /\ cost.slow = 0
      /\ (ok <=> cost.failures = 0) /\ (late <=> cost.overtakes # 0)
  BY <1>2
<1>7. Failures \in Int /\ Overtakes \in Int
  BY PageAssumption
<1>8. /\ budget'.failures <= Failures /\ budget'.overtakes <= Overtakes
      /\ budget'.failures \in Int /\ budget'.overtakes \in Int
      /\ budget'.acts \in Int /\ budget'.slow \in Int
  BY <1>4, <1>5, <1>6, <1>7 DEF BudgetOK
<1>9. BudgetOK'
  BY <1>5, <1>8 DEF BudgetOK
<1>10. ASSUME Calm' PROVE Calm /\ cost.failures = 0 /\ cost.overtakes = 0
  BY <1>4, <1>5, <1>6, <1>7, <1>10 DEF Calm, BudgetOK
<1>11. Calm' => Calm /\ ok /\ ~late
  BY <1>6, <1>10
<1>. QED BY <1>1, <1>9, <1>11

(* A step that leaves view and drawer alone, and what was promised.        *)
LEMMA ViewFitsKept ==
  ASSUME view' = view,
         UNCHANGED <<known, built, figure, win, mode>>, ViewFits,
         view = "overview" => Keeps(requests, requests', "trend"),
         view = "history" => Keeps(requests, requests', "history"),
         view = "energy" => Keeps(requests, requests', "energy")
  PROVE  ViewFits'
<1>. SUFFICES ASSUME known, built PROVE ViewFits'
  BY DEF ViewFits
<1>1. Window(win)' = Window(win)
  BY DEF Window
<1>2. CASE view = "overview"
  <2>1. Fits(requests, "trend", None, figure # None)
    BY <1>2 DEF ViewFits
  <2>2. Fits(requests, "trend", None, figure # None)'
    BY <1>2, <2>1 DEF Fits, Keeps
  <2>. QED BY <1>2, <2>2 DEF ViewFits
<1>3. CASE view = "history"
  <2>1. Fits(requests, "history", Window(win), figure = Window(win))
    BY <1>3 DEF ViewFits
  <2>2. Fits(requests, "history", Window(win), figure = Window(win))'
    BY <1>1, <1>3, <2>1 DEF Fits, Keeps
  <2>. QED BY <1>3, <2>2 DEF ViewFits
<1>4. CASE view = "energy"
  <2>1. Fits(requests, "energy", mode, figure = [rows |-> mode, labels |-> mode])
    BY <1>4 DEF ViewFits
  <2>2. Fits(requests, "energy", mode, figure = [rows |-> mode, labels |-> mode])'
    BY <1>4, <2>1 DEF Fits, Keeps
  <2>. QED BY <1>4, <2>2 DEF ViewFits
<1>. QED BY <1>2, <1>3, <1>4 DEF ViewFits

LEMMA DrawerFitsKept ==
  ASSUME UNCHANGED <<drawer, sheet>>, DrawerFits, Keeps(requests, requests', "drawer")
  PROVE  DrawerFits'
BY DEF DrawerFits, Fits, Keeps

LEMMA KeepsItself == ASSUME NEW seq, NEW kind PROVE Keeps(seq, seq, kind)
BY DEF Keeps

(* A view that is mounted loads what it is to show.                        *)
LEMMA ShowFits ==
  ASSUME PageInv, NEW v, NEW k \in BOOLEAN, Show(v, k),
         view' = v, known' = k, UNCHANGED <<win, mode>>
  PROVE  ViewFits'
<1>. SUFFICES ASSUME k PROVE ViewFits'
  BY DEF ViewFits
<1> DEFINE old == Detached(requests, {"today", "custom"})
<1>1. requests' = old \o LoadsOf(v, k)
  BY DEF Show
<1>2. old \in Seq(RequestsFor(drawer)) /\ LoadsOf(v, k) \in Seq(RequestsFor(drawer))
  BY DetachedType, LoadsType DEF PageInv
<1> HIDE DEF old
<1>3. ASSUME NEW kind, NEW asked, Promised(LoadsOf(v, k), kind, asked)
      PROVE  Promised(requests', kind, asked)
  BY <1>1, <1>2, <1>3, ConcatPromises
<1>4. ASSUME NEW r, NEW kind, NEW asked, r.of = kind, r.ask = asked, r.live
      PROVE  Promised(<<r>>, kind, asked)
  BY <1>4 DEF Promised
<1>5. v = "overview" => Promised(requests', "trend", None)
  <2>1. Promised(<<Request("trend", None), Request("today", None)>>, "trend", None)
    BY DEF Promised, Request
  <2>. QED BY <1>3, <2>1 DEF LoadsOf, OverviewLoads
<1>6. v = "history" => Promised(requests', "history", Window(win))
  <2>1. Promised(<<HistoryRequest(win, k, FALSE)>>, "history", Window(win))
    BY <1>4 DEF HistoryRequest, Request
  <2>. QED BY <1>3, <2>1 DEF LoadsOf, HistoryLoads
<1>7. v = "energy" => Promised(requests', "energy", mode)
  <2>1. Promised(<<Request("energy", mode)>>, "energy", mode)
    BY <1>4 DEF Request
  <2>. QED BY <1>3, <2>1 DEF LoadsOf, EnergyLoads
<1>8. Window(win)' = Window(win)
  BY DEF Window
<1>. QED BY <1>5, <1>6, <1>7, <1>8 DEF ViewFits, Fits

LEMMA NavigateFits ==
  ASSUME FitsInv, NEW name \in Names, Navigate(name)
  PROVE  Fitting'
<1>. USE DEF FitsInv, Fitting
<1>1. BudgetOK' /\ (Calm' => Calm)
  BY UserBudget DEF Navigate
<1>2. DrawerFits' /\ UNCHANGED <<known, win, mode>> /\ known \in BOOLEAN
  BY DEF Navigate, DrawerFits, choice, PageInv, CountsOK
<1>3. CASE ready /\ name # hash
  <2>1. view' = ViewOf(name) /\ Show(ViewOf(name), known)
    BY <1>3 DEF Navigate, view, ViewOf
  <2>2. built' = known
    BY <2>1 DEF Show
  <2>3. ViewFits'
    BY <1>2, <2>1, ShowFits
  <2>. QED BY <1>1, <1>2, <2>2, <2>3
<1>4. CASE ~(ready /\ name # hash)
  <2>1. view' = view /\ UNCHANGED <<built, figure, requests>>
    BY <1>4 DEF Navigate, view, ViewOf, mounted
  <2>2. ViewFits => ViewFits'
    BY <1>2, <2>1, KeepsItself, ViewFitsKept
  <2>. QED BY <1>1, <1>2, <2>1, <2>2
<1>. QED BY <1>3, <1>4

LEMMA SnapshotFits ==
  ASSUME FitsInv, (\E k \in BOOLEAN : FirstSnapshot(k)) \/ LaterSnapshot
  PROVE  Fitting'
<1>. USE DEF FitsInv, Fitting
<1>1. BudgetOK' /\ (Calm' => Calm)
  BY UserBudget DEF FirstSnapshot, LaterSnapshot
<1>2. ASSUME NEW k \in BOOLEAN, FirstSnapshot(k) PROVE Fitting'
  <2>1. view' = ViewOf(hash) /\ Show(ViewOf(hash), k) /\ known' = k /\ UNCHANGED <<win, mode>>
    BY <1>2 DEF FirstSnapshot, view, ViewOf, choice
  <2>2. built' = k
    BY <2>1 DEF Show
  <2>3. ViewFits'
    BY <2>1, ShowFits
  <2>4. DrawerFits'
    BY <1>2 DEF FirstSnapshot, panel, DrawerFits, PageInv, PanelOK
  <2>. QED BY <1>1, <2>1, <2>2, <2>3, <2>4
<1>3. CASE LaterSnapshot
  <2>1. ~built' /\ UNCHANGED <<drawer, sheet, requests>>
    BY <1>3 DEF LaterSnapshot, mounted, panel
  <2>2. ViewFits' /\ (DrawerFits => DrawerFits')
    BY <2>1, KeepsItself, DrawerFitsKept DEF ViewFits
  <2>. QED BY <1>1, <2>1, <2>2
<1>. QED BY <1>2, <1>3

(* One more request of a view, for what the view shows now, or one that no *)
(* view shows.                                                             *)
LEMMA LoadedFits ==
  ASSUME PageInv, NEW r, Loaded(r), r.of # "drawer", r.live,
         UNCHANGED <<hash, ready, known, built, figure, drawer, sheet>>,
         ViewFits, DrawerFits,
         view = "overview" => (r.of = "trend" /\ r.ask = None) \/ (r.of \notin {"trend"}),
         view = "history" => (r.of = "history" /\ r.ask = Window(win'))
                               \/ (r.of # "history" /\ win' = win),
         view = "energy" => (r.of = "energy" /\ r.ask = mode') \/ (r.of # "energy" /\ mode' = mode)
  PROVE  ViewFits' /\ DrawerFits'
<1>1. requests \in Seq(RequestsFor(drawer)) /\ requests' = Append(requests, r)
  BY DEF PageInv, Loaded
<1>2. ASSUME NEW kind, r.of # kind PROVE Keeps(requests, requests', kind)
  BY <1>1, <1>2, AppendKeeps
<1>3. ASSUME NEW kind, NEW asked, r.of = kind, r.ask = asked
      PROVE  Promised(requests', kind, asked)
  BY <1>1, <1>3, AppendPromises
<1>4. view' = view /\ Window(win)' = Window(win')
  BY DEF view, ViewOf, Window
<1>5. DrawerFits'
  BY <1>2, DrawerFitsKept
<1>6. ASSUME known, built PROVE ViewFits'
  <2>1. CASE view = "overview"
    <3>1. Fits(requests, "trend", None, figure # None)
      BY <1>6, <2>1 DEF ViewFits
    <3>2. CASE r.of = "trend" /\ r.ask = None
      BY <1>3, <1>4, <2>1, <3>2 DEF ViewFits, Fits
    <3>3. CASE r.of # "trend"
      <4>1. Keeps(requests, requests', "trend")
        BY <1>2, <3>3
      <4>. QED BY <1>4, <2>1, <3>1, <4>1 DEF ViewFits, Fits, Keeps
    <3>. QED BY <2>1, <3>2, <3>3
  <2>2. CASE view = "history"
    <3>1. Fits(requests, "history", Window(win), figure = Window(win))
      BY <1>6, <2>2 DEF ViewFits
    <3>2. CASE r.of = "history" /\ r.ask = Window(win')
      <4>1. Promised(requests', "history", Window(win)')
        BY <1>3, <1>4, <3>2
      <4>. QED BY <1>4, <2>2, <4>1 DEF ViewFits, Fits
    <3>3. CASE r.of # "history" /\ win' = win
      <4>1. Keeps(requests, requests', "history") /\ Window(win)' = Window(win)
        BY <1>2, <1>4, <3>3
      <4>2. Fits(requests, "history", Window(win), figure = Window(win))'
        BY <3>1, <4>1 DEF Fits, Keeps
      <4>. QED BY <1>4, <2>2, <4>2 DEF ViewFits
    <3>. QED BY <2>2, <3>2, <3>3
  <2>3. CASE view = "energy"
    <3>1. Fits(requests, "energy", mode, figure = [rows |-> mode, labels |-> mode])
      BY <1>6, <2>3 DEF ViewFits
    <3>2. CASE r.of = "energy" /\ r.ask = mode'
      <4>1. Promised(requests', "energy", mode')
        BY <1>3, <3>2
      <4>. QED BY <1>4, <2>3, <4>1 DEF ViewFits, Fits
    <3>3. CASE r.of # "energy" /\ mode' = mode
      <4>1. Keeps(requests, requests', "energy")
        BY <1>2, <3>3
      <4>2. Fits(requests, "energy", mode, figure = [rows |-> mode, labels |-> mode])'
        BY <3>1, <3>3, <4>1 DEF Fits, Keeps
      <4>. QED BY <1>4, <2>3, <4>2 DEF ViewFits
    <3>. QED BY <2>3, <3>2, <3>3
  <2>. QED BY <1>4, <2>1, <2>2, <2>3 DEF ViewFits
<1>7. ViewFits'
  BY <1>6 DEF ViewFits
<1>. QED BY <1>5, <1>7

(* Range buttons, paging and zooming ask for the window they set.          *)
LEMMA WindowFits ==
  ASSUME FitsInv, NEW w, ShowWindow(w)
  PROVE  Fitting'
<1>. USE DEF FitsInv, Fitting
<1>1. BudgetOK' /\ (Calm' => Calm) /\ UNCHANGED <<known, built>>
  BY UserBudget DEF ShowWindow, mounted
<1>2. CASE known
  <2> DEFINE r == HistoryRequest(w, known, FALSE)
  <2>1. Loaded(r) /\ win' = w /\ view = "history"
        /\ UNCHANGED <<hash, ready, known, built, figure, drawer, sheet>>
    BY DEF ShowWindow, mounted, panel
  <2>2. r.of = "history" /\ r.live /\ r.ask = Window(w)
    BY <1>2 DEF HistoryRequest, Request
  <2> HIDE DEF r
  <2>3. ViewFits /\ DrawerFits => ViewFits' /\ DrawerFits'
    BY <2>1, <2>2, LoadedFits
  <2>. QED BY <1>1, <2>3
<1>3. CASE ~known
  <2> DEFINE r == HistoryRequest(w, known, FALSE)
  <2>1. requests' = Append(requests, r) /\ UNCHANGED <<drawer, sheet>>
    BY DEF ShowWindow, Loaded, panel
  <2>2. r.of # "drawer"
    BY DEF HistoryRequest, Request
  <2> HIDE DEF r
  <2>3. Keeps(requests, requests', "drawer")
    BY <2>1, <2>2, AppendKeeps DEF PageInv
  <2>4. DrawerFits => DrawerFits'
    BY <2>1, <2>3, DrawerFitsKept
  <2>. QED BY <1>1, <1>3, <2>4 DEF ViewFits
<1>. QED BY <1>2, <1>3

LEMMA ModeFits ==
  ASSUME FitsInv, NEW m \in Modes, ModeButton(m)
  PROVE  Fitting'
<1>. USE DEF FitsInv, Fitting
<1>1. BudgetOK' /\ (Calm' => Calm) /\ view = "energy" /\ mode' = m
        /\ UNCHANGED <<hash, ready, known, built, figure, drawer, sheet, win>>
  BY UserBudget DEF ModeButton, mounted, panel
<1>2. CASE known
  <2>1. Loaded(Request("energy", m))
    BY <1>2 DEF ModeButton
  <2>2. PICK r : r = Request("energy", m)
    OBVIOUS
  <2>3. r.of = "energy" /\ r.ask = m /\ r.live
    BY <2>2 DEF Request
  <2>4. ViewFits /\ DrawerFits => ViewFits' /\ DrawerFits'
    BY <1>1, <2>1, <2>2, <2>3, LoadedFits
  <2>. QED BY <1>1, <2>4
<1>3. CASE ~known
  <2>1. UNCHANGED requests
    BY <1>3 DEF ModeButton
  <2>2. DrawerFits => DrawerFits'
    BY <1>1, <2>1, KeepsItself, DrawerFitsKept
  <2>. QED BY <1>1, <1>3, <2>2 DEF ViewFits
<1>. QED BY <1>2, <1>3

LEMMA TickFits ==
  ASSUME FitsInv, TickTrend \/ TickToday \/ TickHistory \/ TickEnergy
  PROVE  Fitting'
<1>. USE DEF FitsInv, Fitting
<1>1. ASSUME NEW v, NEW kinds, NEW r, Tick(v, kinds, r), r.live, r.of # "drawer",
             v = "overview" => (r.of = "trend" /\ r.ask = None) \/ (r.of \notin {"trend"}),
             v = "history" => (r.of = "history" /\ r.ask = Window(win)),
             v = "energy" => (r.of = "energy" /\ r.ask = mode)
      PROVE  Fitting'
  <2>1. BudgetOK' /\ (Calm' => Calm)
    BY <1>1, UserBudget DEF Tick
  <2>2. Loaded(r) /\ UNCHANGED <<hash, ready, known, built, figure, drawer, sheet, win, mode>>
    BY <1>1 DEF Tick, mounted, panel, choice
  <2>3. v = view
    BY <1>1 DEF Tick, PageInv, NothingLeftBehind
  <2>4. ViewFits /\ DrawerFits => ViewFits' /\ DrawerFits'
    BY <1>1, <2>2, <2>3, LoadedFits
  <2>. QED BY <2>1, <2>2, <2>4
<1>2. ASSUME NEW of, NEW ask PROVE Request(of, ask).of = of /\ Request(of, ask).ask = ask
                                     /\ Request(of, ask).live
  BY DEF Request
<1>3. CASE TickTrend
  BY <1>1, <1>2, <1>3 DEF TickTrend
<1>4. CASE TickToday
  BY <1>1, <1>2, <1>4 DEF TickToday
<1>5. CASE TickEnergy
  BY <1>1, <1>2, <1>5 DEF TickEnergy
<1>6. CASE TickHistory
  <2>1. known
    BY <1>6 DEF TickHistory, Tick
  <2>2. PICK r : r = HistoryRequest(win, known, TRUE)
    OBVIOUS
  <2>3. r.of = "history" /\ r.ask = Window(win) /\ r.live
    BY <2>1, <2>2 DEF HistoryRequest, Request
  <2>. QED BY <1>1, <1>6, <2>2, <2>3 DEF TickHistory
<1>. QED BY <1>3, <1>4, <1>5, <1>6

(* Loads of the custom chart are no other's.                               *)
LEMMA CustomKeeps ==
  ASSUME NEW chosen, NEW rest \in Seq(RequestsFor(drawer)), LoadCustom(chosen, rest),
         NEW kind, kind # "custom"
  PROVE  Keeps(rest, requests', kind)
<1>1. PICK r : r = [Request("custom", [chosen |-> chosen, win |-> Window(win)])
                      EXCEPT !.live = (view = "history")]
  OBVIOUS
<1>2. r.of = "custom"
  BY <1>1 DEF Request
<1>3. requests' = Append(rest, r) \/ requests' = rest
  BY <1>1 DEF LoadCustom
<1>. QED BY <1>2, <1>3, AppendKeeps, KeepsItself

LEMMA SensorFits ==
  ASSUME FitsInv, NEW x \in Sensors, ToggleSensor(x)
  PROVE  Fitting'
<1>. USE DEF FitsInv, Fitting
<1>1. BudgetOK' /\ (Calm' => Calm)
        /\ UNCHANGED <<hash, ready, known, built, figure, drawer, sheet, win, mode>>
  BY UserBudget DEF ToggleSensor, panel
<1>2. LoadCustom(custom', requests) /\ requests \in Seq(RequestsFor(drawer)) /\ view' = view
  BY <1>1 DEF ToggleSensor, PageInv, view, ViewOf
<1>3. \A kind \in {"trend", "history", "energy", "drawer"} : Keeps(requests, requests', kind)
  BY <1>2, CustomKeeps
<1>4. ViewFits => ViewFits'
  BY <1>1, <1>2, <1>3, ViewFitsKept
<1>5. DrawerFits => DrawerFits'
  BY <1>1, <1>3, DrawerFitsKept
<1>. QED BY <1>1, <1>4, <1>5

(* The drawer asks for what it is opened with.                             *)
LEMMA DrawerOpenFits ==
  ASSUME FitsInv, NEW id \in Entities, NEW range \in Ranges, OpenEntity(id, range)
  PROVE  Fitting'
<1>. USE DEF FitsInv, Fitting
<1> DEFINE old == Detached(requests, {"drawer"})
<1>1. BudgetOK' /\ (Calm' => Calm) /\ UNCHANGED <<hash, ready, known, built, figure, win, mode>>
  BY UserBudget DEF OpenEntity, mounted, choice
<1>2. requests \in Seq(RequestsFor(drawer)) /\ old \in Seq(RequestsFor(drawer')) /\ view' = view
  BY <1>1, DetachedDrawer DEF PageInv, view, ViewOf
<1>3. PICK r : r = Request("drawer", drawer')
  OBVIOUS
<1>4. requests' = Append(old, r) /\ r.of = "drawer" /\ r.ask = drawer' /\ r.live
  BY <1>3 DEF OpenEntity, Request
<1>5. \A kind \in {"trend", "history", "energy"} : Keeps(requests, old, kind)
  BY <1>2, DetachedKeeps
<1> HIDE DEF old
<1>6. \A kind \in {"trend", "history", "energy"} : Keeps(old, requests', kind)
  BY <1>2, <1>4, AppendKeeps
<1>7. \A kind \in {"trend", "history", "energy"} : Keeps(requests, requests', kind)
  BY <1>5, <1>6 DEF Keeps
<1>8. ViewFits => ViewFits'
  BY <1>1, <1>2, <1>7, ViewFitsKept
<1>9. Promised(requests', "drawer", drawer')
  BY <1>2, <1>4, AppendPromises
<1>10. DrawerFits'
  BY <1>9 DEF DrawerFits, Fits
<1>. QED BY <1>1, <1>8, <1>10

LEMMA CloseFits ==
  ASSUME FitsInv, CloseDrawer
  PROVE  Fitting'
<1>. USE DEF FitsInv, Fitting
<1>1. BudgetOK' /\ (Calm' => Calm) /\ drawer' = None
        /\ UNCHANGED <<hash, ready, known, built, figure, win, mode, requests>>
  BY UserBudget DEF CloseDrawer, mounted, choice
<1>2. view' = view /\ DrawerFits'
  BY <1>1 DEF view, ViewOf, DrawerFits
<1>3. ViewFits => ViewFits'
  BY <1>1, <1>2, KeepsItself, ViewFitsKept
<1>. QED BY <1>1, <1>2, <1>3

(* Answers.  The first request of kind i belongs to is answered.           *)
LEMMA AnsweredRest ==
  ASSUME PageInv, NEW i, NEW of, NEW ok, Returns(i, of, ok)
  PROVE  /\ requests \in Seq(RequestsFor(drawer)) /\ i \in DOMAIN requests
         /\ requests[i].of = of /\ ~Absent(requests, of)
         /\ \A kind : kind # of => Keeps(requests, Without(requests, i), kind)
         /\ view' = view /\ UNCHANGED <<known, built, win, mode, custom>>
<1>1. requests \in Seq(RequestsFor(drawer)) /\ i \in DOMAIN requests /\ requests[i].of = of
        /\ UNCHANGED <<hash, ready, known, built, timers, choice>>
  BY RestType DEF PageInv
<1>. QED BY <1>1, WithoutOther DEF Absent, choice, view, ViewOf

LEMMA TrendFits ==
  ASSUME FitsInv, NEW i, NEW ok \in BOOLEAN, TrendReturns(i, ok)
  PROVE  Fitting'
<1>. USE DEF FitsInv, Fitting
<1>1. Returns(i, "trend", ok) /\ requests' = Without(requests, i) /\ UNCHANGED <<drawer, sheet>>
        /\ figure' = IF ok /\ view = "overview" THEN "day" ELSE figure
  BY DEF TrendReturns, panel
<1>2. /\ BudgetOK'
      /\ Calm' => Calm /\ ok /\ \A j \in 1 .. i - 1 : requests[j].of # "trend"
  BY <1>1, AnswerBudget
<1>3. /\ requests \in Seq(RequestsFor(drawer)) /\ i \in DOMAIN requests
      /\ requests[i].of = "trend" /\ ~Absent(requests, "trend")
      /\ \A kind : kind # "trend" => Keeps(requests, Without(requests, i), kind)
      /\ view' = view /\ UNCHANGED <<known, built, win, mode>>
  BY <1>1, AnsweredRest
<1>4. DrawerFits => DrawerFits'
  BY <1>1, <1>3, DrawerFitsKept
<1>5. ASSUME Calm', ViewFits PROVE ViewFits'
  <2>1. CASE view = "overview"
    <3>1. SUFFICES ASSUME known, built PROVE ViewFits'
      BY <1>3 DEF ViewFits
    <3>2. Promised(requests, "trend", None)
      BY <1>3, <1>5, <2>1, <3>1 DEF ViewFits, Fits
    <3>3. Promised(requests', "trend", None) \/ Absent(requests', "trend")
      BY <1>1, <1>2, <1>3, <1>5, <3>2, WithoutFirst
    <3>4. figure' # None
      BY <1>1, <1>2, <1>5, <2>1, PageAssumption
    <3>. QED BY <1>3, <2>1, <3>3, <3>4 DEF ViewFits, Fits
  <2>2. CASE view # "overview"
    BY <1>1, <1>3, <1>5, <2>2, ViewFitsKept
  <2>. QED BY <2>1, <2>2
<1>. QED BY <1>2, <1>3, <1>4, <1>5

LEMMA EnergyFits ==
  ASSUME FitsInv, NEW i, NEW ok \in BOOLEAN, EnergyReturns(i, ok)
  PROVE  Fitting'
<1>. USE DEF FitsInv, Fitting
<1>1. Returns(i, "energy", ok) /\ requests' = Without(requests, i) /\ UNCHANGED <<drawer, sheet>>
        /\ figure' = IF ok /\ view = "energy" /\ built
                     THEN [rows |-> requests[i].ask, labels |-> mode] ELSE figure
  BY DEF EnergyReturns, panel
<1>2. /\ BudgetOK'
      /\ Calm' => Calm /\ ok /\ \A j \in 1 .. i - 1 : requests[j].of # "energy"
  BY <1>1, AnswerBudget
<1>3. /\ requests \in Seq(RequestsFor(drawer)) /\ i \in DOMAIN requests
      /\ requests[i].of = "energy" /\ ~Absent(requests, "energy")
      /\ \A kind : kind # "energy" => Keeps(requests, Without(requests, i), kind)
      /\ view' = view /\ UNCHANGED <<known, built, win, mode>>
  BY <1>1, AnsweredRest
<1>4. DrawerFits => DrawerFits'
  BY <1>1, <1>3, DrawerFitsKept
<1>5. ASSUME Calm', ViewFits PROVE ViewFits'
  <2>1. CASE view = "energy"
    <3>1. SUFFICES ASSUME known, built PROVE ViewFits'
      BY <1>3 DEF ViewFits
    <3>2. Promised(requests, "energy", mode)
      BY <1>3, <1>5, <2>1, <3>1 DEF ViewFits, Fits
    <3>3. \/ Promised(requests', "energy", mode)
          \/ Absent(requests', "energy") /\ requests[i].ask = mode
      BY <1>1, <1>2, <1>3, <1>5, <3>2, WithoutFirst
    <3>4. figure' = [rows |-> requests[i].ask, labels |-> mode]
      BY <1>1, <1>2, <1>5, <2>1, <3>1
    <3>5. Fits(requests, "energy", mode, figure = [rows |-> mode, labels |-> mode])'
      BY <1>3, <3>3, <3>4 DEF Fits
    <3>. QED BY <1>3, <2>1, <3>5 DEF ViewFits
  <2>2. CASE view # "energy"
    BY <1>1, <1>3, <1>5, <2>2, ViewFitsKept
  <2>. QED BY <2>1, <2>2
<1>. QED BY <1>2, <1>3, <1>4, <1>5

LEMMA HistoryFits ==
  ASSUME FitsInv, NEW i, NEW ok \in BOOLEAN, HistoryReturns(i, ok)
  PROVE  Fitting'
<1>. USE DEF FitsInv, Fitting
<1> DEFINE rest == Without(requests, i)
<1>1. PICK sure \in BOOLEAN : sure = IF requests[i].ask = None THEN TRUE ELSE ok
  OBVIOUS
<1>2. Returns(i, "history", sure) /\ UNCHANGED <<drawer, sheet>>
        /\ figure' = IF ok /\ requests[i].ask # None /\ view = "history" /\ built
                     THEN requests[i].ask ELSE figure
  BY <1>1 DEF HistoryReturns, panel
<1>3. /\ BudgetOK'
      /\ Calm' => Calm /\ sure /\ \A j \in 1 .. i - 1 : requests[j].of # "history"
  BY <1>2, AnswerBudget
<1>4. /\ requests \in Seq(RequestsFor(drawer)) /\ i \in DOMAIN requests
      /\ requests[i].of = "history" /\ ~Absent(requests, "history")
      /\ \A kind : kind # "history" => Keeps(requests, rest, kind)
      /\ view' = view /\ UNCHANGED <<known, built, win, mode>>
  BY <1>2, AnsweredRest
<1>5. \A kind : kind # "custom" => Keeps(rest, requests', kind)
  <2>1. LoadCustom(custom, rest) \/ requests' = rest
    BY DEF HistoryReturns
  <2>2. rest \in Seq(RequestsFor(drawer))
    BY <1>4, WithoutType
  <2> HIDE DEF rest
  <2>. QED BY <2>1, <2>2, CustomKeeps, KeepsItself
<1> HIDE DEF rest
<1>6. \A kind : kind \notin {"history", "custom"} => Keeps(requests, requests', kind)
  BY <1>4, <1>5 DEF Keeps
<1>7. DrawerFits => DrawerFits'
  BY <1>2, <1>6, DrawerFitsKept
<1>8. ASSUME Calm', ViewFits PROVE ViewFits'
  <2>1. CASE view = "history"
    <3>1. SUFFICES ASSUME known, built PROVE ViewFits'
      BY <1>4 DEF ViewFits
    <3>2. Promised(requests, "history", Window(win))
      BY <1>4, <1>8, <2>1, <3>1 DEF ViewFits, Fits
    <3>3. \/ Promised(rest, "history", Window(win))
          \/ Absent(rest, "history") /\ requests[i].ask = Window(win)
      BY <1>3, <1>4, <1>8, <3>2, WithoutFirst DEF rest
    <3>4. Keeps(rest, requests', "history") /\ Window(win)' = Window(win)
      BY <1>4, <1>5 DEF Window
    <3>5. CASE Promised(rest, "history", Window(win))
      <4>1. Promised(requests', "history", Window(win))
        BY <3>4, <3>5 DEF Keeps
      <4>2. Fits(requests, "history", Window(win), figure = Window(win))'
        BY <3>4, <4>1 DEF Fits
      <4>. QED BY <1>4, <2>1, <4>2 DEF ViewFits
    <3>6. CASE Absent(rest, "history") /\ requests[i].ask = Window(win)
      <4>1. Window(win) \in Span
        BY WindowType DEF PageInv, WindowOK
      <4>2. Window(win) # None
        BY <4>1, PageAssumption DEF Span
      <4>3. figure' = Window(win)
        BY <1>1, <1>2, <1>3, <1>8, <2>1, <3>1, <3>6, <4>2
      <4>4. Absent(requests', "history")
        BY <3>4, <3>6 DEF Keeps
      <4>5. Fits(requests, "history", Window(win), figure = Window(win))'
        BY <3>4, <4>3, <4>4 DEF Fits
      <4>. QED BY <1>4, <2>1, <4>5 DEF ViewFits
    <3>. QED BY <3>3, <3>5, <3>6
  <2>2. CASE view # "history"
    BY <1>2, <1>4, <1>6, <1>8, <2>2, ViewFitsKept
  <2>. QED BY <2>1, <2>2
<1>. QED BY <1>3, <1>4, <1>7, <1>8

(* Answers no view and no drawer waits for.                                *)
LEMMA OtherFits ==
  ASSUME FitsInv, NEW i, NEW ok \in BOOLEAN, TodayReturns(i, ok) \/ CustomReturns(i, ok)
  PROVE  Fitting'
<1>. USE DEF FitsInv, Fitting
<1>1. PICK of \in {"today", "custom"} : Returns(i, of, ok)
  BY DEF TodayReturns, CustomReturns
<1>2. requests' = Without(requests, i) /\ UNCHANGED <<drawer, sheet, figure>>
  BY DEF TodayReturns, CustomReturns, panel
<1>3. BudgetOK' /\ (Calm' => Calm)
  BY <1>1, AnswerBudget
<1>4. /\ \A kind : kind # of => Keeps(requests, Without(requests, i), kind)
      /\ view' = view /\ UNCHANGED <<known, built, win, mode>>
  BY <1>1, AnsweredRest
<1>5. ViewFits => ViewFits'
  BY <1>2, <1>4, ViewFitsKept
<1>6. DrawerFits => DrawerFits'
  BY <1>2, <1>4, DrawerFitsKept
<1>. QED BY <1>3, <1>4, <1>5, <1>6

LEMMA DrawerAnswerFits ==
  ASSUME FitsInv, NEW i, NEW ok \in BOOLEAN, DrawerReturns(i, ok)
  PROVE  Fitting'
<1>. USE DEF FitsInv, Fitting
<1>1. Returns(i, "drawer", ok) /\ requests' = Without(requests, i) /\ UNCHANGED <<drawer, figure>>
        /\ (ok /\ drawer # None /\ requests[i].ask = drawer /\ requests[i].live => sheet' = drawer)
  BY DEF DrawerReturns, DrawsHere
<1>2. /\ BudgetOK'
      /\ Calm' => Calm /\ ok /\ \A j \in 1 .. i - 1 : requests[j].of # "drawer"
  BY <1>1, AnswerBudget
<1>3. /\ requests \in Seq(RequestsFor(drawer)) /\ i \in DOMAIN requests
      /\ requests[i].of = "drawer" /\ ~Absent(requests, "drawer")
      /\ \A kind : kind # "drawer" => Keeps(requests, Without(requests, i), kind)
      /\ view' = view /\ UNCHANGED <<known, built, win, mode>>
  BY <1>1, AnsweredRest
<1>4. ViewFits => ViewFits'
  BY <1>1, <1>3, ViewFitsKept
<1>5. ASSUME Calm', DrawerFits PROVE DrawerFits'
  <2>1. SUFFICES ASSUME drawer # None PROVE DrawerFits'
    BY <1>1 DEF DrawerFits
  <2>2. Promised(requests, "drawer", drawer)
    BY <1>3, <1>5, <2>1 DEF DrawerFits, Fits
  <2>3. \/ Promised(requests', "drawer", drawer)
        \/ Absent(requests', "drawer") /\ requests[i].ask = drawer /\ requests[i].live
    BY <1>1, <1>2, <1>3, <1>5, <2>2, WithoutFirst
  <2>. QED BY <1>1, <1>2, <1>5, <2>1, <2>3 DEF DrawerFits, Fits
<1>. QED BY <1>2, <1>3, <1>4, <1>5

LEMMA FitsStep == FitsInv /\ [Next]_vars => FitsInv'
<1>. SUFFICES ASSUME FitsInv, [Next]_vars PROVE Fitting'
  BY PageStep DEF FitsInv
<1>1. CASE \E name \in Names : Navigate(name)
  BY <1>1, NavigateFits
<1>2. CASE (\E k \in BOOLEAN : FirstSnapshot(k)) \/ LaterSnapshot
  BY <1>2, SnapshotFits
<1>3. CASE (\E s \in Spans : RangeButton(s)) \/ Earlier \/ Later \/ Zoom
  BY <1>3, WindowFits DEF RangeButton, Earlier, Later, Zoom
<1>4. CASE \E x \in Sensors : ToggleSensor(x)
  BY <1>4, SensorFits
<1>5. CASE \E m \in Modes : ModeButton(m)
  BY <1>5, ModeFits
<1>6. CASE \E id \in Entities, range \in Ranges : OpenEntity(id, range)
  BY <1>6, DrawerOpenFits
<1>7. CASE CloseDrawer
  BY <1>7, CloseFits
<1>8. CASE TickTrend \/ TickToday \/ TickHistory \/ TickEnergy
  BY <1>8, TickFits
<1>9. CASE \E i \in DOMAIN requests, ok \in BOOLEAN : Answered(i, ok)
  BY <1>9, TrendFits, EnergyFits, HistoryFits, OtherFits, DrawerAnswerFits DEF Answered
<1>10. CASE UNCHANGED vars
  <2>1. BudgetOK' /\ (Calm' => Calm) /\ view' = view
    BY <1>10, UserBudget DEF vars, FitsInv, Fitting, view, ViewOf
  <2>2. UNCHANGED <<known, built, figure, win, mode, drawer, sheet, requests>>
    BY <1>10 DEF vars, mounted, choice, panel
  <2>3. ViewFits => ViewFits'
    BY <2>1, <2>2, KeepsItself, ViewFitsKept
  <2>4. DrawerFits => DrawerFits'
    BY <2>2, KeepsItself, DrawerFitsKept
  <2>. QED BY <2>1, <2>2, <2>3, <2>4 DEF FitsInv, Fitting
<1>. QED BY <1>1, <1>2, <1>3, <1>4, <1>5, <1>6, <1>7, <1>8, <1>9, <1>10 DEF Next

LEMMA FitsInit == Init => FitsInv
<1>. SUFFICES ASSUME Init PROVE Fitting
  BY PageInit DEF FitsInv
<1>1. built = FALSE /\ drawer = None
        /\ budget = [acts |-> Acts, failures |-> Failures, overtakes |-> Overtakes, slow |-> SlowTicks]
  BY DEF Init
<1>2. BudgetOK
  <2>1. Acts \in Int /\ Failures \in Int /\ Overtakes \in Int /\ SlowTicks \in Int
    BY PageAssumption
  <2>. QED BY <1>1, <2>1 DEF BudgetOK
<1>. QED BY <1>1, <1>2 DEF Fitting, ViewFits, DrawerFits

LEMMA FitsSettled == FitsInv => SettledIsRight
<1>. SUFFICES ASSUME FitsInv, Calm PROVE
       /\ known /\ built /\ ~Outstanding(KindsOf(view)) => Right
       /\ drawer # None /\ ~Outstanding({"drawer"}) => sheet = drawer
  BY DEF SettledIsRight
<1>1. ViewFits /\ DrawerFits
  BY DEF FitsInv, Fitting
<1>2. ASSUME NEW kind, NEW asked, Promised(requests, kind, asked), NEW kinds, kind \in kinds
      PROVE  Outstanding(kinds)
  BY <1>2 DEF Promised, Outstanding
<1>3. ASSUME known, built, ~Outstanding(KindsOf(view)) PROVE Right
  <2>1. view = "overview" => "trend" \in KindsOf(view)
    BY DEF KindsOf
  <2>2. view = "history" => "history" \in KindsOf(view)
    BY DEF KindsOf
  <2>3. view = "energy" => "energy" \in KindsOf(view)
    BY DEF KindsOf
  <2>4. view = "overview" => figure # None
    BY <1>1, <1>2, <1>3, <2>1 DEF ViewFits, Fits
  <2>5. view = "history" => figure = Window(win)
    BY <1>1, <1>2, <1>3, <2>2 DEF ViewFits, Fits
  <2>6. view = "energy" => figure = [rows |-> mode, labels |-> mode]
    BY <1>1, <1>2, <1>3, <2>3 DEF ViewFits, Fits
  <2>. QED BY <2>4, <2>5, <2>6 DEF Right
<1>4. drawer # None /\ ~Outstanding({"drawer"}) => sheet = drawer
  BY <1>1, <1>2 DEF DrawerFits, Fits
<1>. QED BY <1>3, <1>4

(* views and drawer.js: while no request fails and answers of a kind keep  *)
(* their order, a view with nothing under way shows what its buttons say,  *)
(* and so does the drawer, after any clicks, zooms and changes of view.    *)
THEOREM SettledShowsRight == Spec => []SettledIsRight
BY FitsInit, FitsStep, FitsSettled, PTL DEF Spec

-----------------------------------------------------------------------------
(* The heating water law.                                                  *)

(* Products keep an order, or turn it round.                               *)
LEMMA ProductOrder ==
  ASSUME NEW a \in Int, NEW b \in Int, NEW c \in Int, a <= b, 0 <= c
  PROVE  a * c <= b * c
<1>1. 0 <= b - a /\ b - a \in Int
  OBVIOUS
<1>2. 0 <= (b - a) * c
  BY <1>1
<1>3. (b - a) * c = b * c - a * c
  OBVIOUS
<1>. QED BY <1>2, <1>3

LEMMA ProductSigns ==
  ASSUME NEW a \in Int, NEW b \in Int, NEW c \in Int, a <= b, c <= 0
  PROVE  b * c <= a * c
<1>1. 0 <= b - a /\ b - a \in Int /\ 0 <= 0 - c /\ 0 - c \in Int
  OBVIOUS
<1>2. 0 <= (b - a) * (0 - c)
  BY <1>1
<1>3. (b - a) * (0 - c) = a * c - b * c
  OBVIOUS
<1>. QED BY <1>2, <1>3

(* The target is a fraction with a positive denominator.                   *)
LEMMA CurveType ==
  ASSUME NEW o \in Int, NEW s \in Settings
  PROVE  Curve(o, s) \in [n : Int, d : {x \in Int : 0 < x}]
BY DEF Curve, Fraction, Settings

(* store.js:84, the target lies between the two water temperatures that    *)
(* were set, whatever the outdoor temperature, also with settings in the   *)
(* wrong order.                                                            *)
THEOREM TargetWithinSettings ==
  ASSUME NEW o \in Int, NEW s \in Settings, NEW low \in Int, NEW high \in Int,
         low <= s.wCold, low <= s.wWarm, s.wCold <= high, s.wWarm <= high
  PROVE  Fraction(low, 1) \preceq Curve(o, s) /\ Curve(o, s) \preceq Fraction(high, 1)
<1>1. /\ s.tCold \in Int /\ s.tWarm \in Int /\ s.wCold \in Int /\ s.wWarm \in Int
  BY DEF Settings
<1>2. CASE o <= s.tCold \/ s.tWarm <= s.tCold \/ o >= s.tWarm
  BY <1>1, <1>2 DEF Curve, Fraction, \preceq
<1>3. CASE s.tCold < o /\ o < s.tWarm
  <2> DEFINE x == o - s.tCold
  <2> DEFINE y == s.tWarm - o
  <2>1. x \in Int /\ y \in Int /\ 0 <= x /\ 0 <= y
    BY <1>1, <1>3
  <2>2. Curve(o, s) = Fraction(s.wCold * (s.tWarm - s.tCold)
                                 + (o - s.tCold) * (s.wWarm - s.wCold), s.tWarm - s.tCold)
    BY <1>1, <1>3 DEF Curve
  <2>3. s.wCold * (s.tWarm - s.tCold) + (o - s.tCold) * (s.wWarm - s.wCold)
          = s.wCold * y + s.wWarm * x
    BY <1>1
  <2>4. s.tWarm - s.tCold = x + y
    BY <1>1
  <2> HIDE DEF x, y
  <2>5. low * x <= s.wWarm * x /\ low * y <= s.wCold * y
    BY <1>1, <2>1, ProductOrder
  <2>6. s.wWarm * x <= high * x /\ s.wCold * y <= high * y
    BY <1>1, <2>1, ProductOrder
  <2>7. low * (x + y) = low * x + low * y /\ high * (x + y) = high * x + high * y
    BY <2>1
  <2>8. s.wCold * y \in Int /\ s.wWarm * x \in Int
    BY <1>1, <2>1
  <2>9. Curve(o, s) = Fraction(s.wCold * y + s.wWarm * x, x + y)
    BY <2>2, <2>3, <2>4
  <2>. QED BY <2>1, <2>5, <2>6, <2>7, <2>8, <2>9 DEF Fraction, \preceq
<1>. QED BY <1>1, <1>2, <1>3

(* store.js:84, the warmer it is outdoors, the cooler is the water asked   *)
(* for, across the two ends of the curve as well, when the water for cold  *)
(* days is set no cooler than that for warm ones.                          *)
THEOREM WarmerNeedsLess ==
  ASSUME NEW o1 \in Int, NEW o2 \in Int, NEW s \in Settings, o1 <= o2, s.wWarm <= s.wCold
  PROVE  Curve(o2, s) \preceq Curve(o1, s)
<1>1. /\ s.tCold \in Int /\ s.tWarm \in Int /\ s.wCold \in Int /\ s.wWarm \in Int
  BY DEF Settings
<1>2. Curve(o2, s) \preceq Fraction(s.wCold, 1) /\ Fraction(s.wWarm, 1) \preceq Curve(o1, s)
  BY <1>1, TargetWithinSettings
<1>3. CASE o1 <= s.tCold \/ s.tWarm <= s.tCold
  <2>1. Curve(o1, s) = Fraction(s.wCold, 1)
    BY <1>3 DEF Curve
  <2>. QED BY <1>2, <2>1
<1>4. CASE ~(o1 <= s.tCold \/ s.tWarm <= s.tCold) /\ o2 >= s.tWarm
  <2>1. Curve(o2, s) = Fraction(s.wWarm, 1)
    BY <1>1, <1>4 DEF Curve
  <2>. QED BY <1>2, <2>1
<1>5. CASE ~(o1 <= s.tCold \/ s.tWarm <= s.tCold) /\ o2 < s.tWarm
  <2> DEFINE span == s.tWarm - s.tCold
  <2> DEFINE drop == s.wWarm - s.wCold
  <2> DEFINE n1 == s.wCold * span + (o1 - s.tCold) * drop
  <2> DEFINE n2 == s.wCold * span + (o2 - s.tCold) * drop
  <2>1. Curve(o1, s) = Fraction(n1, span) /\ Curve(o2, s) = Fraction(n2, span)
    BY <1>1, <1>5 DEF Curve
  <2>2. span \in Int /\ 0 <= span /\ drop \in Int /\ drop <= 0
    BY <1>1, <1>5
  <2>3. o1 - s.tCold \in Int /\ o2 - s.tCold \in Int /\ o1 - s.tCold <= o2 - s.tCold
    BY <1>1
  <2> HIDE DEF span, drop
  <2>4. (o2 - s.tCold) * drop <= (o1 - s.tCold) * drop
    BY <2>2, <2>3, ProductSigns
  <2>5. s.wCold * span \in Int /\ (o1 - s.tCold) * drop \in Int /\ (o2 - s.tCold) * drop \in Int
    BY <1>1, <2>2, <2>3
  <2>6. n1 \in Int /\ n2 \in Int /\ n2 <= n1
    BY <2>4, <2>5
  <2> HIDE DEF n1, n2
  <2>7. n2 * span <= n1 * span
    BY <2>2, <2>6, ProductOrder
  <2>. QED BY <2>1, <2>7 DEF Fraction, \preceq
<1>. QED BY <1>1, <1>3, <1>4, <1>5

(* store.js:87 and 91, in mode AUTO the same holds for the target of the   *)
(* outlet: an offset moves the whole curve and keeps that order.           *)
THEOREM TargetFalls ==
  ASSUME NEW o1 \in Int, NEW o2 \in Int, NEW s \in Settings, NEW offset \in Int,
         NEW set, o1 <= o2, s.wWarm <= s.wCold, None \notin Int
  PROVE  OutletTarget("AUTO", set, o2, s, offset) \preceq OutletTarget("AUTO", set, o1, s, offset)
<1>1. PICK p, q \in [n : Int, d : {x \in Int : 0 < x}] : p = Curve(o1, s) /\ q = Curve(o2, s)
  BY CurveType
<1>2. q.n * p.d <= p.n * q.d
  BY <1>1, WarmerNeedsLess DEF \preceq
<1>3. /\ OutletTarget("AUTO", set, o1, s, offset) = Fraction(p.n + offset * p.d, p.d)
      /\ OutletTarget("AUTO", set, o2, s, offset) = Fraction(q.n + offset * q.d, q.d)
  BY <1>1 DEF OutletTarget, WaterLawTarget, Shifted, Settings
<1>4. /\ p.n \in Int /\ p.d \in Int /\ q.n \in Int /\ q.d \in Int
  BY <1>1
<1>5. /\ (q.n + offset * q.d) * p.d = q.n * p.d + (offset * q.d) * p.d
      /\ (p.n + offset * p.d) * q.d = p.n * q.d + (offset * p.d) * q.d
      /\ (offset * q.d) * p.d = (offset * p.d) * q.d
  BY <1>4
<1>6. /\ q.n * p.d \in Int /\ p.n * q.d \in Int /\ (offset * q.d) * p.d \in Int
  BY <1>4
<1>. QED BY <1>2, <1>3, <1>5, <1>6 DEF Fraction, \preceq

-----------------------------------------------------------------------------
(* What the page draws of the samples: recursion along them.               *)

(* Counting up from 0.                                                     *)
LEMMA CountUp ==
  ASSUME NEW n \in Nat, NEW T, 0 \in T,
         \A i \in 1 .. n : i - 1 \in T => i \in T
  PROVE  0 .. n \subseteq T
<1> DEFINE D == {i \in 0 .. n : i \notin T}
<1> SUFFICES ASSUME D # {} PROVE FALSE
  OBVIOUS
<1>1. D \subseteq Nat
  OBVIOUS
<1>2. PICK x \in D : \A y \in D : ~(<<y, x>> \in OpToRel(<, Nat))
  BY <1>1, NatLessThanWellFounded, WFMin
<1>3. x \in 1 .. n /\ x \notin T
  <2>1. x \in 0 .. n /\ x \notin T /\ x # 0
    BY <1>2
  <2>. QED BY <2>1
<1>4. x - 1 \in 0 .. n /\ x - 1 < x /\ x - 1 \in Nat /\ x \in Nat
  BY <1>3
<1>5. x - 1 \in T
  <2> SUFFICES ASSUME x - 1 \notin T PROVE FALSE
    OBVIOUS
  <2>1. x - 1 \in D
    BY <1>4
  <2>. QED BY <1>2, <1>4, <2>1 DEF OpToRel
<1>. QED BY <1>3, <1>5

(* A step from each state to the next, and a run of n of them from a.      *)
Moves(G, n, X) == G \in [1 .. n -> [X -> X]]

RunOf(f, n, X, a, G) == f \in [0 .. n -> X] /\ f[0] = a /\ \A i \in 1 .. n : f[i] = G[i][f[i - 1]]

LEMMA RunExists ==
  ASSUME NEW n \in Nat, NEW X, NEW a \in X, NEW G, Moves(G, n, X)
  PROVE  \E f : RunOf(f, n, X, a, G)
<1> DEFINE T == {m \in 0 .. n : \E f : RunOf(f, m, X, a, G)}
<1>1. 0 \in T
  <2> DEFINE g == [j \in 0 .. 0 |-> a]
  <2>1. g \in [0 .. 0 -> X] /\ g[0] = a /\ 0 \in 0 .. n
    OBVIOUS
  <2>2. RunOf(g, 0, X, a, G)
    BY <2>1 DEF RunOf
  <2>. QED BY <2>1, <2>2
<1>2. ASSUME NEW m \in 1 .. n, m - 1 \in T PROVE m \in T
  <2>1. PICK f : RunOf(f, m - 1, X, a, G)
    BY <1>2
  <2> DEFINE g == [j \in 0 .. m |-> IF j = m THEN G[m][f[m - 1]] ELSE f[j]]
  <2>2. f[m - 1] \in X /\ G[m][f[m - 1]] \in X
    BY <2>1 DEF RunOf, Moves
  <2>3. g \in [0 .. m -> X]
    BY <2>1, <2>2 DEF RunOf
  <2>4. \A j \in 0 .. m - 1 : g[j] = f[j]
    OBVIOUS
  <2>5. g[m] = G[m][f[m - 1]]
    OBVIOUS
  <2> HIDE DEF g
  <2>6. g[0] = a
    BY <2>1, <2>4 DEF RunOf
  <2>7. ASSUME NEW i \in 1 .. m PROVE g[i] = G[i][g[i - 1]]
    <3>1. CASE i = m
      BY <2>4, <2>5, <3>1
    <3>2. CASE i # m
      <4>1. i \in 1 .. m - 1 /\ i \in 0 .. m - 1 /\ i - 1 \in 0 .. m - 1
        BY <3>2
      <4>. QED BY <2>1, <2>4, <4>1 DEF RunOf
    <3>. QED BY <3>1, <3>2
  <2>8. RunOf(g, m, X, a, G)
    BY <2>3, <2>6, <2>7 DEF RunOf
  <2>. QED BY <2>8
<1>3. n \in T
  <2> HIDE DEF T
  <2>1. 0 .. n \subseteq T
    BY <1>1, <1>2, CountUp
  <2>. QED BY <2>1
<1>. QED BY <1>3

-----------------------------------------------------------------------------
(* Timelines.                                                              *)

(* Samples, and the segments of a timeline.                                *)
Samples == [t : 0 .. Horizon, v : Values \cup {Null}]

Segments == [state : Values \cup {Null}, from : Int, to : Int]

Sorted(s) == \A i, j \in 1 .. Len(s) : i <= j => s[i].t <= s[j].t

(* Segments one after the other, none empty, neighbours of one state apart *)
Proper(segs) ==
  /\ segs \in Seq(Segments)
  /\ \A i \in 1 .. Len(segs) : segs[i].from < segs[i].to
  /\ \A i, j \in 1 .. Len(segs) : i < j => segs[i].to <= segs[j].from
  /\ \A i \in 1 .. Len(segs) - 1 :
       segs[i].to = segs[i + 1].from => segs[i].state # segs[i + 1].state

EndsBy(segs, x) == \A i \in 1 .. Len(segs) : segs[i].to <= x

Covers(p, x, state) == p.from <= x /\ x < p.to /\ p.state = state

Shows(segs, x, state) == \E i \in 1 .. Len(segs) : Covers(segs[i], x, state)

(* A sequence with another last element.                                   *)
LEMMA LastReplaced ==
  ASSUME NEW S, NEW s \in Seq(S), s # <<>>, NEW e \in S, NEW u, u = Append(Front(s), e)
  PROVE  /\ u \in Seq(S) /\ Len(u) = Len(s) /\ Len(s) \in Nat /\ Len(s) >= 1
         /\ u[Len(s)] = e /\ \A i \in 1 .. Len(s) - 1 : u[i] = s[i]
<1>1. Len(s) \in Nat /\ Len(s) >= 1
  BY EmptySeq, LenProperties
<1>2. Front(s) \in Seq(S) /\ Len(Front(s)) = Len(s) - 1
      /\ \A i \in 1 .. Len(s) - 1 : Front(s)[i] = s[i]
  <2> DEFINE n == Len(s) - 1
  <2>1. n \in Int /\ n >= 0 /\ n - 1 + 1 = n /\ \A i \in 1 .. n : i \in 1 .. Len(s) /\ 1 + i - 1 = i
    BY <1>1
  <2>2. \A i \in 1 .. n : s[i] \in S
    BY <2>1, ElementOfSeq
  <2> HIDE DEF n
  <2>3. /\ SubSeq(s, 1, n) \in Seq(S)
        /\ Len(SubSeq(s, 1, n)) = IF 1 <= n THEN n - 1 + 1 ELSE 0
        /\ \A i \in 1 .. n - 1 + 1 : SubSeq(s, 1, n)[i] = s[1 + i - 1]
    BY <2>1, <2>2, SubSeqProperties
  <2>4. Len(SubSeq(s, 1, n)) = n
    BY <2>1, <2>3
  <2>. QED BY <2>1, <2>3, <2>4 DEF Front, n
<1>. QED BY <1>1, <1>2, AppendProperties

LEMMA JoinedType ==
  ASSUME NEW segs \in Seq(Segments), NEW p \in Segments
  PROVE  Joined(segs, p) \in Seq(Segments)
<1>1. Append(segs, p) \in Seq(Segments)
  BY AppendProperties
<1>2. ASSUME segs # <<>>
      PROVE  Append(Front(segs), [Last(segs) EXCEPT !.to = p.to]) \in Seq(Segments)
  <2>1. Len(segs) \in 1 .. Len(segs)
    BY <1>2, EmptySeq, LenProperties
  <2>2. segs[Len(segs)] \in Segments
    BY <2>1, ElementOfSeq
  <2>3. [Last(segs) EXCEPT !.to = p.to] \in Segments
    BY <2>2 DEF Last, Segments
  <2>. QED BY <1>2, <2>3, LastReplaced
<1>. QED BY <1>1, <1>2 DEF Joined

(* One more piece: it is shown beside what was shown.                      *)
LEMMA JoinedStep ==
  ASSUME NEW segs, Proper(segs), NEW p \in Segments, EndsBy(segs, p.from),
         NEW u, u = Joined(segs, p)
  PROVE  /\ Proper(u)
         /\ \A z \in Int : p.from <= z /\ p.to <= z => EndsBy(u, z)
         /\ \A x \in Int : \A state :
              Shows(u, x, state) <=> Shows(segs, x, state) \/ Covers(p, x, state)
<1> DEFINE n == Len(segs)
<1>0. /\ n \in Nat /\ segs \in Seq(Segments)
      /\ \A i \in 1 .. n : segs[i] \in Segments /\ segs[i].from \in Int /\ segs[i].to \in Int
      /\ p.from \in Int /\ p.to \in Int
  <2>1. n \in Nat /\ segs \in Seq(Segments)
    BY LenProperties DEF Proper
  <2>2. ASSUME NEW i \in 1 .. n PROVE segs[i] \in Segments
    BY <2>1, ElementOfSeq
  <2>3. \A q \in Segments : q.from \in Int /\ q.to \in Int
    BY DEF Segments
  <2>. QED BY <2>1, <2>2, <2>3
<1>1. CASE p.to <= p.from
  <2>1. u = segs
    BY <1>1 DEF Joined
  <2>2. ASSUME NEW x \in Int, NEW state PROVE ~Covers(p, x, state)
    BY <1>0, <1>1 DEF Covers
  <2>3. ASSUME NEW z \in Int, p.from <= z PROVE EndsBy(segs, z)
    BY <1>0, <2>3 DEF EndsBy
  <2>. QED BY <2>1, <2>2, <2>3
<1>2. CASE ~(p.to <= p.from) /\ segs # <<>> /\ Last(segs).state = p.state /\ Last(segs).to = p.from
  <2> DEFINE e == [Last(segs) EXCEPT !.to = p.to]
  <2>1. u = Append(Front(segs), e)
    BY <1>2 DEF Joined
  <2>2. n \in 1 .. n /\ n >= 1
    BY <1>0, <1>2, EmptySeq
  <2>3. /\ e \in Segments /\ e.state = p.state /\ e.from = segs[n].from /\ e.to = p.to
        /\ segs[n].to = p.from /\ segs[n].state = p.state
    BY <1>0, <1>2, <2>2 DEF Last, Segments
  <2> HIDE DEF e
  <2>4. /\ u \in Seq(Segments) /\ Len(u) = n /\ u[n] = e
        /\ \A i \in 1 .. n - 1 : u[i] = segs[i]
    <3>1. segs \in Seq(Segments) /\ segs # <<>> /\ e \in Segments
      BY <1>0, <1>2, <2>3
    <3>5. u \in Seq(Segments)
      BY ONLY <2>1, <3>1, LastReplaced
    <3>2. Len(u) = Len(segs)
      BY ONLY <2>1, <3>1, LastReplaced
    <3>3. u[Len(segs)] = e
      BY ONLY <2>1, <3>1, LastReplaced
    <3>4. \A i \in 1 .. Len(segs) - 1 : u[i] = segs[i]
      BY ONLY <2>1, <3>1, LastReplaced
    <3>. QED BY <3>2, <3>3, <3>4, <3>5
  <2>5. ASSUME NEW i \in 1 .. n PROVE u[i].from = segs[i].from /\ u[i].state = segs[i].state
    <3>1. CASE i = n
      BY <2>3, <2>4, <3>1
    <3>2. CASE i # n
      BY <1>0, <2>4, <3>2
    <3>. QED BY <3>1, <3>2
  <2>6. segs[n].from < p.to /\ segs[n].from < p.from
    BY <1>0, <1>2, <2>2, <2>3 DEF Proper
  <2>7. Proper(u)
    <3>1. ASSUME NEW i \in 1 .. n PROVE u[i].from < u[i].to
      <4>1. CASE i = n
        BY <2>3, <2>4, <2>6, <4>1
      <4>2. CASE i # n
        <5>1. i \in 1 .. n - 1
          BY <1>0, <4>2
        <5>. QED BY <2>4, <5>1 DEF Proper
      <4>. QED BY <4>1, <4>2
    <3>2. ASSUME NEW i \in 1 .. n, NEW j \in 1 .. n, i < j PROVE u[i].to <= u[j].from
      <4>1. i \in 1 .. n - 1
        BY <1>0, <3>2
      <4>2. u[i].to = segs[i].to
        BY <2>4, <4>1
      <4>. QED BY <2>5, <3>2, <4>2 DEF Proper
    <3>3. ASSUME NEW i \in 1 .. n - 1, u[i].to = u[i + 1].from PROVE u[i].state # u[i + 1].state
      <4>1. i \in 1 .. n /\ i + 1 \in 1 .. n
        BY <1>0
      <4>2. u[i].to = segs[i].to
        BY <2>4
      <4>3. segs[i].to = segs[i + 1].from
        BY <2>5, <3>3, <4>1, <4>2
      <4>4. segs[i].state # segs[i + 1].state
        BY <4>3 DEF Proper
      <4>. QED BY <2>5, <4>1, <4>4
    <3>. QED BY <2>4, <3>1, <3>2, <3>3 DEF Proper
  <2>8. ASSUME NEW z \in Int, p.from <= z, p.to <= z PROVE EndsBy(u, z)
    <3>1. ASSUME NEW i \in 1 .. n PROVE u[i].to <= z
      <4>1. CASE i = n
        BY <2>3, <2>4, <2>8, <4>1
      <4>2. CASE i # n
        <5>1. i \in 1 .. n - 1
          BY <1>0, <4>2
        <5>2. u[i].to = segs[i].to /\ segs[i].to <= p.from
          BY <2>4, <5>1 DEF EndsBy
        <5>. QED BY <1>0, <2>8, <5>2
      <4>. QED BY <4>1, <4>2
    <3>. QED BY <2>4, <3>1 DEF EndsBy
  <2>9. ASSUME NEW x \in Int, NEW state
        PROVE  Shows(u, x, state) <=> Shows(segs, x, state) \/ Covers(p, x, state)
    <3>1. ASSUME NEW i \in 1 .. n - 1 PROVE Covers(u[i], x, state) <=> Covers(segs[i], x, state)
      BY <2>4
    <3>2. Covers(u[n], x, state) <=> Covers(segs[n], x, state) \/ Covers(p, x, state)
      <4>1. /\ u[n].from = segs[n].from /\ u[n].to = p.to /\ u[n].state = p.state
            /\ segs[n].to = p.from /\ segs[n].state = p.state
        BY <2>3, <2>4
      <4>2. segs[n].from \in Int /\ p.from \in Int /\ p.to \in Int
        BY <1>0, <2>2
      <4>3. segs[n].from < p.from /\ p.from < p.to
        BY <1>0, <1>2, <2>6
      <4>. QED BY ONLY <2>9, <4>1, <4>2, <4>3 DEF Covers
    <3>3. 1 .. n = (1 .. n - 1) \cup {n}
      BY <2>2
    <3>. QED BY <2>4, <3>1, <3>2, <3>3 DEF Shows
  <2>. QED BY <2>7, <2>8, <2>9
<1>3. CASE ~(p.to <= p.from) /\ ~(segs # <<>> /\ Last(segs).state = p.state /\ Last(segs).to = p.from)
  <2>1. u = Append(segs, p)
    BY <1>3 DEF Joined
  <2>2. /\ u \in Seq(Segments) /\ Len(u) = n + 1 /\ u[n + 1] = p
        /\ \A i \in 1 .. n : u[i] = segs[i]
    BY <1>0, <2>1, AppendProperties
  <2>3. ASSUME NEW i \in 1 .. n + 1 PROVE i \in 1 .. n \/ i = n + 1
    BY <1>0
  <2>4. Proper(u)
    <3>1. ASSUME NEW i \in 1 .. n + 1 PROVE u[i].from < u[i].to
      BY <1>0, <1>3, <2>2, <2>3 DEF Proper
    <3>2. ASSUME NEW i \in 1 .. n + 1, NEW j \in 1 .. n + 1, i < j PROVE u[i].to <= u[j].from
      <4>1. i \in 1 .. n
        BY <1>0, <3>2
      <4>2. CASE j = n + 1
        BY <2>2, <4>1, <4>2 DEF EndsBy
      <4>3. CASE j \in 1 .. n
        BY <2>2, <3>2, <4>1, <4>3 DEF Proper
      <4>. QED BY <2>3, <4>2, <4>3
    <3>3. ASSUME NEW i \in 1 .. n + 1 - 1, u[i].to = u[i + 1].from PROVE u[i].state # u[i + 1].state
      <4>1. i \in 1 .. n
        BY <1>0
      <4>2. CASE i = n
        <5>1. segs # <<>>
          BY <1>0, <4>1, EmptySeq
        <5>2. segs[n].to = p.from
          BY <2>2, <3>3, <4>1, <4>2
        <5>. QED BY <1>3, <2>2, <4>1, <4>2, <5>1, <5>2 DEF Last
      <4>3. CASE i # n
        <5>1. i \in 1 .. n - 1 /\ i + 1 \in 1 .. n
          BY <1>0, <4>1, <4>3
        <5>. QED BY <2>2, <3>3, <4>1, <5>1 DEF Proper
      <4>. QED BY <4>2, <4>3
    <3>. QED BY <2>2, <3>1, <3>2, <3>3 DEF Proper
  <2>5. ASSUME NEW z \in Int, p.from <= z, p.to <= z PROVE EndsBy(u, z)
    <3>1. ASSUME NEW i \in 1 .. n + 1 PROVE u[i].to <= z
      <4>1. CASE i = n + 1
        BY <2>2, <2>5, <4>1
      <4>2. CASE i \in 1 .. n
        <5>1. u[i] = segs[i] /\ segs[i].to <= p.from
          BY <2>2, <4>2 DEF EndsBy
        <5>. QED BY <1>0, <2>5, <4>2, <5>1
      <4>. QED BY <2>3, <4>1, <4>2
    <3>. QED BY <2>2, <3>1 DEF EndsBy
  <2>6. ASSUME NEW x \in Int, NEW state
        PROVE  Shows(u, x, state) <=> Shows(segs, x, state) \/ Covers(p, x, state)
    <3>1. 1 .. n + 1 = (1 .. n) \cup {n + 1}
      BY <1>0
    <3>2. \A i \in 1 .. n : Covers(u[i], x, state) <=> Covers(segs[i], x, state)
      BY <2>2
    <3>. QED BY <2>2, <3>1, <3>2 DEF Shows
  <2>. QED BY <2>4, <2>5, <2>6
<1>. QED BY <1>1, <1>2, <1>3

(* A window and a clock.                                                   *)
LEMMA PieceType ==
  ASSUME NEW s \in Seq(Samples), NEW i \in 1 .. Len(s), NEW w, w.start \in Int, w.end \in Int,
         NEW now \in Int
  PROVE  /\ s[i].t \in 0 .. Horizon /\ s[i].t \in Int
         /\ Piece(s, i, w, now) \in Segments
<1>1. Len(s) \in Nat /\ s[i] \in Samples
  BY LenProperties, ElementOfSeq
<1>2. s[i].t \in 0 .. Horizon /\ s[i].v \in Values \cup {Null} /\ s[i].t \in Int
  BY <1>1 DEF Samples
<1>3. ASSUME i < Len(s) PROVE s[i + 1].t \in Int
  <2>1. i + 1 \in 1 .. Len(s)
    BY <1>1, <1>3
  <2>2. s[i + 1] \in Samples
    BY <2>1, ElementOfSeq
  <2>. QED BY <2>2 DEF Samples
<1>4. Greatest(w.start, s[i].t) \in Int
  BY <1>2 DEF Greatest
<1>5. Least(w.end, IF i < Len(s) THEN s[i + 1].t ELSE now) \in Int
  BY <1>3 DEF Least
<1>. QED BY <1>2, <1>4, <1>5 DEF Piece, Segments

(* A piece ends where the next one starts, or earlier.                     *)
LEMMA PieceOrder ==
  ASSUME NEW s \in Seq(Samples), Sorted(s), NEW i \in 1 .. Len(s), i < Len(s),
         NEW w, w.start \in Int, w.end \in Int, NEW now \in Int
  PROVE  /\ Piece(s, i, w, now).from <= Piece(s, i + 1, w, now).from
         /\ Piece(s, i, w, now).to <= Piece(s, i + 1, w, now).from
<1>1. Len(s) \in Nat /\ i + 1 \in 1 .. Len(s) /\ i <= i + 1
  BY LenProperties
<1>2. s[i].t \in Int /\ s[i + 1].t \in Int /\ s[i].t <= s[i + 1].t
  BY <1>1, PieceType DEF Sorted
<1>. QED BY <1>2 DEF Piece, Greatest, Least

(* A timeline shows the pieces of the samples.                             *)
LEMMA TimelineShows ==
  ASSUME NEW s \in Seq(Samples), Sorted(s), NEW w, w.start \in Int, w.end \in Int,
         NEW now \in Int
  PROVE  /\ Proper(Timeline(s, w, now))
         /\ \A x \in Int : \A state :
              Shows(Timeline(s, w, now), x, state)
                <=> \E i \in 1 .. Len(s) : Covers(Piece(s, i, w, now), x, state)
<1> DEFINE n == Len(s)
           P(i) == Piece(s, i, w, now)
           Rec(f) == f = [i \in 0 .. n |-> IF i = 0 THEN <<>> ELSE Joined(f[i - 1], P(i))]
<1>1. n \in Nat /\ \A i \in 1 .. n : P(i) \in Segments
  BY LenProperties, PieceType
<1>2. Timeline(s, w, now) = (CHOOSE f : Rec(f))[n]
  BY DEF Timeline
<1>3. \E f : Rec(f)
  <2> DEFINE X == Seq(Segments)
             G == [i \in 1 .. n |-> [segs \in X |-> Joined(segs, P(i))]]
  <2>1. ASSUME NEW i \in 1 .. n, NEW segs \in X PROVE Joined(segs, P(i)) \in X
    BY <1>1, JoinedType
  <2>2. Moves(G, n, X)
    BY <2>1 DEF Moves
  <2>3. <<>> \in X
    BY EmptySeq
  <2> HIDE DEF G, X
  <2>4. PICK f : RunOf(f, n, X, <<>>, G)
    BY <1>1, <2>2, <2>3, RunExists
  <2>5. ASSUME NEW i \in 1 .. n PROVE f[i] = Joined(f[i - 1], P(i))
    <3>1. i - 1 \in 0 .. n
      BY <1>1
    <3>2. f[i - 1] \in X /\ f[i] = G[i][f[i - 1]]
      BY <2>4, <3>1 DEF RunOf
    <3>. QED BY <3>2 DEF G
  <2>6. ASSUME NEW i \in 0 .. n PROVE f[i] = IF i = 0 THEN <<>> ELSE Joined(f[i - 1], P(i))
    BY <1>1, <2>4, <2>5 DEF RunOf
  <2> HIDE DEF P, n
  <2>7. Rec(f)
    BY <2>4, <2>6 DEF RunOf
  <2>. QED BY <2>7
<1>4. PICK F : Rec(F) /\ Timeline(s, w, now) = F[n]
  <2> HIDE DEF Rec
  <2>. QED BY <1>2, <1>3
<1>5. F[0] = <<>> /\ \A i \in 1 .. n : F[i] = Joined(F[i - 1], P(i))
  <2> HIDE DEF P, n
  <2>1. \A i \in 0 .. n : F[i] = IF i = 0 THEN <<>> ELSE Joined(F[i - 1], P(i))
    BY <1>4
  <2>. QED BY <1>1, <2>1
<1> DEFINE Shown(m) == \A x \in Int : \A state :
                         Shows(F[m], x, state) <=> \E i \in 1 .. m : Covers(P(i), x, state)
           Good(m) == /\ Proper(F[m]) /\ Shown(m)
                      /\ m < n => EndsBy(F[m], P(m + 1).from)
           T == {m \in 0 .. n : Good(m)}
<1> HIDE DEF Rec
<1>6. 0 \in T
  <2>1. <<>> \in Seq(Segments) /\ Len(<<>>) = 0
    BY EmptySeq
  <2> HIDE DEF P
  <2>2. Proper(<<>>) /\ EndsBy(<<>>, P(0 + 1).from)
    BY <2>1 DEF Proper, EndsBy
  <2>3. Shown(0)
    BY <1>5, <2>1 DEF Shows
  <2>. QED BY <1>1, <1>5, <2>2, <2>3
<1>7. ASSUME NEW m \in 1 .. n, m - 1 \in T PROVE m \in T
  <2>1. m - 1 < n /\ m - 1 + 1 = m /\ m \in 0 .. n
    BY <1>1
  <2>2. Proper(F[m - 1]) /\ Shown(m - 1) /\ EndsBy(F[m - 1], P(m).from)
    BY <1>7, <2>1
  <2>3. P(m) \in Segments /\ P(m).from \in Int /\ P(m).to \in Int
    <3>1. P(m) \in Segments
      BY <1>1
    <3>. QED BY <3>1 DEF Segments
  <2> HIDE DEF P
  <2>4. F[m] = Joined(F[m - 1], P(m))
    BY <1>5
  <2>5. Proper(F[m])
    BY <2>2, <2>3, <2>4, JoinedStep
  <2>6. \A z \in Int : P(m).from <= z /\ P(m).to <= z => EndsBy(F[m], z)
    BY <2>2, <2>3, <2>4, JoinedStep
  <2>7. \A x \in Int : \A state :
          Shows(F[m], x, state) <=> Shows(F[m - 1], x, state) \/ Covers(P(m), x, state)
    BY <2>2, <2>3, <2>4, JoinedStep
  <2>8. 1 .. m = (1 .. m - 1) \cup {m}
    BY <1>1
  <2>9. Shown(m)
    BY <2>2, <2>7, <2>8
  <2>10. ASSUME m < n PROVE EndsBy(F[m], P(m + 1).from)
    <3>1. P(m).from <= P(m + 1).from /\ P(m).to <= P(m + 1).from
      BY <2>10, PieceOrder DEF P
    <3>2. m + 1 \in 1 .. n
      BY <1>1, <2>10
    <3>3. P(m + 1) \in Segments
      BY <1>1, <3>2
    <3>4. P(m + 1).from \in Int
      BY <3>3 DEF Segments
    <3>. QED BY <2>6, <3>1, <3>4
  <2>. QED BY <2>1, <2>5, <2>9, <2>10
<1>8. Good(n)
  <2> HIDE DEF T
  <2>1. 0 .. n \subseteq T
    BY <1>1, <1>6, <1>7, CountUp
  <2>2. n \in T
    BY <1>1, <2>1
  <2>. QED BY <2>2 DEF T
<1>. QED BY <1>4, <1>8

-----------------------------------------------------------------------------
(* The state in force.                                                     *)

FiguresInv == series \in Seq(Samples) /\ Sorted(series)

(* Sample k is the last one not after x.                                   *)
Holds(k, x) ==
  /\ k \in 1 .. Len(series) /\ series[k].t <= x
  /\ k < Len(series) => x < series[k + 1].t

Begun(x) == \E i \in DOMAIN series : series[i].t <= x

LEMMA SeriesType ==
  ASSUME FiguresInv
  PROVE  /\ Len(series) \in Nat /\ DOMAIN series = 1 .. Len(series)
         /\ \A i \in 1 .. Len(series) :
              /\ series[i].t \in 0 .. Horizon /\ series[i].t \in Int
              /\ series[i].v \in Values \cup {Null}
<1>1. Len(series) \in Nat /\ DOMAIN series = 1 .. Len(series)
  BY LenProperties DEF FiguresInv
<1>2. \A i \in 1 .. Len(series) : series[i] \in Samples
  BY ElementOfSeq DEF FiguresInv
<1>3. \A e \in Samples : e.t \in 0 .. Horizon /\ e.t \in Int /\ e.v \in Values \cup {Null}
  BY DEF Samples
<1>. QED BY <1>1, <1>2, <1>3

LEMMA InForceAt ==
  ASSUME FiguresInv, NEW x \in Int, NEW k, Holds(k, x)
  PROVE  InForce(x) = series[k].v /\ Begun(x)
<1> DEFINE before == {i \in DOMAIN series : series[i].t <= x}
<1>1. k \in before /\ k \in Int
  BY SeriesType DEF Holds
<1>2. ASSUME NEW i \in before PROVE i <= k /\ i \in Int
  <2>1. i \in 1 .. Len(series) /\ series[i].t <= x /\ i \in Int
    BY SeriesType
  <2>2. CASE i > k
    <3>1. k + 1 \in 1 .. Len(series) /\ k + 1 <= i /\ k < Len(series)
      BY <1>1, <2>1, <2>2, SeriesType DEF Holds
    <3>2. series[k + 1].t <= series[i].t
      BY <2>1, <3>1 DEF FiguresInv, Sorted
    <3>3. x < series[k + 1].t
      BY <3>1 DEF Holds
    <3>. QED BY <2>1, <3>1, <3>2, <3>3, SeriesType
  <2>. QED BY <1>1, <2>1, <2>2
<1> HIDE DEF before
<1>3. \A i \in before : k >= i
  BY <1>1, <1>2
<1>4. \A j \in before : (\A i \in before : j >= i) => j = k
  BY <1>1, <1>2
<1>5. Max(before) = k
  BY <1>1, <1>3, <1>4 DEF Max
<1>6. before # {} /\ Begun(x)
  BY <1>1 DEF before, Begun
<1>. QED BY <1>5, <1>6 DEF InForce, before

LEMMA NothingInForce ==
  ASSUME NEW x, ~Begun(x)
  PROVE  InForce(x) = Null
BY DEF InForce, Begun

LEMMA HeldBySome ==
  ASSUME FiguresInv, NEW x \in Int, Begun(x)
  PROVE  \E k : Holds(k, x)
<1> DEFINE n == Len(series)
<1> SUFFICES ASSUME \A k : ~Holds(k, x) PROVE FALSE
  OBVIOUS
<1>1. PICK b \in 1 .. n : series[b].t <= x
  BY SeriesType DEF Begun
<1>2. n \in Nat /\ b \in Int
  BY <1>1, SeriesType
<1> DEFINE T == {m \in 0 .. n : m >= b => series[m].t <= x}
<1>3. 0 \in T
  BY <1>1, <1>2
<1>4. ASSUME NEW m \in 1 .. n, m - 1 \in T PROVE m \in T
  <2>1. CASE m < b
    BY <1>1, <1>2, <2>1
  <2>2. CASE m = b
    BY <1>1, <1>2, <2>2
  <2>3. CASE m > b
    <3>1. m - 1 \in 1 .. n /\ m - 1 >= b /\ m - 1 < n /\ m - 1 + 1 = m
      BY <1>1, <1>2, <2>3
    <3>2. series[m - 1].t <= x
      BY <1>4, <3>1
    <3>3. ~(x < series[m].t)
      BY <3>1, <3>2 DEF Holds
    <3>4. series[m].t \in Int
      BY SeriesType
    <3>. QED BY <3>3, <3>4
  <2>. QED BY <1>2, <2>1, <2>2, <2>3
<1>5. n \in T
  <2> HIDE DEF T
  <2>1. 0 .. n \subseteq T
    BY <1>2, <1>3, <1>4, CountUp
  <2>. QED BY <1>2, <2>1
<1>6. Holds(n, x)
  BY <1>1, <1>2, <1>5 DEF Holds
<1>. QED BY <1>6

-----------------------------------------------------------------------------
(* Timelines, against the state in force.                                  *)

OverAt(segs, x) == {i \in DOMAIN segs : segs[i].from <= x /\ x < segs[i].to}

LEMMA TimelineRight ==
  ASSUME FiguresInv, NEW w, w.start \in Int, w.end \in Int, NEW now \in Int,
         NEW x \in w.start .. w.end - 1,
         NEW segs, segs = Timeline(series, w, now),
         NEW over, over = OverAt(segs, x)
  PROVE  IF x < now /\ Begun(x)
         THEN \E i \in DOMAIN segs : over = {i} /\ segs[i].state = InForce(x)
         ELSE over # {} => Begun(x) /\ Last(series).t > now
<1> DEFINE n == Len(series)
           P(i) == Piece(series, i, w, now)
<1>0. n \in Nat /\ x \in Int /\ w.start <= x /\ x < w.end
  BY SeriesType
<1>1. /\ Proper(segs)
      /\ \A state : Shows(segs, x, state) <=> \E i \in 1 .. n : Covers(P(i), x, state)
  <2> HIDE DEF P, n
  <2>1. series \in Seq(Samples) /\ Sorted(series)
    BY DEF FiguresInv
  <2>. QED BY <1>0, <2>1, TimelineShows DEF P, n
<1>2. /\ Len(segs) \in Nat /\ DOMAIN segs = 1 .. Len(segs)
      /\ \A i \in 1 .. Len(segs) : segs[i].from \in Int /\ segs[i].to \in Int
  <2>1. segs \in Seq(Segments)
    BY <1>1 DEF Proper
  <2>2. \A i \in 1 .. Len(segs) : segs[i] \in Segments
    BY <2>1, ElementOfSeq
  <2>3. \A p \in Segments : p.from \in Int /\ p.to \in Int
    BY DEF Segments
  <2>. QED BY <2>1, <2>2, <2>3, LenProperties
<1>3. CASE x < now /\ Begun(x)
  <2>1. PICK k : Holds(k, x)
    BY <1>0, <1>3, HeldBySome
  <2>2. InForce(x) = series[k].v
    BY <1>0, <2>1, InForceAt
  <2>3. k \in 1 .. n /\ Covers(P(k), x, series[k].v)
    <3>1. k \in 1 .. n /\ series[k].t \in Int /\ series[k].t <= x
      BY <2>1, SeriesType DEF Holds
    <3>2. P(k).from <= x
      BY <1>0, <3>1 DEF Piece, Greatest
    <3>3. CASE k < n
      <4>1. x < series[k + 1].t /\ series[k + 1].t \in Int
        <5>1. k + 1 \in 1 .. n
          BY <1>0, <3>1, <3>3
        <5>. QED BY <2>1, <3>3, <5>1, SeriesType DEF Holds
      <4>2. x < P(k).to
        BY <1>0, <3>3, <4>1 DEF Piece, Least
      <4>. QED BY <3>1, <3>2, <4>2 DEF Covers, Piece
    <3>4. CASE ~(k < n)
      <4>1. x < P(k).to
        BY <1>0, <1>3, <3>4 DEF Piece, Least
      <4>. QED BY <3>1, <3>2, <4>1 DEF Covers, Piece
    <3>. QED BY <3>3, <3>4
  <2>4. PICK i \in 1 .. Len(segs) : Covers(segs[i], x, series[k].v)
    <3> HIDE DEF P, n
    <3>. QED BY <1>1, <2>3 DEF Shows
  <2>5. ASSUME NEW j \in over PROVE j = i
    <3>1. j \in 1 .. Len(segs) /\ segs[j].from <= x /\ x < segs[j].to
      BY <1>2 DEF OverAt
    <3>2. segs[i].from <= x /\ x < segs[i].to
      BY <2>4 DEF Covers
    <3>3. ~(i < j)
      <4> SUFFICES ASSUME i < j PROVE FALSE
        OBVIOUS
      <4>1. segs[i].to <= segs[j].from
        BY <1>1, <3>1 DEF Proper
      <4>. QED BY <1>0, <1>2, <3>1, <3>2, <4>1
    <3>4. ~(j < i)
      <4> SUFFICES ASSUME j < i PROVE FALSE
        OBVIOUS
      <4>1. segs[j].to <= segs[i].from
        BY <1>1, <3>1 DEF Proper
      <4>. QED BY <1>0, <1>2, <3>1, <3>2, <4>1
    <3>. QED BY <1>2, <3>1, <3>3, <3>4
  <2>6. i \in over /\ i \in DOMAIN segs /\ segs[i].state = InForce(x)
    BY <1>2, <2>2, <2>4 DEF Covers, OverAt
  <2>7. over = {i}
    BY <2>5, <2>6
  <2>. QED BY <1>3, <2>6, <2>7
<1>4. CASE ~(x < now /\ Begun(x)) /\ over # {}
  <2>1. PICK j \in 1 .. Len(segs) : segs[j].from <= x /\ x < segs[j].to
    BY <1>2, <1>4 DEF OverAt
  <2>2. PICK i \in 1 .. n : Covers(P(i), x, segs[j].state)
    <3>1. Shows(segs, x, segs[j].state)
      BY <2>1 DEF Shows, Covers
    <3> HIDE DEF P, n
    <3>. QED BY <1>1, <3>1
  <2>3. P(i).from <= x /\ x < P(i).to /\ series[i].t \in Int /\ i \in Int
    BY <2>2, SeriesType DEF Covers
  <2>4. series[i].t <= x
    BY <1>0, <2>3 DEF Piece, Greatest
  <2>5. Begun(x)
    BY <2>4, SeriesType DEF Begun
  <2>6. now <= x
    BY <1>0, <1>4, <2>5
  <2>7. i < n
    <3> SUFFICES ASSUME ~(i < n) PROVE FALSE
      OBVIOUS
    <3>1. P(i).to <= now
      BY <1>0 DEF Piece, Least
    <3>2. P(i).to = Least(w.end, now)
      BY DEF Piece
    <3>3. P(i).to \in Int
      BY <3>2 DEF Least
    <3>. QED BY <1>0, <2>3, <2>6, <3>1, <3>3
  <2>8. i + 1 \in 1 .. n /\ n \in 1 .. n /\ i + 1 <= n
    BY <1>0, <2>3, <2>7
  <2>9. series[i + 1].t \in Int /\ series[n].t \in Int /\ series[i + 1].t <= series[n].t
    BY <2>8, SeriesType DEF FiguresInv, Sorted
  <2>10. x < series[i + 1].t
    BY <1>0, <2>3, <2>7, <2>9 DEF Piece, Least
  <2>11. Last(series).t > now
    BY <1>0, <2>6, <2>9, <2>10 DEF Last
  <2>. QED BY <1>4, <2>5, <2>11
<1>. QED BY <1>3, <1>4

-----------------------------------------------------------------------------
(* Sparklines.                                                             *)

(* Products keep an order.                                                 *)
LEMMA ScaledOrder ==
  ASSUME NEW a \in Int, NEW b \in Int, NEW c \in Int, a <= b, 0 <= c
  PROVE  c * a <= c * b
<1>1. 0 <= b - a /\ b - a \in Int
  OBVIOUS
<1>2. 0 <= c * (b - a)
  BY <1>1
<1>3. c * (b - a) = c * b - c * a
  OBVIOUS
<1>. QED BY <1>2, <1>3

(* A whole number is not over a fraction if it is not over its floor.      *)
LEMMA FloorBound ==
  ASSUME NEW d \in Nat \ {0}, NEW t \in Int, NEW q \in Int
  PROVE  /\ q \div d \in Int
         /\ d * t <= q <=> t <= q \div d
<1> DEFINE f == q \div d
<1>1. f \in Int /\ d * f <= q /\ q < d * f + d
  <2>1. /\ f \in Int /\ q % d \in 0 .. d - 1 /\ q = d * f + (q % d)
    BY SMTT(30)
  <2>. QED BY <2>1
<1> HIDE DEF f
<1>2. ASSUME t <= f PROVE d * t <= q
  <2>1. d * t <= d * f
    BY <1>1, <1>2, ScaledOrder
  <2>. QED BY <1>1, <2>1
<1>3. ASSUME ~(t <= f) PROVE ~(d * t <= q)
  <2>1. f + 1 <= t /\ f + 1 \in Int
    BY <1>1, <1>3
  <2>2. d * (f + 1) <= d * t
    BY <2>1, ScaledOrder
  <2>3. d * (f + 1) = d * f + d
    BY <1>1
  <2>4. d * f \in Int /\ d * t \in Int
    BY <1>1
  <2>. QED BY <1>1, <2>2, <2>3, <2>4
<1>. QED BY <1>1, <1>2, <1>3 DEF f

(* The least of a set of positions.                                        *)
LEMMA LeastPosition ==
  ASSUME NEW S \in SUBSET Nat, S # {}
  PROVE  Min(S) \in S /\ \A y \in S : Min(S) <= y
<1>1. PICK x \in S : \A y \in S : ~(<<y, x>> \in OpToRel(<, Nat))
  BY NatLessThanWellFounded, WFMin
<1>2. ASSUME NEW y \in S PROVE x <= y
  <2>1. ~(y < x) /\ x \in Nat /\ y \in Nat
    BY <1>1 DEF OpToRel
  <2>. QED BY <2>1
<1>3. \E m \in S : \A y \in S : m <= y
  BY <1>2
<1>. QED BY <1>3 DEF Min

(* Where resample's inner loop may stop: N is what is not later.           *)
Stops(j, n, N) == {m \in j .. n : m = n \/ m + 1 \notin N}

LEMMA StopsAt ==
  ASSUME NEW n \in Nat, NEW j \in 1 .. n, NEW N,
         NEW k, k = Min(Stops(j, n, N))
  PROVE  /\ k \in j .. n /\ (k = n \/ k + 1 \notin N)
         /\ \A m \in j + 1 .. k : m \in N
<1> DEFINE S == Stops(j, n, N)
<1>1. S \in SUBSET Nat /\ n \in S
  BY DEF Stops
<1>2. k = Min(S)
  OBVIOUS
<1>3. k \in S /\ \A y \in S : k <= y
  <2> HIDE DEF S
  <2>1. S # {} /\ S \in SUBSET Nat
    BY <1>1
  <2>2. Min(S) \in S
    BY ONLY <2>1, LeastPosition
  <2>3. \A y \in S : Min(S) <= y
    BY ONLY <2>1, LeastPosition
  <2>. QED BY <1>2, <2>2, <2>3
<1>4. ASSUME NEW m \in j + 1 .. k PROVE m \in N
  <2>1. m - 1 \in j .. n /\ m - 1 < k /\ m - 1 # n /\ m - 1 + 1 = m /\ k \in Int
    BY <1>3 DEF Stops
  <2>2. m - 1 \notin S
    BY <1>3, <2>1
  <2>. QED BY <2>1, <2>2 DEF Stops
<1>. QED BY <1>3, <1>4 DEF Stops

LEMMA SparklineRight ==
  ASSUME FiguresInv, FiguresAssumption, NEW w, w.start \in Int, w.end \in Int,
         w.start <= w.end, NEW i \in 0 .. Spark - 1
  PROVE  Resample(series, w)[i] = InForce(Instant(w, i) \div (Spark - 1))
<1> DEFINE n == Len(series)
           top == Spark - 1
           NotLater(k, j) == (Spark - 1) * series[k].t <= Instant(w, j)
           Stop(k, j) == Min({m \in k .. n : m = n \/ ~NotLater(m + 1, j)})
           Rec(f) == f = [j \in 0 .. top |-> Stop(IF j = 0 THEN 1 ELSE f[j - 1], j)]
           Shown(f) == [j \in 0 .. top |->
                          IF series # <<>> /\ NotLater(f[j], j) THEN series[f[j]].v ELSE Null]
<1>1. n \in Nat /\ top \in Nat \ {0} /\ i \in 0 .. top
  BY SeriesType DEF FiguresAssumption
<1>2. ASSUME NEW j \in 0 .. top PROVE Instant(w, j) \in Int
  <2>1. top * w.start \in Int /\ (w.end - w.start) * j \in Int
    BY <1>1
  <2>. QED BY <2>1 DEF Instant
<1>3. Resample(series, w) = Shown(CHOOSE f : Rec(f))
  BY DEF Resample
<1> DEFINE x == Instant(w, i) \div (Spark - 1)
<1>4. /\ x \in Int
      /\ \A k \in 1 .. n : NotLater(k, i) <=> series[k].t <= x
  <2>1. ASSUME NEW k \in 1 .. n PROVE NotLater(k, i) <=> series[k].t <= x
    <3>1. top \in Nat \ {0} /\ series[k].t \in Int /\ Instant(w, i) \in Int
      BY <1>1, <1>2, SeriesType
    <3>2. top * series[k].t <= Instant(w, i) <=> series[k].t <= Instant(w, i) \div top
      BY ONLY <3>1, FloorBound
    <3>. QED BY <3>2
  <2>2. x \in Int
    <3>1. top \in Nat \ {0} /\ 0 \in Int /\ Instant(w, i) \in Int
      BY <1>1, <1>2
    <3>2. Instant(w, i) \div top \in Int
      BY ONLY <3>1, FloorBound
    <3>. QED BY <3>2
  <2>. QED BY <2>1, <2>2
<1>5. CASE series = <<>>
  <2>1. n = 0
    BY <1>5
  <2>2. ~Begun(x)
    BY <1>5, <2>1, SeriesType DEF Begun
  <2> HIDE DEF x
  <2>3. InForce(x) = Null
    BY <2>2, NothingInForce
  <2> HIDE DEF NotLater, Rec, n
  <2>4. \A f : Shown(f)[i] = Null
    BY <1>1, <1>5
  <2> HIDE DEF Shown
  <2>. QED BY <1>3, <2>3, <2>4 DEF x
<1>6. CASE series # <<>>
  <2>1. 1 \in 1 .. n /\ n \in 1 .. n
    <3>1. series \in Seq(Samples)
      BY DEF FiguresInv
    <3>2. n # 0
      BY <1>6, <3>1, EmptySeq
    <3>. QED BY <1>1, <3>2
  <2>2. ASSUME NEW j \in 0 .. top, NEW k \in 1 .. n
        PROVE  /\ Stop(k, j) \in k .. n
               /\ Stop(k, j) = n \/ ~NotLater(Stop(k, j) + 1, j)
               /\ \A m \in k + 1 .. Stop(k, j) : NotLater(m, j)
    <3> DEFINE N == {m \in 1 .. n : NotLater(m, j)}
               S == Stops(k, n, N)
    <3> HIDE DEF NotLater, n
    <3>1. {m \in k .. n : m = n \/ ~NotLater(m + 1, j)} = S
      <4>1. ASSUME NEW m \in k .. n, m # n PROVE m + 1 \in N <=> NotLater(m + 1, j)
        <5>1. m + 1 \in 1 .. n
          BY <1>1, <4>1
        <5>. QED BY <5>1
      <4>. QED BY <4>1 DEF Stops
    <3>2. PICK q : q = Stop(k, j)
      OBVIOUS
    <3>3. q = Min(S)
      BY <3>1, <3>2
    <3> HIDE DEF N, Stop
    <3>4. q \in k .. n
      BY <1>1, <3>3, StopsAt
    <3>5. q = n \/ q + 1 \notin N
      BY <1>1, <3>3, StopsAt
    <3>6. \A m \in k + 1 .. q : m \in N
      BY <1>1, <3>3, StopsAt
    <3>7. q # n => q + 1 \in 1 .. n
      BY <1>1, <3>4
    <3>. QED BY <3>2, <3>4, <3>5, <3>6, <3>7 DEF N
  <2>3. \E f : Rec(f)
    <3> DEFINE X == 1 .. n
               G == [j \in 1 .. top |-> [k \in X |-> Stop(k, j)]]
    <3> HIDE DEF Stop, n, top
    <3>1. ASSUME NEW j \in 0 .. top, NEW k \in X PROVE Stop(k, j) \in X
      <4>1. Stop(k, j) \in k .. n
        BY <2>2
      <4>. QED BY <1>1, <4>1
    <3>2. Moves(G, top, X) /\ Stop(1, 0) \in X /\ top \in Nat
      BY <1>1, <2>1, <3>1 DEF Moves
    <3> HIDE DEF G, X
    <3>3. PICK a : a = Stop(1, 0)
      OBVIOUS
    <3>4. PICK f : RunOf(f, top, X, a, G)
      BY <3>2, <3>3, RunExists
    <3>5. ASSUME NEW j \in 0 .. top PROVE f[j] = Stop(IF j = 0 THEN 1 ELSE f[j - 1], j)
      <4>1. CASE j = 0
        BY <3>3, <3>4, <4>1 DEF RunOf
      <4>2. CASE j # 0
        <5>1. j \in 1 .. top /\ j - 1 \in 0 .. top
          BY <1>1, <4>2
        <5>2. f[j - 1] \in X /\ f[j] = G[j][f[j - 1]]
          BY <3>4, <5>1 DEF RunOf
        <5>3. f[j] = Stop(f[j - 1], j)
          BY <5>1, <5>2 DEF G
        <5>. QED BY <4>2, <5>3
      <4>. QED BY <4>1, <4>2
    <3>6. Rec(f)
      BY <3>4, <3>5 DEF RunOf
    <3>. QED BY <3>6
  <2>4. PICK F : Rec(F) /\ Resample(series, w) = Shown(F)
    <3> HIDE DEF Rec, Shown
    <3>. QED BY <1>3, <2>3
  <2>5. /\ F[0] = Stop(1, 0)
        /\ \A j \in 1 .. top : F[j] = Stop(F[j - 1], j)
    <3> HIDE DEF Stop, n, top
    <3>1. \A j \in 0 .. top : F[j] = Stop(IF j = 0 THEN 1 ELSE F[j - 1], j)
      BY <2>4
    <3>2. 0 \in 0 .. top
      BY <1>1
    <3>3. \A j \in 1 .. top : j # 0 /\ j \in 0 .. top
      BY <1>1
    <3>. QED BY <3>1, <3>2, <3>3
  <2> DEFINE Reached(j) == /\ F[j] \in 1 .. n
                           /\ F[j] = n \/ ~NotLater(F[j] + 1, j)
                           /\ \A m \in 2 .. F[j] : NotLater(m, j)
             T == {j \in 0 .. top : Reached(j)}
  <2> HIDE DEF Rec, Shown, Stop
  <2>6. 0 \in T
    <3> HIDE DEF NotLater, n, top
    <3>1. 0 \in 0 .. top
      BY <1>1
    <3>2. /\ F[0] \in 1 .. n /\ (F[0] = n \/ ~NotLater(F[0] + 1, 0))
          /\ \A m \in 1 + 1 .. F[0] : NotLater(m, 0)
      BY <2>1, <2>2, <2>5, <3>1
    <3>. QED BY <3>1, <3>2
  <2>7. ASSUME NEW j \in 1 .. top, j - 1 \in T PROVE j \in T
    <3>1. j \in 0 .. top /\ j - 1 \in 0 .. top /\ Instant(w, j - 1) <= Instant(w, j)
      <4>1. j - 1 \in 0 .. top /\ j \in 0 .. top /\ j - 1 <= j /\ j \in Int /\ j - 1 \in Int
        BY <1>1
      <4>2. w.end - w.start \in Int /\ 0 <= w.end - w.start
        OBVIOUS
      <4>3. (w.end - w.start) * (j - 1) <= (w.end - w.start) * j
        BY ONLY <4>1, <4>2, ScaledOrder
      <4>4. /\ (w.end - w.start) * (j - 1) \in Int /\ (w.end - w.start) * j \in Int
            /\ (Spark - 1) * w.start \in Int
        <5>1. j \in Int /\ j - 1 \in Int /\ w.end - w.start \in Int
          BY <4>1, <4>2
        <5>2. Spark - 1 \in Int /\ w.start \in Int
          BY <1>1
        <5>3. \A a, b \in Int : a * b \in Int
          BY ONLY TRUE
        <5>. QED BY ONLY <5>1, <5>2, <5>3
      <4>5. PICK p, q, r : /\ p = (w.end - w.start) * (j - 1) /\ q = (w.end - w.start) * j
                           /\ r = (Spark - 1) * w.start
        OBVIOUS
      <4>6. p \in Int /\ q \in Int /\ r \in Int /\ p <= q
        BY <4>3, <4>4, <4>5
      <4>7. r + p <= r + q
        BY ONLY <4>6
      <4>8. Instant(w, j - 1) = r + p /\ Instant(w, j) = r + q
        BY <4>5 DEF Instant
      <4>. QED BY <4>1, <4>7, <4>8
    <3>2. ASSUME NEW m \in 1 .. n, NotLater(m, j - 1) PROVE NotLater(m, j)
      <4>1. (Spark - 1) * series[m].t \in Int
        BY <1>1, SeriesType
      <4>. QED BY <1>2, <3>1, <3>2, <4>1
    <3> HIDE DEF NotLater, n, top
    <3>3. F[j - 1] \in 1 .. n /\ \A m \in 2 .. F[j - 1] : NotLater(m, j - 1)
      BY <2>7
    <3>4. /\ F[j] \in F[j - 1] .. n /\ (F[j] = n \/ ~NotLater(F[j] + 1, j))
          /\ \A m \in F[j - 1] + 1 .. F[j] : NotLater(m, j)
      BY <2>2, <2>5, <3>1, <3>3
    <3>5. ASSUME NEW m \in 2 .. F[j] PROVE NotLater(m, j)
      <4>1. CASE m <= F[j - 1]
        <5>1. m \in 2 .. F[j - 1] /\ m \in 1 .. n
          BY <1>1, <3>3, <4>1
        <5>. QED BY <3>2, <3>3, <5>1
      <4>2. CASE ~(m <= F[j - 1])
        <5>1. m \in F[j - 1] + 1 .. F[j]
          BY <1>1, <3>3, <3>4, <4>2
        <5>. QED BY <3>4, <5>1
      <4>. QED BY <4>1, <4>2
    <3>6. F[j] \in 1 .. n
      BY <1>1, <3>3, <3>4
    <3>. QED BY <3>1, <3>4, <3>5, <3>6
  <2>8. Reached(i)
    <3> HIDE DEF T, top
    <3>1. 0 .. top \subseteq T
      BY <1>1, <2>6, <2>7, CountUp
    <3>2. i \in T
      BY <1>1, <3>1
    <3>. QED BY <3>2 DEF T
  <2>9. PICK k : k = F[i]
    OBVIOUS
  <2>10. /\ k \in 1 .. n /\ k \in Int /\ (k = n \/ ~NotLater(k + 1, i))
         /\ \A m \in 2 .. k : NotLater(m, i)
    <3> HIDE DEF NotLater, n
    <3>. QED BY <1>1, <2>8, <2>9
  <2>11. Resample(series, w)[i] = IF NotLater(k, i) THEN series[k].v ELSE Null
    <3> HIDE DEF NotLater, n
    <3>. QED BY <1>1, <1>6, <2>4, <2>9 DEF Shown
  <2>12. CASE NotLater(k, i)
    <3>1. series[k].t <= x
      <4> HIDE DEF NotLater, x, n
      <4>. QED BY <1>4, <2>10, <2>12
    <3>2. k < n => x < series[k + 1].t
      <4> SUFFICES ASSUME k < n PROVE x < series[k + 1].t
        OBVIOUS
      <4>1. k + 1 \in 1 .. n /\ k # n
        BY <1>1, <2>10
      <4>2. series[k + 1].t \in Int
        BY <4>1, SeriesType
      <4> HIDE DEF NotLater, x, n
      <4>3. ~(series[k + 1].t <= x)
        BY <1>4, <2>10, <4>1
      <4>. QED BY <1>4, <4>2, <4>3
    <3>3. Holds(k, x)
      <4> HIDE DEF NotLater, x
      <4>. QED BY <2>10, <3>1, <3>2 DEF Holds
    <3> HIDE DEF NotLater, x
    <3>4. InForce(x) = series[k].v
      BY <1>4, <3>3, InForceAt
    <3>. QED BY <2>11, <2>12, <3>4 DEF x
  <2>13. CASE ~NotLater(k, i)
    <3> HIDE DEF NotLater, x
    <3>1. k = 1
      <4> SUFFICES ASSUME k # 1 PROVE FALSE
        OBVIOUS
      <4>1. k \in 2 .. k
        BY <2>10
      <4>. QED BY <2>10, <2>13, <4>1
    <3>2. ~(series[1].t <= x)
      BY <1>4, <2>1, <2>13, <3>1
    <3>3. ASSUME NEW m \in 1 .. n PROVE ~(series[m].t <= x)
      <4>1. series[1].t <= series[m].t
        BY <2>1, <3>3 DEF FiguresInv, Sorted
      <4>2. series[1].t \in Int /\ series[m].t \in Int
        BY <2>1, SeriesType
      <4>. QED BY <1>4, <3>2, <4>1, <4>2
    <3>4. ~Begun(x)
      BY <3>3, SeriesType DEF Begun
    <3>. QED BY <2>11, <2>13, <3>4, NothingInForce DEF x
  <2>. QED BY <2>12, <2>13
<1>. QED BY <1>5, <1>6

-----------------------------------------------------------------------------
(* Shares.                                                                 *)

LEMMA ShareRight ==
  ASSUME FiguresInv, FiguresAssumption, NEW state
  PROVE  Share(series, Horizon, state) =
           Cardinality({x \in 0 .. Horizon - 1 : Begun(x) /\ InForce(x) = state})
<1> DEFINE n == Len(series)
           Until(i) == IF i < n THEN series[i + 1].t ELSE Horizon
           Adds(i) == IF series[i].v = state THEN Until(i) - series[i].t ELSE 0
           Rec(f) == f = [i \in 0 .. n |-> IF i = 0 THEN 0 ELSE f[i - 1] + Adds(i)]
           Seen(i) == {x \in 0 .. Until(i) - 1 : Begun(x) /\ InForce(x) = state}
<1>1. /\ n \in Nat /\ Horizon \in Nat
      /\ \A i \in 0 .. n : Until(i) \in 0 .. Horizon /\ Until(i) \in Int
  <2>1. n \in Nat /\ Horizon \in Nat
    BY SeriesType DEF FiguresAssumption
  <2>2. ASSUME NEW i \in 0 .. n PROVE Until(i) \in 0 .. Horizon /\ Until(i) \in Int
    <3>1. CASE i < n
      <4>1. i + 1 \in 1 .. n
        BY <2>1, <3>1
      <4>. QED BY <3>1, <4>1, SeriesType
    <3>. QED BY <2>1, <3>1
  <2>. QED BY <2>1, <2>2
<1>2. \A i \in 1 .. n : Adds(i) \in Int
  <2>1. ASSUME NEW i \in 1 .. n PROVE Adds(i) \in Int
    <3>1. i \in 0 .. n /\ series[i].t \in Int
      BY SeriesType
    <3>2. Until(i) \in Int
      BY <1>1, <3>1
    <3> HIDE DEF Until
    <3>. QED BY <3>1, <3>2
  <2>. QED BY <2>1
<1>3. Share(series, Horizon, state) = (CHOOSE f : Rec(f))[n]
  BY DEF Share
<1>4. \E f : Rec(f)
  <2> DEFINE G == [i \in 1 .. n |-> [q \in Int |-> q + Adds(i)]]
  <2> HIDE DEF Adds, n
  <2>1. Moves(G, n, Int)
    BY <1>2 DEF Moves
  <2> HIDE DEF G
  <2>2. PICK f : RunOf(f, n, Int, 0, G)
    <3>1. PICK X : X = Int
      OBVIOUS
    <3>2. n \in Nat /\ 0 \in X /\ Moves(G, n, X)
      BY <1>1, <2>1, <3>1
    <3>3. \E f : RunOf(f, n, X, 0, G)
      BY ONLY <3>2, RunExists
    <3>. QED BY <3>1, <3>3
  <2>3. ASSUME NEW i \in 0 .. n PROVE f[i] = IF i = 0 THEN 0 ELSE f[i - 1] + Adds(i)
    <3>1. CASE i = 0
      BY <2>2, <3>1 DEF RunOf
    <3>2. CASE i # 0
      <4>1. i \in 1 .. n /\ i - 1 \in 0 .. n
        BY <1>1, <3>2
      <4>2. f[i - 1] \in Int /\ f[i] = G[i][f[i - 1]]
        BY <2>2, <4>1 DEF RunOf
      <4>. QED BY <3>2, <4>1, <4>2 DEF G
    <3>. QED BY <3>1, <3>2
  <2>4. Rec(f)
    BY <2>2, <2>3 DEF RunOf
  <2>. QED BY <2>4
<1>5. PICK F : Rec(F) /\ Share(series, Horizon, state) = F[n]
  <2> HIDE DEF Rec
  <2>. QED BY <1>3, <1>4
<1>6. F[0] = 0 /\ \A i \in 1 .. n : F[i] = F[i - 1] + Adds(i)
  <2> HIDE DEF Adds, n
  <2>1. \A i \in 0 .. n : F[i] = IF i = 0 THEN 0 ELSE F[i - 1] + Adds(i)
    BY <1>5
  <2>2. 0 \in 0 .. n /\ \A i \in 1 .. n : i # 0 /\ i \in 0 .. n
    BY <1>1
  <2>. QED BY <2>1, <2>2
<1> HIDE DEF Rec
<1> DEFINE T == {m \in 0 .. n : IsFiniteSet(Seen(m)) /\ F[m] = Cardinality(Seen(m))}
<1>7. 0 \in T
  <2>1. ASSUME NEW x \in 0 .. Until(0) - 1 PROVE ~Begun(x)
    <3>1. ASSUME NEW i \in 1 .. n PROVE ~(series[i].t <= x)
      <4>1. 1 \in 1 .. n /\ 0 < n /\ 1 <= i
        BY <1>1
      <4>2. series[1].t <= series[i].t
        BY <4>1 DEF FiguresInv, Sorted
      <4>3. series[1].t \in Int /\ series[i].t \in Int
        BY <4>1, SeriesType
      <4>4. x < series[1].t /\ x \in Int
        <5>1. Until(0) = series[1].t
          BY <4>1
        <5>. QED BY <2>1, <4>3, <5>1
      <4>. QED BY <4>2, <4>3, <4>4
    <3>. QED BY <3>1, SeriesType DEF Begun
  <2> HIDE DEF Until
  <2>2. Seen(0) = {}
    BY <2>1
  <2> HIDE DEF Seen
  <2>3. IsFiniteSet({}) /\ Cardinality({}) = 0
    BY FS_EmptySet
  <2>4. IsFiniteSet(Seen(0)) /\ F[0] = Cardinality(Seen(0))
    BY <1>6, <2>2, <2>3
  <2>5. 0 \in 0 .. n
    BY <1>1
  <2>. QED BY <2>4, <2>5
<1>8. ASSUME NEW m \in 1 .. n, m - 1 \in T PROVE m \in T
  <2>1. m - 1 \in 0 .. n /\ m \in 0 .. n /\ m - 1 < n /\ m - 1 + 1 = m /\ m \in Int
    BY <1>1
  <2>2. Until(m - 1) = series[m].t /\ series[m].t \in 0 .. Horizon /\ series[m].t \in Int
    BY <2>1, SeriesType
  <2>3. series[m].t <= Until(m)
    <3>1. CASE m < n
      <4>1. m + 1 \in 1 .. n /\ m <= m + 1
        BY <1>1, <2>1, <3>1
      <4>2. series[m].t <= series[m + 1].t
        BY <4>1 DEF FiguresInv, Sorted
      <4>. QED BY <3>1, <4>2
    <3>2. CASE ~(m < n)
      BY <1>1, <2>2, <3>2
    <3>. QED BY <3>1, <3>2
  <2>4. Until(m) \in Int /\ Until(m) \in 0 .. Horizon
    BY <1>1, <2>1
  <2>5. ASSUME NEW x \in series[m].t .. Until(m) - 1
        PROVE  Begun(x) /\ InForce(x) = series[m].v
    <3>1. x \in Int /\ series[m].t <= x /\ x < Until(m)
      <4> HIDE DEF Until
      <4>1. PICK a, b : a = series[m].t /\ b = Until(m)
        OBVIOUS
      <4>2. a \in Int /\ b \in Int /\ x \in a .. b - 1
        BY <2>2, <2>4, <4>1
      <4>3. x \in Int /\ a <= x /\ x < b
        BY ONLY <4>2
      <4>. QED BY <4>1, <4>3
    <3>2. Holds(m, x)
      BY <3>1 DEF Holds
    <3>. QED BY <3>1, <3>2, InForceAt
  <2> DEFINE new == series[m].t .. Until(m) - 1
             old == 0 .. series[m].t - 1
  <2>6. /\ 0 .. Until(m) - 1 = old \cup new /\ old \cap new = {}
        /\ 0 .. Until(m - 1) - 1 = old
    <3> HIDE DEF Until
    <3>1. PICK a, b, c : a = series[m].t /\ b = Until(m) /\ c = Until(m - 1)
      OBVIOUS
    <3>2. a \in Int /\ b \in Int /\ 0 <= a /\ a <= b /\ c = a
      BY <2>2, <2>3, <2>4, <3>1
    <3>3. /\ 0 .. b - 1 = (0 .. a - 1) \cup (a .. b - 1)
          /\ (0 .. a - 1) \cap (a .. b - 1) = {}
          /\ 0 .. c - 1 = 0 .. a - 1
      BY ONLY <3>2
    <3>4. old = 0 .. a - 1 /\ new = a .. b - 1
      BY <3>1
    <3> HIDE DEF old, new
    <3>. QED BY <3>1, <3>3, <3>4
  <2>7. IsFiniteSet(new) /\ Cardinality(new) = Until(m) - series[m].t
    <3>1. series[m].t \in Int /\ Until(m) - 1 \in Int
      BY <2>2, <2>4
    <3>2. /\ IsFiniteSet(new)
          /\ Cardinality(new) = IF series[m].t > Until(m) - 1 THEN 0 ELSE (Until(m) - 1) - series[m].t + 1
      <4> DEFINE a == series[m].t
                 b == Until(m) - 1
      <4>1. new = a .. b /\ a \in Int /\ b \in Int
        BY <3>1
      <4> HIDE DEF a, b
      <4>2. IsFiniteSet(a .. b) /\ Cardinality(a .. b) = IF a > b THEN 0 ELSE b - a + 1
        BY ONLY <4>1, FS_Interval
      <4>3. IsFiniteSet(new) /\ Cardinality(new) = IF a > b THEN 0 ELSE b - a + 1
        <5> HIDE DEF new
        <5>. QED BY <4>1, <4>2
      <4>. QED BY <4>3 DEF a, b
    <3>3. PICK a, b, c : a = series[m].t /\ b = Until(m) /\ c = Cardinality(new)
      OBVIOUS
    <3>4. a \in Int /\ b \in Int /\ a <= b /\ c = IF a > b - 1 THEN 0 ELSE (b - 1) - a + 1
      <4> HIDE DEF Until, new
      <4>. QED BY <2>2, <2>3, <2>4, <3>2, <3>3
    <3>5. c = b - a
      BY ONLY <3>4
    <3>. QED BY <3>2, <3>3, <3>5
  <2>8. IsFiniteSet(Seen(m - 1)) /\ F[m - 1] = Cardinality(Seen(m - 1))
    BY <1>8
  <2>9. Seen(m - 1) \subseteq old
    <3> HIDE DEF Until, old
    <3>. QED BY <2>6
  <2>10. CASE series[m].v = state
    <3>1. Seen(m) = Seen(m - 1) \cup new
      <4> HIDE DEF Until, old, new
      <4>1. \A x \in new : Begun(x) /\ InForce(x) = state
        BY <2>5, <2>10 DEF new
      <4>. QED BY <2>6, <4>1
    <3>2. Seen(m - 1) \cap new = {}
      <4> HIDE DEF Seen, old, new
      <4>. QED BY <2>6, <2>9
    <3>3. Adds(m) = Until(m) - series[m].t
      BY <2>10
    <3> HIDE DEF Seen, new, Until, Adds
    <3>4. /\ IsFiniteSet(Seen(m))
          /\ Cardinality(Seen(m)) = Cardinality(Seen(m - 1)) + Cardinality(new) - Cardinality(Seen(m - 1) \cap new)
      <4>1. PICK A, B : A = Seen(m - 1) /\ B = new
        OBVIOUS
      <4>2. IsFiniteSet(A) /\ IsFiniteSet(B)
        BY <2>7, <2>8, <4>1
      <4>3. /\ IsFiniteSet(A \cup B)
            /\ Cardinality(A \cup B) = Cardinality(A) + Cardinality(B) - Cardinality(A \cap B)
        BY ONLY <4>2, FS_Union
      <4>4. Seen(m) = A \cup B
        BY <3>1, <4>1
      <4>. QED BY <4>1, <4>3, <4>4
    <3>5. Cardinality(Seen(m - 1) \cap new) = 0
      BY <3>2, FS_EmptySet
    <3>6. Cardinality(Seen(m - 1)) \in Nat
      BY <2>8, FS_CardinalityType
    <3>7. Cardinality(Seen(m)) = Cardinality(Seen(m - 1)) + (Until(m) - series[m].t)
      BY <2>2, <2>4, <2>7, <3>4, <3>5, <3>6
    <3>8. F[m] = Cardinality(Seen(m))
      BY <1>6, <2>8, <3>3, <3>7
    <3>. QED BY <2>1, <3>4, <3>8
  <2>11. CASE series[m].v # state
    <3>1. Seen(m) = Seen(m - 1)
      <4> HIDE DEF Until, old, new
      <4>1. \A x \in new : InForce(x) # state
        BY <2>5, <2>11 DEF new
      <4>. QED BY <2>6, <4>1
    <3>2. Adds(m) = 0
      BY <2>11
    <3> HIDE DEF Seen, Adds
    <3>3. Cardinality(Seen(m - 1)) \in Nat
      BY <2>8, FS_CardinalityType
    <3>4. F[m] = Cardinality(Seen(m))
      BY <1>6, <2>8, <3>1, <3>2, <3>3
    <3>. QED BY <2>1, <2>8, <3>1, <3>4
  <2>. QED BY <2>10, <2>11
<1>9. F[n] = Cardinality(Seen(n))
  <2> HIDE DEF T
  <2>1. 0 .. n \subseteq T
    BY <1>1, <1>7, <1>8, CountUp
  <2>2. n \in T
    BY <1>1, <2>1
  <2>. QED BY <2>2 DEF T
<1>10. Until(n) = Horizon
  BY <1>1
<1>. QED BY <1>5, <1>9, <1>10

-----------------------------------------------------------------------------
(* No samples at first.                                                    *)
LEMMA FiguresStart == FiguresInit => FiguresInv
<1> SUFFICES ASSUME FiguresInit PROVE FiguresInv
  OBVIOUS
<1>1. series = <<>> /\ series \in Seq(Samples) /\ Len(series) = 0
  BY EmptySeq DEF FiguresInit
<1>. QED BY <1>1 DEF FiguresInv, Sorted

(* Whatever samples come, in order.                                        *)

LEMMA FiguresStep == FiguresInv /\ [FiguresNext]_series => FiguresInv'
<1> SUFFICES ASSUME FiguresInv, [FiguresNext]_series PROVE FiguresInv'
  OBVIOUS
<1>1. CASE UNCHANGED series
  BY <1>1 DEF FiguresInv, Sorted
<1>2. ASSUME NEW t \in 0 .. Horizon, NEW v \in Values \cup {Null}, Sampled(t, v)
      PROVE  FiguresInv'
  <2> DEFINE n == Len(series)
             e == [t |-> t, v |-> v]
  <2>1. series' = Append(series, e) /\ (series # <<>> => series[n].t <= t)
    BY <1>2 DEF Sampled, Last
  <2>2. e \in Samples /\ series \in Seq(Samples) /\ n \in Nat
    BY SeriesType DEF Samples, FiguresInv
  <2> HIDE DEF e
  <2>3. /\ series' \in Seq(Samples) /\ Len(series') = n + 1 /\ series'[n + 1] = e
        /\ \A i \in 1 .. n : series'[i] = series[i]
    BY <2>1, <2>2, AppendProperties
  <2>4. ASSUME NEW i \in 1 .. n + 1, NEW j \in 1 .. n + 1, i <= j
        PROVE  series'[i].t <= series'[j].t
    <3>1. CASE j \in 1 .. n
      <4>1. i \in 1 .. n
        BY <2>2, <2>4, <3>1
      <4>. QED BY <2>3, <2>4, <3>1, <4>1 DEF FiguresInv, Sorted
    <3>2. CASE j = n + 1 /\ i \in 1 .. n
      <4>1. n \in 1 .. n /\ i <= n
        BY <2>2, <3>2
      <4>2. series[i].t <= series[n].t
        BY <3>2, <4>1 DEF FiguresInv, Sorted
      <4>3. series # <<>>
        BY <4>1
      <4>4. series[i].t \in Int /\ series[n].t \in Int
        BY <3>2, <4>1, SeriesType
      <4>. QED BY <2>1, <2>3, <3>2, <4>2, <4>3, <4>4 DEF e
    <3>3. CASE j = n + 1 /\ i = n + 1
      BY <2>3, <3>3 DEF e
    <3>. QED BY <2>2, <3>1, <3>2, <3>3
  <2>. QED BY <2>3, <2>4 DEF FiguresInv, Sorted
<1>. QED BY <1>1, <1>2 DEF FiguresNext

LEMMA FiguresDrawn ==
  ASSUME FiguresInv, FiguresAssumption
  PROVE  DrawnIsInForce
<1>1. ASSUME NEW w \in Windows, NEW now \in Clocks
      PROVE  LET segs == Timeline(series, w, now)
                 Over(x) == {i \in DOMAIN segs : segs[i].from <= x /\ x < segs[i].to}
             IN /\ \A x \in w.start .. w.end - 1 :
                     IF x < now /\ Begun(x)
                     THEN \E i \in DOMAIN segs : Over(x) = {i} /\ segs[i].state = InForce(x)
                     ELSE Over(x) # {} => Begun(x) /\ Last(series).t > now
                /\ \A i \in 1 .. Len(segs) - 1 :
                     segs[i].to = segs[i + 1].from => segs[i].state # segs[i + 1].state
  <2>1. PICK segs : segs = Timeline(series, w, now)
    OBVIOUS
  <2>2. w.start \in Int /\ w.end \in Int /\ now \in Int
    <3>1. w.start \in Nat /\ w.end \in Nat
      BY DEF FiguresAssumption
    <3>2. now \in Nat
      BY DEF FiguresAssumption
    <3>. QED BY <3>1, <3>2
  <2>3. ASSUME NEW x \in w.start .. w.end - 1
        PROVE  LET over == {i \in DOMAIN segs : segs[i].from <= x /\ x < segs[i].to}
               IN  IF x < now /\ Begun(x)
                   THEN \E i \in DOMAIN segs : over = {i} /\ segs[i].state = InForce(x)
                   ELSE over # {} => Begun(x) /\ Last(series).t > now
    <3>1. PICK over : over = OverAt(segs, x)
      OBVIOUS
    <3>2. IF x < now /\ Begun(x)
          THEN \E i \in DOMAIN segs : over = {i} /\ segs[i].state = InForce(x)
          ELSE over # {} => Begun(x) /\ Last(series).t > now
      BY <2>1, <2>2, <3>1, TimelineRight
    <3>. QED BY <3>1, <3>2 DEF OverAt
  <2>4. \A i \in 1 .. Len(segs) - 1 :
          segs[i].to = segs[i + 1].from => segs[i].state # segs[i + 1].state
    BY <2>1, <2>2, TimelineShows DEF FiguresInv, Proper
  <2>. QED BY <2>1, <2>3, <2>4
<1>2. ASSUME NEW w \in Windows, NEW i \in 0 .. Spark - 1
      PROVE  Resample(series, w)[i] = InForce(Instant(w, i) \div (Spark - 1))
  <2>1. w.start \in Int /\ w.end \in Int /\ w.start <= w.end
    BY DEF FiguresAssumption
  <2>. QED BY <2>1, SparklineRight
<1>3. ASSUME NEW state \in Values \cup {Null}
      PROVE  Share(series, Horizon, state) =
               Cardinality({x \in 0 .. Horizon - 1 : Begun(x) /\ InForce(x) = state})
  BY ShareRight
<1>. QED BY <1>1, <1>2, <1>3 DEF DrawnIsInForce, Begun

(* A timeline, a sparkline and the shares of the drawer show the state in  *)
(* force (timeline of charts.js, resample of overview.js, the totals of    *)
(* drawer.js), for any number of samples and points, any window and clock. *)
THEOREM FiguresRight == FiguresSpec => []DrawnIsInForce
<1>1. FiguresInv => DrawnIsInForce
  BY FiguresDrawn, FiguresAssumption
<1>. QED BY <1>1, FiguresStart, FiguresStep, PTL DEF FiguresSpec

-----------------------------------------------------------------------------
(* Line charts: the median of the steps.                                   *)

(* Step p[i] is the i-th smallest.                                         *)
Sorts(p, m, q) ==
  /\ p \in [1 .. m -> 1 .. m]
  /\ \A j \in 1 .. m : \E i \in 1 .. m : p[i] = j
  /\ \A i, j \in 1 .. m : i < j => q[p[i]] <= q[p[j]]

(* One more step finds its place.                                          *)
LEMMA SortsOneMore ==
  ASSUME NEW n \in Nat, NEW q \in [1 .. n -> Int], NEW m \in 1 .. n,
         NEW p, Sorts(p, m - 1, q)
  PROVE  \E r : Sorts(r, m, q)
<1> DEFINE S == {c \in 1 .. m : c = m \/ q[m] < q[p[c]]}
<1>1. m \in S /\ S \in SUBSET Nat /\ m \in Int
  OBVIOUS
<1>2. PICK c \in S : \A y \in S : c <= y
  <2> HIDE DEF S
  <2>1. S # {}
    BY <1>1
  <2>. QED BY ONLY <1>1, <2>1, LeastPosition
<1>3. /\ c \in 1 .. m /\ c \in Int
      /\ c # m => q[m] < q[p[c]]
      /\ \A i \in 1 .. m - 1 : i < c => q[p[i]] <= q[m]
  <2>1. ASSUME NEW i \in 1 .. m - 1, i < c PROVE q[p[i]] <= q[m]
    <3>1. i \in 1 .. m /\ i # m /\ i \notin S
      BY <1>1, <1>2, <2>1
    <3>2. p[i] \in 1 .. n /\ m \in 1 .. n
      BY DEF Sorts
    <3>3. ~(q[m] < q[p[i]])
      BY <3>1
    <3>. QED BY <3>2, <3>3
  <2>. QED BY <1>1, <1>2, <2>1
<1> HIDE DEF S
<1> DEFINE r == [i \in 1 .. m |-> IF i < c THEN p[i] ELSE IF i = c THEN m ELSE p[i - 1]]
<1>4. ASSUME NEW i \in 1 .. m
      PROVE  /\ i < c => i \in 1 .. m - 1 /\ r[i] = p[i]
             /\ i = c => r[i] = m
             /\ i > c => i - 1 \in 1 .. m - 1 /\ r[i] = p[i - 1]
  BY <1>1, <1>3
<1> HIDE DEF r
<1>5. ASSUME NEW i \in 1 .. m - 1
      PROVE  p[i] \in 1 .. m - 1 /\ p[i] \in 1 .. m /\ q[p[i]] \in Int
  <2>1. p[i] \in 1 .. m - 1
    BY DEF Sorts
  <2>2. p[i] \in 1 .. m /\ p[i] \in 1 .. n
    BY <2>1
  <2>. QED BY <2>1, <2>2
<1>6. r \in [1 .. m -> 1 .. m]
  <2>1. ASSUME NEW i \in 1 .. m PROVE r[i] \in 1 .. m
    <3>1. i < c \/ i = c \/ i > c
      BY <1>3
    <3>2. m \in 1 .. m
      OBVIOUS
    <3>3. CASE i < c
      BY <1>4, <1>5, <3>3
    <3>4. CASE i = c
      BY <1>4, <3>2, <3>4
    <3>5. CASE i > c
      BY <1>4, <1>5, <3>5
    <3>. QED BY <3>1, <3>3, <3>4, <3>5
  <2>2. r = [i \in 1 .. m |-> r[i]]
    BY DEF r
  <2>. QED BY <2>1, <2>2
<1>7. ASSUME NEW j \in 1 .. m PROVE \E i \in 1 .. m : r[i] = j
  <2>1. CASE j = m
    BY <1>3, <1>4, <2>1
  <2>2. CASE j # m
    <3>1. j \in 1 .. m - 1
      BY <2>2
    <3>2. PICK i \in 1 .. m - 1 : p[i] = j
      BY <3>1 DEF Sorts
    <3>3. CASE i < c
      BY <1>4, <3>2, <3>3
    <3>4. CASE ~(i < c)
      <4>1. i + 1 \in 1 .. m /\ i + 1 > c /\ (i + 1) - 1 = i
        BY <1>3, <3>4
      <4>2. r[i + 1] = p[i]
        BY <1>4, <4>1
      <4>. QED BY <3>2, <4>1, <4>2
    <3>. QED BY <3>3, <3>4
  <2>. QED BY <2>1, <2>2
<1>8. ASSUME NEW i \in 1 .. m, NEW j \in 1 .. m, i < j PROVE q[r[i]] <= q[r[j]]
  <2>0. /\ i \in Int /\ j \in Int /\ q[m] \in Int
        /\ \A a, b \in 1 .. m - 1 : a <= b => q[p[a]] <= q[p[b]]
    <3>1. ASSUME NEW a \in 1 .. m - 1, NEW b \in 1 .. m - 1, a <= b PROVE q[p[a]] <= q[p[b]]
      <4>1. CASE a = b
        BY <1>5, <4>1
      <4>2. CASE a # b
        <5>1. a < b
          BY <3>1, <4>2
        <5>. QED BY <5>1 DEF Sorts
      <4>. QED BY <4>1, <4>2
    <3>. QED BY <3>1
  <2>1. CASE j < c
    <3>1. i < c
      BY <1>3, <1>8, <2>0, <2>1
    <3>. QED BY <1>4, <1>8, <2>0, <2>1, <3>1
  <2>2. CASE j = c
    BY <1>3, <1>4, <1>8, <2>0, <2>2
  <2>3. CASE j > c /\ i < c
    <3>1. i <= j - 1
      BY <1>3, <2>0, <2>3
    <3>. QED BY <1>4, <2>0, <2>3, <3>1
  <2>4. CASE j > c /\ i = c
    <3>1. c # m /\ c <= j - 1
      BY <1>3, <2>0, <2>4
    <3>2. r[i] = m /\ r[j] = p[j - 1] /\ j - 1 \in 1 .. m - 1 /\ c \in 1 .. m - 1
      BY <1>3, <1>4, <2>4, <3>1
    <3>3. q[m] < q[p[c]] /\ q[p[c]] <= q[p[j - 1]]
      BY <1>3, <2>0, <3>1, <3>2
    <3>4. q[p[c]] \in Int /\ q[p[j - 1]] \in Int
      BY <1>5, <3>2
    <3>5. q[m] <= q[p[j - 1]]
      BY ONLY <2>0, <3>3, <3>4
    <3>. QED BY <3>2, <3>5
  <2>5. CASE j > c /\ i > c
    <3>1. i - 1 <= j - 1
      BY <1>8, <2>0
    <3>. QED BY <1>4, <2>0, <2>5, <3>1
  <2>. QED BY <1>3, <2>0, <2>1, <2>2, <2>3, <2>4, <2>5
<1>9. Sorts(r, m, q)
  BY <1>6, <1>7, <1>8 DEF Sorts
<1>. QED BY <1>9

LEMMA SortsExists ==
  ASSUME NEW n \in Nat, NEW q \in [1 .. n -> Int]
  PROVE  \E p : Sorts(p, n, q)
<1> DEFINE T == {m \in 0 .. n : \E p : Sorts(p, m, q)}
<1>1. 0 \in T
  <2>1. Sorts([i \in 1 .. 0 |-> 0], 0, q)
    BY DEF Sorts
  <2>2. 0 \in 0 .. n
    OBVIOUS
  <2>. QED BY <2>1, <2>2
<1>2. ASSUME NEW m \in 1 .. n, m - 1 \in T PROVE m \in T
  <2>1. PICK p : Sorts(p, m - 1, q)
    BY <1>2
  <2>2. \E r : Sorts(r, m, q)
    BY <2>1, SortsOneMore
  <2>. QED BY <2>2
<1>3. n \in T
  <2> HIDE DEF T
  <2>1. 0 .. n \subseteq T
    BY <1>1, <1>2, CountUp
  <2>. QED BY <2>1
<1>. QED BY <1>3

LEMMA OrderedSorts ==
  ASSUME NEW n \in Nat, NEW q \in [1 .. n -> Int]
  PROVE  \E p : /\ Sorts(p, n, q) /\ p \in Bijection(1 .. n, 1 .. n)
                /\ Ordered(q) = [i \in 1 .. n |-> q[p[i]]]
<1> DEFINE Places == {p \in Bijection(1 .. n, 1 .. n) :
                        \A i, j \in 1 .. n : i < j => q[p[i]] <= q[p[j]]}
<1>1. IsFiniteSet(1 .. n)
  BY FS_Interval
<1>2. PICK p : Sorts(p, n, q)
  BY SortsExists
<1>3. p \in Surjection(1 .. n, 1 .. n)
  BY <1>2 DEF Sorts, Surjection
<1>4. p \in Injection(1 .. n, 1 .. n)
  <2>1. PICK N : N = 1 .. n
    OBVIOUS
  <2>2. IsFiniteSet(N) /\ p \in Surjection(N, N) /\ Cardinality(N) = Cardinality(N)
    BY <1>1, <1>3, <2>1
  <2>3. p \in Injection(N, N)
    BY ONLY <2>2, FS_SurjSameCardinalityImpliesInj
  <2>. QED BY <2>1, <2>3
<1>5. p \in Places
  BY <1>2, <1>3, <1>4 DEF Sorts, Bijection
<1>6. DOMAIN q = 1 .. n
  OBVIOUS
<1>7. PICK r : r = CHOOSE p_1 \in Bijection(1 .. n, 1 .. n) :
                     \A i, j \in 1 .. n : i < j => q[p_1[i]] <= q[p_1[j]]
  OBVIOUS
<1>8. Ordered(q) = [i \in 1 .. n |-> q[r[i]]]
  BY <1>6, <1>7 DEF Ordered
<1>9. r \in Places
  BY <1>5, <1>7
<1>10. Sorts(r, n, q)
  <2>1. r \in Surjection(1 .. n, 1 .. n) /\ \A i, j \in 1 .. n : i < j => q[r[i]] <= q[r[j]]
    BY <1>9 DEF Bijection
  <2>. QED BY <2>1 DEF Sorts, Surjection
<1>11. r \in Bijection(1 .. n, 1 .. n)
  BY <1>9
<1> HIDE DEF Places
<1>. QED BY ONLY <1>8, <1>10, <1>11

(* The h-th smallest is below a bound just when h of them are.             *)
Below(q, n, g) == {j \in 1 .. n : 4 * q[j] < g}

LEMMA CountBelow ==
  ASSUME NEW n \in Nat, NEW q \in [1 .. n -> Int], NEW h \in 1 .. n, NEW g \in Int
  PROVE  4 * Ordered(q)[h] < g <=> Cardinality(Below(q, n, g)) >= h
<1>1. PICK p : /\ Sorts(p, n, q) /\ p \in Bijection(1 .. n, 1 .. n)
               /\ Ordered(q) = [i \in 1 .. n |-> q[p[i]]]
  BY OrderedSorts
<1> DEFINE B == {j \in 1 .. n : 4 * q[j] < g}
           A == {i \in 1 .. n : 4 * q[p[i]] < g}
<1>2. \A i \in 1 .. n : p[i] \in 1 .. n /\ q[p[i]] \in Int
  <2>1. ASSUME NEW i \in 1 .. n PROVE p[i] \in 1 .. n /\ q[p[i]] \in Int
    <3>1. p[i] \in 1 .. n
      BY <1>1 DEF Sorts
    <3>. QED BY <3>1
  <2>. QED BY <2>1
<1>3. IsFiniteSet(A) /\ IsFiniteSet(B) /\ Cardinality(A) \in Nat /\ Cardinality(B) = Cardinality(A)
  <2>1. IsFiniteSet(1 .. n)
    BY FS_Interval
  <2>2. A \in SUBSET (1 .. n) /\ B \in SUBSET (1 .. n)
    OBVIOUS
  <2>3. IsFiniteSet(A) /\ IsFiniteSet(B)
    <3> HIDE DEF A, B
    <3>. QED BY <2>1, <2>2, FS_Subset
  <2> DEFINE f == [i \in A |-> p[i]]
  <2>4. f \in [A -> B]
    BY <1>2
  <2>5. \A j \in B : \E i \in A : f[i] = j
    <3>1. ASSUME NEW j \in B PROVE \E i \in A : f[i] = j
      <4>1. PICK i \in 1 .. n : p[i] = j
        BY <1>1 DEF Sorts
      <4>2. i \in A
        BY <4>1
      <4>. QED BY <4>1, <4>2
    <3>. QED BY <3>1
  <2>6. \A a, b \in A : f[a] = f[b] => a = b
    <3>1. \A a, b \in 1 .. n : p[a] = p[b] => a = b
      BY <1>1 DEF Bijection, Injection, IsInjective
    <3>2. \A a \in A : a \in 1 .. n /\ f[a] = p[a]
      OBVIOUS
    <3> HIDE DEF f, A
    <3>. QED BY <3>1, <3>2
  <2>7. f \in Bijection(A, B)
    <3> HIDE DEF f, A, B
    <3>1. f \in Injection(A, B)
      BY <2>4, <2>6 DEF Injection, IsInjective
    <3>2. f \in Surjection(A, B)
      BY <2>4, <2>5 DEF Surjection
    <3>. QED BY <3>1, <3>2 DEF Bijection
  <2> HIDE DEF f, A, B
  <2>8. ExistsBijection(A, B)
    BY <2>7 DEF ExistsBijection
  <2>. QED BY <2>3, <2>8, FS_Bijection, FS_CardinalityType
<1>4. 4 * Ordered(q)[h] < g <=> h \in A
  BY <1>1
<1>5. ASSUME NEW i \in A, NEW j \in 1 .. i PROVE j \in A
  <2>1. i \in 1 .. n /\ j \in 1 .. n /\ i \in Int /\ j \in Int /\ j <= i
    OBVIOUS
  <2>2. q[p[j]] <= q[p[i]]
    <3>1. CASE j = i
      BY <1>2, <2>1, <3>1
    <3>2. CASE j # i
      <4>1. j < i
        BY <2>1, <3>2
      <4>. QED BY <1>1, <2>1, <4>1 DEF Sorts
    <3>. QED BY <3>1, <3>2
  <2>3. q[p[j]] \in Int /\ q[p[i]] \in Int /\ 4 * q[p[i]] < g
    BY <1>2, <2>1
  <2>4. 4 * q[p[j]] < g
    BY ONLY <2>2, <2>3
  <2>. QED BY <2>1, <2>4
<1>6. ASSUME h \in A PROVE Cardinality(A) >= h
  <2>1. 1 .. h \subseteq A
    <3> HIDE DEF A
    <3>. QED BY <1>5, <1>6
  <2>2. Cardinality(1 .. h) = h
    <3>1. 1 \in Int /\ h \in Int /\ h >= 1
      OBVIOUS
    <3>2. Cardinality(1 .. h) = IF 1 > h THEN 0 ELSE h - 1 + 1
      BY ONLY <3>1, FS_Interval
    <3>. QED BY <3>1, <3>2
  <2> HIDE DEF A
  <2>3. Cardinality(1 .. h) <= Cardinality(A)
    BY <1>3, <2>1, FS_Subset
  <2>. QED BY <2>2, <2>3
<1>7. ASSUME h \notin A PROVE ~(Cardinality(A) >= h)
  <2>1. A \in SUBSET (1 .. h - 1)
    <3>1. ASSUME NEW i \in A PROVE i \in 1 .. h - 1
      <4>1. i \in 1 .. n
        OBVIOUS
      <4>2. ~(h \in 1 .. i)
        <5> HIDE DEF A
        <5>. QED BY <1>5, <1>7
      <4>. QED BY <4>1, <4>2
    <3>. QED BY <3>1
  <2>2. IsFiniteSet(1 .. h - 1) /\ Cardinality(1 .. h - 1) = h - 1
    <3> DEFINE b == h - 1
    <3>1. 1 \in Int /\ b \in Int /\ b >= 0
      OBVIOUS
    <3> HIDE DEF b
    <3>2. IsFiniteSet(1 .. b) /\ Cardinality(1 .. b) = IF 1 > b THEN 0 ELSE b - 1 + 1
      BY ONLY <3>1, FS_Interval
    <3>3. IsFiniteSet(1 .. b) /\ Cardinality(1 .. b) = b
      BY <3>1, <3>2
    <3>. QED BY <3>3 DEF b
  <2> HIDE DEF A
  <2>3. Cardinality(A) <= h - 1
    <3>1. PICK I : I = 1 .. h - 1
      OBVIOUS
    <3>2. A \in SUBSET I /\ IsFiniteSet(I) /\ Cardinality(I) = h - 1
      BY <2>1, <2>2, <3>1
    <3>3. Cardinality(A) <= Cardinality(I)
      BY ONLY <3>2, FS_Subset
    <3>. QED BY <3>2, <3>3
  <2>. QED BY <1>3, <2>3
<1>8. B = Below(q, n, g)
  BY DEF Below
<1>. QED BY <1>3, <1>4, <1>6, <1>7, <1>8

(* withGaps breaks the line at step i just when more than half of the      *)
(* steps are four times shorter.                                           *)
OverLimit(q, n, i) ==
  q[i] > MinGap /\ Cardinality({j \in 1 .. n : 4 * q[j] < q[i]}) > n \div 2

LEMMA LongStep ==
  ASSUME FiguresAssumption, NEW s \in Seq(Samples), Sorted(s), Len(s) >= 3,
         NEW n, n = Len(s) - 1, NEW q, q = Steps(s), NEW i \in 1 .. n
  PROVE  /\ q[i] = s[i + 1].t - s[i].t
         /\ q[i] > Limit(s) <=> OverLimit(q, n, i)
<1>1. n \in Nat /\ n >= 2 /\ Len(s) \in Nat /\ (Len(s) - 1) \div 2 + 1 = n \div 2 + 1
  BY LenProperties
<1>2. \A j \in 1 .. Len(s) : s[j].t \in Int
  <2>1. \A j \in 1 .. Len(s) : s[j] \in Samples
    BY ElementOfSeq
  <2>2. \A e \in Samples : e.t \in Int
    BY DEF Samples
  <2>. QED BY <2>1, <2>2
<1>3. q = [j \in 1 .. n |-> s[j + 1].t - s[j].t]
  BY DEF Steps
<1>4. q \in [1 .. n -> Int]
  <2>1. ASSUME NEW j \in 1 .. n PROVE s[j + 1].t - s[j].t \in Int
    <3>1. j \in 1 .. Len(s) /\ j + 1 \in 1 .. Len(s)
      BY <1>1
    <3>. QED BY <1>2, <3>1
  <2>. QED BY <1>3, <2>1
<1> DEFINE h == n \div 2 + 1
<1>5. n \div 2 \in Nat /\ h \in 1 .. n
  <2>1. PICK d : d = n \div 2
    OBVIOUS
  <2>2. d \in Nat /\ 2 * d <= n
    BY <1>1, <2>1
  <2>3. d + 1 \in 1 .. n
    BY ONLY <1>1, <2>2
  <2>. QED BY <2>1, <2>2, <2>3
<1> DEFINE B == Below(q, n, q[i])
<1>6. 4 * Ordered(q)[h] < q[i] <=> Cardinality(B) >= h
  <2>1. q[i] \in Int
    BY <1>4
  <2> HIDE DEF h
  <2>. QED BY <1>1, <1>4, <1>5, <2>1, CountBelow
<1>7. Cardinality(B) \in Nat
  <2>1. IsFiniteSet(1 .. n) /\ B \in SUBSET (1 .. n)
    BY <1>1, FS_Interval DEF Below
  <2>2. IsFiniteSet(B)
    <3> HIDE DEF B
    <3>. QED BY <2>1, FS_Subset
  <2> HIDE DEF B
  <2>. QED BY <2>2, FS_CardinalityType
<1>8. PICK median : median = Ordered(q)[h] /\ median \in Int
  <2>1. PICK p : /\ Sorts(p, n, q) /\ p \in Bijection(1 .. n, 1 .. n)
                 /\ Ordered(q) = [j \in 1 .. n |-> q[p[j]]]
    <3> HIDE DEF h
    <3>. QED BY <1>1, <1>4, OrderedSorts
  <2>2. p[h] \in 1 .. n
    BY <1>5, <2>1 DEF Sorts
  <2> HIDE DEF h
  <2>. QED BY <1>4, <1>5, <2>1, <2>2
<1>9. Limit(s) = Greatest(MinGap, 4 * (IF median = 0 THEN UsualStep ELSE median))
  BY <1>1, <1>8 DEF Limit
<1>10. q[i] > Limit(s) <=> q[i] > MinGap /\ 4 * median < q[i]
  <2>1. PICK g : g = q[i] /\ g \in Int
    BY <1>4
  <2>2. MinGap \in Nat \ {0} /\ UsualStep \in Nat /\ 4 * UsualStep <= MinGap
    BY DEF FiguresAssumption
  <2>3. PICK l : l = Limit(s)
    OBVIOUS
  <2>4. l = Greatest(MinGap, 4 * (IF median = 0 THEN UsualStep ELSE median))
    BY <1>9, <2>3
  <2>5. g > l <=> g > MinGap /\ 4 * median < g
    BY ONLY <1>8, <2>1, <2>2, <2>4 DEF Greatest
  <2>. QED BY <2>1, <2>3, <2>5
<1>11. Cardinality(B) >= h <=> Cardinality(B) > n \div 2
  <2>1. PICK c, d : c = Cardinality(B) /\ d = n \div 2
    OBVIOUS
  <2>2. c \in Nat /\ d \in Nat
    BY <1>5, <1>7, <2>1
  <2>3. c >= d + 1 <=> c > d
    BY ONLY <2>2
  <2>. QED BY <2>1, <2>3
<1>12. q[i] = s[i + 1].t - s[i].t
  BY <1>3
<1> HIDE DEF B, h
<1>13. 4 * median < q[i] <=> Cardinality(B) > n \div 2
  BY <1>6, <1>8, <1>11
<1>14. q[i] > Limit(s) <=> q[i] > MinGap /\ Cardinality(B) > n \div 2
  BY <1>10, <1>13
<1>. QED BY <1>12, <1>14 DEF B, Below, OverLimit

-----------------------------------------------------------------------------
(* Line charts: the broken line.                                           *)

(* FlattenSeq appends one after the other.                                 *)
Flat(F, q, n, S) ==
  /\ \A i \in 1 .. n : F[i] \in Seq(S)
  /\ F[1] = q[1] /\ \A i \in 2 .. n : F[i] = F[i - 1] \o q[i]
  /\ FlattenSeq(q) = F[n]

LEMMA FlattenRun ==
  ASSUME NEW S, NEW n \in Nat \ {0}, NEW q \in Seq(Seq(S)), Len(q) = n
  PROVE  \E F : Flat(F, q, n, S)
<1> DEFINE Rec(f) == f = [i \in 1 .. n |-> IF i = 1 THEN q[i] ELSE f[i - 1] \o q[i]]
<1>1. FlattenSeq(q) = (CHOOSE f : Rec(f))[n]
  BY DEF FlattenSeq
<1>2. \A i \in 1 .. n : q[i] \in Seq(S)
  BY ElementOfSeq
<1>3. \E f : Rec(f) /\ \A i \in 1 .. n : f[i] \in Seq(S)
  <2> DEFINE X == Seq(S)
             G == [i \in 1 .. n |-> [u \in X |-> u \o q[i]]]
  <2>1. Moves(G, n, X)
    <3>1. \A i \in 1 .. n : \A u \in X : u \o q[i] \in X
      BY <1>2, ConcatProperties
    <3>. QED BY <3>1 DEF Moves
  <2>2. <<>> \in X /\ n \in Nat
    BY EmptySeq
  <2> HIDE DEF G, X
  <2>3. PICK f : RunOf(f, n, X, <<>>, G)
    BY <2>1, <2>2, RunExists
  <2> DEFINE h == [i \in 1 .. n |-> f[i]]
  <2>4. ASSUME NEW i \in 1 .. n
        PROVE  h[i] \in X /\ h[i] = IF i = 1 THEN q[i] ELSE h[i - 1] \o q[i]
    <3>1. i - 1 \in 0 .. n /\ i \in 0 .. n
      OBVIOUS
    <3>2. f[i] \in X /\ f[i - 1] \in X /\ f[i] = G[i][f[i - 1]]
      BY <2>3, <3>1 DEF RunOf
    <3>3. f[i] = f[i - 1] \o q[i]
      BY <3>2 DEF G
    <3>4. CASE i = 1
      <4>1. f[i - 1] = <<>>
        BY <2>3, <3>4 DEF RunOf
      <4>2. q[i] \in Seq(S)
        BY <1>2
      <4>3. <<>> \o q[i] = q[i]
        BY <4>2, ConcatEmptySeq
      <4>. QED BY <3>2, <3>3, <3>4, <4>1, <4>3
    <3>5. CASE i # 1
      <4>1. i - 1 \in 1 .. n
        BY <3>5
      <4>. QED BY <3>2, <3>3, <3>5, <4>1
    <3>. QED BY <3>4, <3>5
  <2>5. h = [i \in 1 .. n |-> h[i]]
    OBVIOUS
  <2> HIDE DEF h
  <2>6. Rec(h)
    BY <2>4, <2>5
  <2> HIDE DEF Rec
  <2>. QED BY <2>4, <2>6 DEF X
<1>4. Rec(CHOOSE f : Rec(f))
  <2> HIDE DEF Rec
  <2>. QED BY <1>3
<1>5. PICK F : Rec(F) /\ F = CHOOSE f : Rec(f)
  <2> HIDE DEF Rec
  <2>. QED BY <1>4
<1>6. /\ F[1] = q[1] /\ \A i \in 2 .. n : F[i] = F[i - 1] \o q[i]
  <2>1. \A i \in 1 .. n : F[i] = IF i = 1 THEN q[i] ELSE F[i - 1] \o q[i]
    BY <1>5
  <2>2. 1 \in 1 .. n /\ \A i \in 2 .. n : i \in 1 .. n /\ i # 1
    OBVIOUS
  <2>. QED BY <2>1, <2>2
<1> HIDE DEF Rec
<1> DEFINE T == {0} \cup {m \in 1 .. n : F[m] \in Seq(S)}
<1>7. 0 .. n \subseteq T
  <2>1. 0 \in T
    OBVIOUS
  <2>2. ASSUME NEW m \in 1 .. n, m - 1 \in T PROVE m \in T
    <3>1. CASE m = 1
      BY <1>2, <1>6, <3>1
    <3>2. CASE m # 1
      <4>1. m \in 2 .. n /\ m - 1 # 0
        BY <3>2
      <4>2. F[m - 1] \in Seq(S) /\ q[m] \in Seq(S)
        BY <1>2, <2>2, <4>1
      <4>3. F[m] \in Seq(S)
        BY <1>6, <4>1, <4>2, ConcatProperties
      <4>. QED BY <4>3
    <3>. QED BY <3>1, <3>2
  <2> HIDE DEF T
  <2>. QED BY <2>1, <2>2, CountUp
<1>8. \A i \in 1 .. n : F[i] \in Seq(S)
  BY <1>7
<1>9. Flat(F, q, n, S)
  BY <1>1, <1>5, <1>6, <1>8 DEF Flat
<1>. QED BY <1>9

(* How many gaps there are before sample i.                                *)
CountTo(gaps, i) == Cardinality({j \in gaps : j < i})

GapsOf(gaps, n) == gaps \subseteq 1 .. n

LEMMA CountToSteps ==
  ASSUME NEW n \in Nat, NEW gaps, GapsOf(gaps, n)
  PROVE  /\ \A i \in Int : CountTo(gaps, i) \in Nat
         /\ CountTo(gaps, 1) = 0 /\ CountTo(gaps, n + 1) = Cardinality(gaps)
         /\ \A i \in 1 .. n :
              CountTo(gaps, i + 1) = CountTo(gaps, i) + (IF i \in gaps THEN 1 ELSE 0)
         /\ \A i, j \in Int : i <= j => CountTo(gaps, i) <= CountTo(gaps, j)
<1> DEFINE B(i) == {j \in gaps : j < i}
<1>0. \A j \in gaps : j \in Int /\ 1 <= j /\ j <= n
  BY DEF GapsOf
<1>1. IsFiniteSet(gaps)
  <2>1. PICK I : I = 1 .. n
    OBVIOUS
  <2>2. gaps \in SUBSET I /\ IsFiniteSet(I)
    BY <2>1, FS_Interval DEF GapsOf
  <2>. QED BY ONLY <2>2, FS_Subset
<1>2. ASSUME NEW i PROVE IsFiniteSet(B(i)) /\ Cardinality(B(i)) \in Nat
  <2>1. B(i) \in SUBSET gaps
    OBVIOUS
  <2> HIDE DEF B
  <2>2. IsFiniteSet(B(i))
    BY <1>1, <2>1, FS_Subset
  <2>. QED BY <2>2, FS_CardinalityType
<1>3. Cardinality(B(1)) = 0
  <2>1. B(1) = {}
    BY <1>0
  <2> HIDE DEF B
  <2>. QED BY <2>1, FS_EmptySet
<1>4. B(n + 1) = gaps
  BY <1>0
<1>5. ASSUME NEW i \in 1 .. n
      PROVE  Cardinality(B(i + 1)) = Cardinality(B(i)) + (IF i \in gaps THEN 1 ELSE 0)
  <2>1. CASE i \in gaps
    <3>0. i \notin B(i)
      OBVIOUS
    <3>1. B(i + 1) = B(i) \cup {i}
      <4>1. ASSUME NEW j \in B(i + 1) PROVE j \in B(i) \/ j = i
        BY <1>0
      <4>2. ASSUME NEW j \in B(i) \cup {i} PROVE j \in B(i + 1)
        BY <1>0, <2>1
      <4> HIDE DEF B
      <4>. QED BY <4>1, <4>2
    <3> HIDE DEF B
    <3>2. Cardinality(B(i + 1)) = Cardinality(B(i)) + 1
      BY <1>2, <3>0, <3>1, FS_AddElement
    <3>. QED BY <2>1, <3>2
  <2>2. CASE i \notin gaps
    <3>1. B(i + 1) = B(i)
      BY <1>0, <2>2
    <3> HIDE DEF B
    <3>. QED BY <1>2, <2>2, <3>1
  <2>. QED BY <2>1, <2>2
<1>6. ASSUME NEW i \in Int, NEW j \in Int, i <= j
      PROVE  Cardinality(B(i)) <= Cardinality(B(j))
  <2>1. B(i) \in SUBSET B(j)
    BY <1>0, <1>6
  <2> HIDE DEF B
  <2>. QED BY <1>2, <2>1, FS_Subset
<1>. QED BY <1>2, <1>3, <1>4, <1>5, <1>6 DEF CountTo

-----------------------------------------------------------------------------
(* A line of points, and how it grows by the points of sample m.           *)
ChartPoints == [t : Int, v : Values \cup {Null}]

Break(s, i) == [t |-> s[i].t + 1, v |-> Null]

InTimes(u) == \A k \in 1 .. Len(u) - 1 : u[k].t <= u[k + 1].t

Drawn(u, s, gaps, m) ==
  /\ u \in Seq(ChartPoints) /\ Len(u) = m + CountTo(gaps, m)
  /\ \A i \in 1 .. m : u[i + CountTo(gaps, i)] = s[i]
  /\ \A i \in 1 .. m - 1 : i \in gaps => u[i + CountTo(gaps, i) + 1] = Break(s, i)
  /\ InTimes(u)

(* More of them before a later one.                                        *)
LEMMA CountGrows ==
  ASSUME NEW n \in Nat, NEW gaps, GapsOf(gaps, n), NEW i \in Int, NEW j \in Int, i <= j
  PROVE  CountTo(gaps, i) \in Nat /\ CountTo(gaps, j) \in Nat /\ CountTo(gaps, i) <= CountTo(gaps, j)
<1>1. /\ \A k \in Int : CountTo(gaps, k) \in Nat
      /\ \A k, l \in Int : k <= l => CountTo(gaps, k) <= CountTo(gaps, l)
  BY CountToSteps
<1>. QED BY <1>1

Follows(u, e) == Len(u) >= 1 /\ u[Len(u)].t <= e.t

Grown(r, u, e) ==
  /\ r \in Seq(ChartPoints) /\ Len(r) = Len(u) + 1 /\ r[Len(u) + 1] = e
  /\ \A k \in 1 .. Len(u) : r[k] = u[k]
  /\ InTimes(r)

LEMMA GrowsByOne ==
  ASSUME NEW u \in Seq(ChartPoints), InTimes(u), NEW e \in ChartPoints, Follows(u, e),
         NEW r, r = Append(u, e)
  PROVE  Grown(r, u, e)
<1>1. /\ r \in Seq(ChartPoints) /\ Len(r) = Len(u) + 1 /\ r[Len(u) + 1] = e /\ Len(u) \in Nat
      /\ \A k \in 1 .. Len(u) : r[k] = u[k]
  BY AppendProperties, LenProperties DEF Follows
<1>2. ASSUME NEW k \in 1 .. Len(r) - 1 PROVE r[k].t <= r[k + 1].t
  <2>1. k \in 1 .. Len(u)
    BY <1>1
  <2>2. CASE k = Len(u)
    BY <1>1, <2>1, <2>2 DEF Follows
  <2>3. CASE k # Len(u)
    <3>1. k \in 1 .. Len(u) - 1 /\ k + 1 \in 1 .. Len(u)
      BY <1>1, <2>1, <2>3
    <3>. QED BY <1>1, <2>1, <3>1 DEF InTimes
  <2>. QED BY <2>2, <2>3
<1>. QED BY <1>1, <1>2 DEF InTimes, Grown

(* What the places of samples and breaks before m are.                     *)
LEMMA PlacesKept ==
  ASSUME NEW n \in Nat, NEW gaps, GapsOf(gaps, n), NEW m \in 2 .. n + 1,
         NEW u, NEW s, Drawn(u, s, gaps, m - 1),
         NEW r, \A k \in 1 .. Len(u) : r[k] = u[k]
  PROVE  /\ \A i \in 1 .. m - 1 : r[i + CountTo(gaps, i)] = s[i]
         /\ \A i \in 1 .. m - 2 : i \in gaps => r[i + CountTo(gaps, i) + 1] = Break(s, i)
<1>0. Len(u) = m - 1 + CountTo(gaps, m - 1)
  BY DEF Drawn
<1>1. ASSUME NEW i \in 1 .. m - 1 PROVE r[i + CountTo(gaps, i)] = s[i]
  <2>0. i \in Int /\ m - 1 \in Int /\ i <= m - 1
    OBVIOUS
  <2>1. CountTo(gaps, i) \in Nat /\ CountTo(gaps, m - 1) \in Nat /\ CountTo(gaps, i) <= CountTo(gaps, m - 1)
    BY <2>0, CountGrows
  <2>2. i + CountTo(gaps, i) \in 1 .. Len(u)
    BY <1>0, <2>1
  <2>. QED BY <2>2 DEF Drawn
<1>2. ASSUME NEW i \in 1 .. m - 2, i \in gaps PROVE r[i + CountTo(gaps, i) + 1] = Break(s, i)
  <2>0. i \in Int /\ m - 1 \in Int /\ i <= m - 1
    OBVIOUS
  <2>1. CountTo(gaps, i) \in Nat /\ CountTo(gaps, m - 1) \in Nat /\ CountTo(gaps, i) <= CountTo(gaps, m - 1)
    BY <2>0, CountGrows
  <2>2. i + CountTo(gaps, i) + 1 \in 1 .. Len(u)
    BY <1>0, <2>1
  <2>3. i \in 1 .. m - 1 - 1
    OBVIOUS
  <2>. QED BY <1>2, <2>2, <2>3 DEF Drawn
<1>. QED BY <1>1, <1>2

(* Sample m comes after a break ...                                        *)
LEMMA DrawnAfterBreak ==
  ASSUME NEW n \in Nat, NEW gaps, GapsOf(gaps, n), NEW m \in 2 .. n + 1,
         NEW u, NEW s \in Seq(Samples), Len(s) = n + 1, Drawn(u, s, gaps, m - 1),
         m - 1 \in gaps, s[m - 1].t + 1 <= s[m].t,
         NEW r, r = Append(Append(u, Break(s, m - 1)), s[m])
  PROVE  Drawn(r, s, gaps, m)
<1> DEFINE e == Break(s, m - 1)
           a == Append(u, e)
           L == Len(u)
<1>1. m - 1 \in 1 .. n /\ m \in 1 .. n + 1 /\ m - 1 \in 1 .. n + 1 /\ m \in Int /\ m - 1 + 1 = m
  OBVIOUS
<1>2. s[m] \in Samples /\ s[m - 1] \in Samples
  BY <1>1, ElementOfSeq
<1>3. s[m] \in ChartPoints /\ e \in ChartPoints /\ e.t = s[m - 1].t + 1 /\ s[m - 1].t \in Int /\ s[m].t \in Int
  BY <1>2 DEF Samples, ChartPoints, Break
<1>4. /\ CountTo(gaps, m - 1) \in Nat /\ CountTo(gaps, m) = CountTo(gaps, m - 1) + 1
      /\ L = m - 1 + CountTo(gaps, m - 1) /\ u \in Seq(ChartPoints) /\ InTimes(u)
  BY <1>1, CountToSteps DEF Drawn
<1>5. L \in Nat /\ L >= 1 /\ u[L] = s[m - 1]
  <2>1. m - 1 \in 1 .. m - 1
    BY <1>1
  <2>. QED BY <1>1, <1>4, <2>1 DEF Drawn
<1> HIDE DEF e
<1>6. u[L].t <= e.t
  BY <1>3, <1>5
<1>7. /\ a \in Seq(ChartPoints) /\ Len(a) = L + 1 /\ a[L + 1] = e
      /\ \A k \in 1 .. L : a[k] = u[k]
      /\ InTimes(a)
  <2>1. Follows(u, e) /\ a = Append(u, e)
    BY <1>5, <1>6 DEF Follows
  <2>. QED BY <1>3, <1>4, <2>1, GrowsByOne DEF Grown
<1>8. r = Append(a, s[m])
  BY DEF e
<1> HIDE DEF a
<1>9. a[Len(a)].t <= s[m].t /\ Len(a) >= 1
  BY <1>3, <1>5, <1>7
<1>10. /\ r \in Seq(ChartPoints) /\ Len(r) = Len(a) + 1 /\ r[Len(a) + 1] = s[m]
       /\ \A k \in 1 .. Len(a) : r[k] = a[k]
       /\ InTimes(r)
  <2>1. Follows(a, s[m])
    BY <1>9 DEF Follows
  <2>. QED BY <1>3, <1>7, <1>8, <2>1, GrowsByOne DEF Grown
<1>11. /\ Len(r) = L + 2 /\ r[L + 2] = s[m] /\ r[L + 1] = e /\ \A k \in 1 .. L : r[k] = u[k]
  <2>1. L + 1 \in 1 .. Len(a) /\ \A k \in 1 .. L : k \in 1 .. Len(a)
    BY <1>5, <1>7
  <2>2. Len(a) + 1 = L + 2
    BY <1>5, <1>7
  <2>. QED BY <1>7, <1>10, <2>1, <2>2
<1>12. /\ \A i \in 1 .. m - 1 : r[i + CountTo(gaps, i)] = s[i]
       /\ \A i \in 1 .. m - 2 : i \in gaps => r[i + CountTo(gaps, i) + 1] = Break(s, i)
  <2>1. \A k \in 1 .. Len(u) : r[k] = u[k]
    BY <1>11
  <2>. QED BY ONLY <2>1, PlacesKept, n \in Nat, GapsOf(gaps, n), m \in 2 .. n + 1, Drawn(u, s, gaps, m - 1)
<1>13. m + CountTo(gaps, m) = L + 2 /\ m - 1 + CountTo(gaps, m - 1) + 1 = L + 1
  BY <1>1, <1>4
<1>14. \A i \in 1 .. m : r[i + CountTo(gaps, i)] = s[i]
  <2>1. \A i \in 1 .. m : i \in 1 .. m - 1 \/ i = m
    OBVIOUS
  <2>. QED BY <1>11, <1>12, <1>13, <2>1
<1>15. \A i \in 1 .. m - 1 : i \in gaps => r[i + CountTo(gaps, i) + 1] = Break(s, i)
  <2>1. \A i \in 1 .. m - 1 : i \in 1 .. m - 2 \/ i = m - 1
    OBVIOUS
  <2>. QED BY <1>11, <1>12, <1>13, <2>1 DEF e
<1>. QED BY <1>10, <1>11, <1>13, <1>14, <1>15 DEF Drawn

(* ... or without one.                                                     *)
LEMMA DrawnUnbroken ==
  ASSUME NEW n \in Nat, NEW gaps, GapsOf(gaps, n), NEW m \in 2 .. n + 1,
         NEW u, NEW s \in Seq(Samples), Len(s) = n + 1, Drawn(u, s, gaps, m - 1),
         m - 1 \notin gaps, s[m - 1].t <= s[m].t,
         NEW r, r = Append(u, s[m])
  PROVE  Drawn(r, s, gaps, m)
<1> DEFINE L == Len(u)
<1>1. m - 1 \in 1 .. n /\ m \in 1 .. n + 1 /\ m - 1 \in 1 .. n + 1 /\ m \in Int /\ m - 1 + 1 = m
  OBVIOUS
<1>2. s[m] \in Samples /\ s[m - 1] \in Samples
  BY <1>1, ElementOfSeq
<1>3. s[m] \in ChartPoints /\ s[m - 1].t \in Int /\ s[m].t \in Int
  BY <1>2 DEF Samples, ChartPoints
<1>4. /\ CountTo(gaps, m - 1) \in Nat /\ CountTo(gaps, m) = CountTo(gaps, m - 1)
      /\ L = m - 1 + CountTo(gaps, m - 1) /\ u \in Seq(ChartPoints) /\ InTimes(u)
  BY <1>1, CountToSteps DEF Drawn
<1>5. L \in Nat /\ L >= 1 /\ u[L] = s[m - 1]
  <2>1. m - 1 \in 1 .. m - 1
    BY <1>1
  <2>. QED BY <1>1, <1>4, <2>1 DEF Drawn
<1>6. /\ r \in Seq(ChartPoints) /\ Len(r) = L + 1 /\ r[L + 1] = s[m]
      /\ \A k \in 1 .. L : r[k] = u[k]
      /\ InTimes(r)
  <2>1. PICK e : e = s[m]
    OBVIOUS
  <2>2. /\ u \in Seq(ChartPoints) /\ InTimes(u) /\ e \in ChartPoints
        /\ Follows(u, e) /\ r = Append(u, e)
    BY <1>3, <1>4, <1>5, <2>1 DEF Follows
  <2>3. Grown(r, u, e)
    BY <2>2, GrowsByOne
  <2>. QED BY <2>1, <2>3 DEF Grown
<1>7. /\ \A i \in 1 .. m - 1 : r[i + CountTo(gaps, i)] = s[i]
      /\ \A i \in 1 .. m - 2 : i \in gaps => r[i + CountTo(gaps, i) + 1] = Break(s, i)
  <2>1. \A k \in 1 .. Len(u) : r[k] = u[k]
    BY <1>6
  <2>. QED BY ONLY <2>1, PlacesKept, n \in Nat, GapsOf(gaps, n), m \in 2 .. n + 1, Drawn(u, s, gaps, m - 1)
<1>8. m + CountTo(gaps, m) = L + 1
  BY <1>1, <1>4
<1>9. \A i \in 1 .. m : r[i + CountTo(gaps, i)] = s[i]
  <2>1. \A i \in 1 .. m : i \in 1 .. m - 1 \/ i = m
    OBVIOUS
  <2>. QED BY <1>6, <1>7, <1>8, <2>1
<1>10. \A i \in 1 .. m - 1 : i \in gaps => r[i + CountTo(gaps, i) + 1] = Break(s, i)
  <2>1. \A i \in 1 .. m - 1 : i \in 1 .. m - 2 \/ i = m - 1
    OBVIOUS
  <2>. QED BY <1>7, <2>1
<1>. QED BY <1>6, <1>8, <1>9, <1>10 DEF Drawn

(* Two appended at once.                                                   *)
LEMMA TwoAppended ==
  ASSUME NEW S, NEW u \in Seq(S), NEW a \in S, NEW b \in S
  PROVE  u \o <<a>> = Append(u, a) /\ u \o <<a, b>> = Append(Append(u, a), b)
  OBVIOUS

(* Sample 1 on its own.                                                    *)
LEMMA DrawnFirst ==
  ASSUME NEW n \in Nat, NEW gaps, GapsOf(gaps, n), NEW s \in Seq(Samples), Len(s) = n + 1
  PROVE  Drawn(<<s[1]>>, s, gaps, 1)
<1>1. CountTo(gaps, 1) = 0
  BY CountToSteps
<1>2. s[1] \in ChartPoints
  <2>1. 1 \in 1 .. Len(s)
    OBVIOUS
  <2>2. s[1] \in Samples
    BY <2>1, ElementOfSeq
  <2>. QED BY <2>2 DEF Samples, ChartPoints
<1>3. PICK u : u = <<s[1]>>
  OBVIOUS
<1>4. u \in Seq(ChartPoints) /\ Len(u) = 1 /\ u[1] = s[1]
  BY <1>2, <1>3
<1>5. InTimes(u)
  BY <1>4 DEF InTimes
<1>6. Drawn(u, s, gaps, 1)
  <2>1. \A i \in 1 .. 1 : u[i + CountTo(gaps, i)] = s[i]
    <3>1. ASSUME NEW i \in 1 .. 1 PROVE u[i + CountTo(gaps, i)] = s[i]
      <4>1. i = 1 /\ i + CountTo(gaps, i) = 1
        BY <1>1
      <4>. QED BY <1>4, <4>1
    <3>. QED BY <3>1
  <2>2. \A i \in 1 .. 1 - 1 : i \in gaps => u[i + CountTo(gaps, i) + 1] = Break(s, i)
    OBVIOUS
  <2>. QED BY <1>1, <1>4, <1>5, <2>1, <2>2 DEF Drawn
<1>. QED BY <1>3, <1>6

(* A line of at least three samples, broken where the step is longer than  *)
(* the limit.                                                              *)
Apart(s, gaps, n) ==
  \A i \in 1 .. n : /\ s[i].t <= s[i + 1].t
                    /\ i \in gaps <=> s[i + 1].t - s[i].t > Limit(s)
                    /\ i \in gaps => s[i].t + 1 <= s[i + 1].t

LEMMA DrawnAll ==
  ASSUME NEW s \in Seq(Samples), NEW n \in Nat \ {0, 1}, Len(s) = n + 1,
         NEW gaps, GapsOf(gaps, n), Apart(s, gaps, n)
  PROVE  Drawn(WithGaps(s), s, gaps, n + 1)
<1> DEFINE q == [i \in DOMAIN s |->
                   IF i > 1 /\ s[i].t - s[i - 1].t > Limit(s)
                   THEN <<[t |-> s[i - 1].t + 1, v |-> Null], s[i]>> ELSE <<s[i]>>]
<1>1. WithGaps(s) = FlattenSeq(q) /\ DOMAIN s = 1 .. n + 1
  BY DEF WithGaps
<1>2. ASSUME NEW i \in 1 .. n + 1
      PROVE  s[i] \in ChartPoints /\ s[i].t \in Int /\ Break(s, i) \in ChartPoints
  <2>1. s[i] \in Samples
    BY <1>2, ElementOfSeq
  <2>. QED BY <2>1 DEF Samples, ChartPoints, Break
<1>3. ASSUME NEW m \in 2 .. n + 1
      PROVE  /\ m - 1 \in gaps => q[m] = <<Break(s, m - 1), s[m]>>
             /\ m - 1 \notin gaps => q[m] = <<s[m]>>
  <2>1. m - 1 \in 1 .. n /\ m - 1 + 1 = m /\ m \in DOMAIN s /\ m > 1
    BY <1>1
  <2>2. PICK k : k = m - 1
    OBVIOUS
  <2>3. k \in 1 .. n /\ k + 1 = m
    BY <2>1, <2>2
  <2>4. m - 1 \in gaps <=> s[m].t - s[m - 1].t > Limit(s)
    BY <2>2, <2>3 DEF Apart
  <2>. QED BY <2>1, <2>4 DEF Break
<1>4. q[1] = <<s[1]>>
  BY <1>1
<1>5. q \in Seq(Seq(ChartPoints)) /\ Len(q) = n + 1
  <2>0. \A a, b \in ChartPoints : <<a>> \in Seq(ChartPoints) /\ <<a, b>> \in Seq(ChartPoints)
    OBVIOUS
  <2>1. ASSUME NEW i \in 1 .. n + 1 PROVE q[i] \in Seq(ChartPoints)
    <3>1. CASE i = 1
      BY <1>2, <1>4, <3>1
    <3>2. CASE i # 1
      <4>1. i \in 2 .. n + 1 /\ i - 1 \in 1 .. n + 1
        BY <3>2
      <4>2. s[i] \in ChartPoints /\ Break(s, i - 1) \in ChartPoints
        BY <1>2, <4>1
      <4>3. q[i] = <<Break(s, i - 1), s[i]>> \/ q[i] = <<s[i]>>
        BY <1>3, <4>1
      <4> HIDE DEF q
      <4>. QED BY <2>0, <4>2, <4>3
    <3>. QED BY <3>1, <3>2
  <2>2. DOMAIN q = 1 .. n + 1 /\ n + 1 \in Nat /\ q = [i \in 1 .. n + 1 |-> q[i]]
    BY <1>1
  <2> HIDE DEF q
  <2>3. q \in [1 .. n + 1 -> Seq(ChartPoints)]
    BY <2>1, <2>2
  <2>. QED BY <2>2, <2>3
<1> HIDE DEF q
<1>6. PICK F : /\ \A i \in 1 .. n + 1 : F[i] \in Seq(ChartPoints)
               /\ F[1] = q[1] /\ \A i \in 2 .. n + 1 : F[i] = F[i - 1] \o q[i]
               /\ FlattenSeq(q) = F[n + 1]
  <2>1. PICK l : l = n + 1
    OBVIOUS
  <2>2. l \in Nat \ {0} /\ Len(q) = l
    BY <1>5, <2>1
  <2>3. \E F : Flat(F, q, l, ChartPoints)
    BY ONLY <1>5, <2>2, FlattenRun
  <2>. QED BY <2>1, <2>3 DEF Flat
<1> DEFINE T == {0} \cup {m \in 1 .. n + 1 : Drawn(F[m], s, gaps, m)}
<1>7. 0 .. n + 1 \subseteq T
  <2>1. 0 \in T
    OBVIOUS
  <2>2. ASSUME NEW m \in 1 .. n + 1, m - 1 \in T PROVE m \in T
    <3>1. CASE m = 1
      <4>1. Drawn(F[1], s, gaps, 1)
        BY <1>4, <1>6, DrawnFirst
      <4>. QED BY <3>1, <4>1
    <3>2. CASE m # 1
      <4>1. m \in 2 .. n + 1 /\ m - 1 \in 1 .. n /\ m - 1 \in 1 .. n + 1 /\ m - 1 + 1 = m /\ m - 1 # 0
        BY <3>2
      <4>2. PICK u : u = F[m - 1]
        OBVIOUS
      <4>3. Drawn(u, s, gaps, m - 1) /\ u \in Seq(ChartPoints) /\ F[m] = u \o q[m]
        BY <1>6, <2>2, <4>1, <4>2
      <4>4. s[m] \in ChartPoints /\ Break(s, m - 1) \in ChartPoints
        BY <1>2, <4>1
      <4>5. s[m - 1].t <= s[m].t /\ (m - 1 \in gaps => s[m - 1].t + 1 <= s[m].t)
        BY <4>1 DEF Apart
      <4>6. CASE m - 1 \in gaps
        <5>1. F[m] = Append(Append(u, Break(s, m - 1)), s[m])
          <6>1. q[m] = <<Break(s, m - 1), s[m]>>
            BY <1>3, <4>1, <4>6
          <6>2. u \o <<Break(s, m - 1), s[m]>> = Append(Append(u, Break(s, m - 1)), s[m])
            BY <4>3, <4>4, TwoAppended
          <6>. QED BY <4>3, <6>1, <6>2
        <5>2. PICK r : r = F[m]
          OBVIOUS
        <5>3. Drawn(r, s, gaps, m)
          BY <4>1, <4>3, <4>5, <4>6, <5>1, <5>2, DrawnAfterBreak
        <5>. QED BY <5>2, <5>3
      <4>7. CASE m - 1 \notin gaps
        <5>1. F[m] = Append(u, s[m])
          <6>1. q[m] = <<s[m]>>
            BY <1>3, <4>1, <4>7
          <6>2. u \o <<s[m]>> = Append(u, s[m])
            BY <4>3, <4>4, TwoAppended
          <6>. QED BY <4>3, <6>1, <6>2
        <5>2. PICK r : r = F[m]
          OBVIOUS
        <5>3. Drawn(r, s, gaps, m)
          BY <4>1, <4>3, <4>5, <4>7, <5>1, <5>2, DrawnUnbroken
        <5>. QED BY <5>2, <5>3
      <4>. QED BY <4>6, <4>7
    <3>. QED BY <3>1, <3>2
  <2>3. n + 1 \in Nat
    OBVIOUS
  <2> HIDE DEF T
  <2>. QED BY <2>1, <2>2, <2>3, CountUp
<1>8. Drawn(F[n + 1], s, gaps, n + 1)
  BY <1>7
<1>. QED BY <1>1, <1>6, <1>8

(* A line of fewer than three samples is as it was.                        *)
LEMMA DrawnShort ==
  ASSUME NEW s \in Seq(Samples), Sorted(s), Len(s) < 3, NEW n, n = Len(s) - 1,
         NEW gaps, gaps = {}
  PROVE  /\ WithGaps(s) = s /\ Cardinality(gaps) = 0
         /\ \A i : CountTo(gaps, i) = 0
         /\ InTimes(s)
<1>1. \A i : {j \in gaps : j < i} = {}
  OBVIOUS
<1>2. Cardinality({}) = 0
  BY FS_EmptySet
<1>3. InTimes(s)
  <2>1. ASSUME NEW k \in 1 .. Len(s) - 1 PROVE s[k].t <= s[k + 1].t
    BY DEF Sorted
  <2>. QED BY <2>1 DEF InTimes
<1>. QED BY <1>1, <1>2, <1>3 DEF WithGaps, CountTo

(* The gaps of LinesHonest, and what it says of the line drawn.            *)
GapsIn(s, n) ==
  {i \in 1 .. n : /\ n > 1 /\ Steps(s)[i] > MinGap
                  /\ Cardinality({j \in 1 .. n : 4 * Steps(s)[j] < Steps(s)[i]}) > n \div 2}

Honest(drawn, s, gaps) ==
  /\ Len(drawn) = Len(s) + Cardinality(gaps)
  /\ \A i \in DOMAIN s :
       LET at == i + CountTo(gaps, i)
       IN /\ drawn[at] = s[i]
          /\ i \in gaps => drawn[at + 1] = Break(s, i)
  /\ \A i \in 1 .. Len(drawn) - 1 : drawn[i].t <= drawn[i + 1].t

LEMMA GapsApart ==
  ASSUME FiguresAssumption, NEW s \in Seq(Samples), Sorted(s), Len(s) >= 3,
         NEW n, n = Len(s) - 1, NEW gaps, gaps = GapsIn(s, n)
  PROVE  GapsOf(gaps, n) /\ Apart(s, gaps, n)
<1>1. GapsOf(gaps, n)
  BY DEF GapsOf, GapsIn
<1>2. ASSUME NEW i \in 1 .. n
      PROVE  /\ s[i].t <= s[i + 1].t
             /\ i \in gaps <=> s[i + 1].t - s[i].t > Limit(s)
             /\ i \in gaps => s[i].t + 1 <= s[i + 1].t
  <2>1. PICK q : q = Steps(s)
    OBVIOUS
  <2>2. q[i] = s[i + 1].t - s[i].t
    BY <2>1 DEF Steps
  <2>3. q[i] > Limit(s) <=> OverLimit(q, n, i)
    BY <2>1, LongStep
  <2>4. i \in gaps <=> OverLimit(q, n, i)
    <3>1. n > 1
      OBVIOUS
    <3>. QED BY <2>1, <3>1 DEF GapsIn, OverLimit
  <2>5. i \in 1 .. Len(s) /\ i + 1 \in 1 .. Len(s) /\ i <= i + 1
    OBVIOUS
  <2>6. s[i] \in Samples /\ s[i + 1] \in Samples
    BY <2>5, ElementOfSeq
  <2>7. s[i].t \in Int /\ s[i + 1].t \in Int /\ s[i].t <= s[i + 1].t
    BY <2>5, <2>6 DEF Samples, Sorted
  <2>8. MinGap \in Nat /\ MinGap >= 1
    BY DEF FiguresAssumption
  <2>9. i \in gaps <=> s[i + 1].t - s[i].t > Limit(s)
    BY <2>2, <2>3, <2>4
  <2>10. i \in gaps => s[i + 1].t - s[i].t > MinGap
    BY <2>2, <2>4 DEF OverLimit
  <2>11. i \in gaps => s[i].t + 1 <= s[i + 1].t
    BY <2>7, <2>8, <2>10
  <2>. QED BY <2>7, <2>9, <2>11
<1>. QED BY <1>1, <1>2 DEF Apart

LEMMA LinesDrawn ==
  ASSUME FiguresAssumption, FiguresInv
  PROVE  LinesHonest
<1>1. PICK s : s = series
  OBVIOUS
<1>2. PICK n : n = Len(s) - 1
  OBVIOUS
<1>3. PICK gaps : gaps = GapsIn(s, n)
  OBVIOUS
<1>4. PICK drawn : drawn = WithGaps(s)
  OBVIOUS
<1>5. s \in Seq(Samples) /\ Sorted(s) /\ Len(s) \in Nat /\ DOMAIN s = 1 .. Len(s)
  BY <1>1 DEF FiguresInv
<1>6. Honest(drawn, s, gaps)
  <2>1. CASE Len(s) < 3
    <3>1. gaps = {}
      BY <1>2, <1>3, <1>5, <2>1 DEF GapsIn
    <3>2. /\ drawn = s /\ Cardinality(gaps) = 0 /\ InTimes(s)
          /\ \A i : CountTo(gaps, i) = 0
      BY <1>2, <1>4, <1>5, <2>1, <3>1, DrawnShort
    <3>3. ASSUME NEW i \in DOMAIN s, NEW at, at = i + CountTo(gaps, i)
          PROVE  drawn[at] = s[i] /\ i \notin gaps
      <4>1. at = i
        BY <1>5, <3>2, <3>3
      <4>. QED BY <3>1, <3>2, <4>1
    <3>. QED BY <1>5, <3>2, <3>3 DEF Honest, InTimes
  <2>2. CASE Len(s) >= 3
    <3>1. n \in Nat \ {0, 1} /\ Len(s) = n + 1 /\ n \in Nat
      BY <1>2, <1>5, <2>2
    <3>2. GapsOf(gaps, n) /\ Apart(s, gaps, n)
      BY <1>2, <1>3, <1>5, <2>2, GapsApart
    <3>3. Drawn(drawn, s, gaps, n + 1)
      BY <1>4, <1>5, <3>1, <3>2, DrawnAll
    <3>4. CountTo(gaps, n + 1) = Cardinality(gaps)
      BY <3>1, <3>2, CountToSteps
    <3>5. ASSUME NEW i \in DOMAIN s, NEW at, at = i + CountTo(gaps, i)
          PROVE  /\ drawn[at] = s[i]
                 /\ i \in gaps => drawn[at + 1] = Break(s, i)
      <4>1. at = i + CountTo(gaps, i) /\ i \in 1 .. n + 1
        BY <1>5, <3>1, <3>5
      <4>2. i \in gaps => i \in 1 .. n + 1 - 1
        BY <3>1, <3>2, <4>1 DEF GapsOf
      <4>3. drawn[i + CountTo(gaps, i)] = s[i]
        BY <3>3, <4>1 DEF Drawn
      <4>4. i \in gaps => drawn[i + CountTo(gaps, i) + 1] = Break(s, i)
        <5>1. PICK m : m = n + 1
          OBVIOUS
        <5>2. Drawn(drawn, s, gaps, m)
          BY <3>3, <5>1
        <5>3. \A k \in 1 .. m - 1 : k \in gaps => drawn[k + CountTo(gaps, k) + 1] = Break(s, k)
          BY ONLY <5>2 DEF Drawn
        <5>4. i \in gaps => i \in 1 .. m - 1
          BY <3>1, <4>2, <5>1
        <5>. QED BY <5>3, <5>4
      <4>. QED BY <4>1, <4>3, <4>4
    <3>6. Len(drawn) = Len(s) + Cardinality(gaps)
      BY <3>1, <3>3, <3>4 DEF Drawn
    <3>7. \A i \in 1 .. Len(drawn) - 1 : drawn[i].t <= drawn[i + 1].t
      BY <3>3 DEF Drawn, InTimes
    <3>. QED BY <3>5, <3>6, <3>7 DEF Honest
  <2>. QED BY <1>5, <2>1, <2>2
<1>7. Honest(WithGaps(series), series, GapsIn(series, Len(series) - 1))
  BY <1>1, <1>2, <1>3, <1>4, <1>6
<1>. QED BY <1>7 DEF LinesHonest, Honest, GapsIn, CountTo, Break

(* A line is broken exactly where a step is longer than the least gap and  *)
(* than four times most of the steps, and keeps all it has, in order       *)
(* (withGaps of charts.js), for any number of samples at any times.        *)
THEOREM LinesRight == FiguresSpec => []LinesHonest
<1>1. FiguresInv => LinesHonest
  BY LinesDrawn, FiguresAssumption
<1>. QED BY <1>1, FiguresStart, FiguresStep, PTL DEF FiguresSpec

-----------------------------------------------------------------------------
(* The energy view: sums along the rows.                                   *)

(* What row i adds to a sum.                                               *)
Gain(rows, i) == IF rows[i] = Null THEN 0 ELSE rows[i]

RowsOK(rows, n) ==
  /\ n \in Nat /\ DOMAIN rows = 1 .. n /\ Len(rows) = n
  /\ \A i \in 1 .. n : rows[i] \in Nat \cup {Null} /\ Gain(rows, i) \in Nat

(* The sum of the first rows, for each number of them.                     *)
Sums(F, rows, n) ==
  /\ F \in [0 .. n -> Nat] /\ F[0] = 0
  /\ \A i \in 1 .. n : F[i] = F[i - 1] + Gain(rows, i)

LEMMA TotalSums ==
  ASSUME NEW n, NEW rows, RowsOK(rows, n)
  PROVE  \E F : Sums(F, rows, n) /\ Total(rows) = F[n]
<1> DEFINE Rec(f) == f = [i \in 0 .. n |->
                            IF i = 0 THEN 0 ELSE f[i - 1] + (IF rows[i] = Null THEN 0 ELSE rows[i])]
           G == [i \in 1 .. n |-> [q \in Nat |-> q + Gain(rows, i)]]
<1>1. Total(rows) = (CHOOSE f : Rec(f))[n]
  BY DEF Total, RowsOK
<1>2. Moves(G, n, Nat)
  <2>1. \A i \in 1 .. n : Gain(rows, i) \in Nat
    BY DEF RowsOK
  <2>. QED BY <2>1 DEF Moves
<1> HIDE DEF G
<1>3. PICK f : RunOf(f, n, Nat, 0, G)
  <2>1. PICK X : X = Nat
    OBVIOUS
  <2>2. n \in Nat /\ 0 \in X /\ Moves(G, n, X)
    BY <1>2, <2>1 DEF RowsOK
  <2>3. \E f : RunOf(f, n, X, 0, G)
    BY ONLY <2>2, RunExists
  <2>. QED BY <2>1, <2>3
<1>4. ASSUME NEW g, Rec(g) PROVE g[0] = 0 /\ \A i \in 1 .. n : g[i] = g[i - 1] + Gain(rows, i)
  <2>1. n \in Nat
    BY DEF RowsOK
  <2>2. \A i \in 0 .. n : g[i] = IF i = 0 THEN 0 ELSE g[i - 1] + Gain(rows, i)
    BY <1>4 DEF Gain
  <2>3. 0 \in 0 .. n /\ \A i \in 1 .. n : i # 0 /\ i \in 0 .. n
    BY <2>1
  <2>. QED BY <2>2, <2>3
<1>5. Rec(f)
  <2>1. n \in Nat
    BY DEF RowsOK
  <2>2. ASSUME NEW i \in 0 .. n
        PROVE  f[i] = IF i = 0 THEN 0 ELSE f[i - 1] + (IF rows[i] = Null THEN 0 ELSE rows[i])
    <3>1. CASE i = 0
      BY <1>3, <3>1 DEF RunOf
    <3>2. CASE i # 0
      <4>1. i \in 1 .. n /\ i - 1 \in 0 .. n
        BY <2>1, <3>2
      <4>2. f[i - 1] \in Nat /\ f[i] = G[i][f[i - 1]]
        BY <1>3, <4>1 DEF RunOf
      <4>3. f[i] = f[i - 1] + Gain(rows, i)
        BY <4>1, <4>2 DEF G
      <4>. QED BY <3>2, <4>3 DEF Gain
    <3>. QED BY <3>1, <3>2
  <2>. QED BY <1>3, <2>2 DEF RunOf
<1>6. PICK F : Rec(F) /\ Total(rows) = F[n]
  <2> HIDE DEF Rec
  <2>. QED BY <1>1, <1>5
<1>7. F[0] = 0 /\ \A i \in 1 .. n : F[i] = F[i - 1] + Gain(rows, i)
  <2> HIDE DEF Rec
  <2>. QED BY <1>4, <1>6
<1>8. F = [i \in 0 .. n |-> F[i]]
  BY <1>6
<1> HIDE DEF Rec
<1> DEFINE T == {i \in 0 .. n : F[i] \in Nat}
<1>9. 0 .. n \subseteq T
  <2>1. n \in Nat /\ 0 \in T
    BY <1>7 DEF RowsOK
  <2>2. ASSUME NEW i \in 1 .. n, i - 1 \in T PROVE i \in T
    <3>1. Gain(rows, i) \in Nat /\ F[i] = F[i - 1] + Gain(rows, i)
      BY <1>7 DEF RowsOK
    <3>. QED BY <2>2, <3>1
  <2> HIDE DEF T
  <2>. QED BY <2>1, <2>2, CountUp
<1>10. F \in [0 .. n -> Nat]
  BY <1>8, <1>9
<1>11. Sums(F, rows, n)
  BY <1>7, <1>10 DEF Sums
<1>. QED BY <1>6, <1>11

(* Between two rows a sum grows by no less than any of them.               *)
LEMMA SumsGrow ==
  ASSUME NEW n \in Nat, NEW F, NEW rows, RowsOK(rows, n), Sums(F, rows, n),
         NEW i \in 0 .. n, NEW j \in 0 .. n, i <= j
  PROVE  F[i] \in Nat /\ F[j] \in Nat /\ F[i] <= F[j]
<1> DEFINE T == {m \in 0 .. j - i : F[i] <= F[i + m]}
<1>1. \A k \in 0 .. n : F[k] \in Nat
  BY DEF Sums
<1>2. j - i \in Nat /\ 0 \in T
  BY <1>1
<1>3. ASSUME NEW m \in 1 .. j - i, m - 1 \in T PROVE m \in T
  <2>1. i + m \in 1 .. n /\ i + m - 1 = i + (m - 1) /\ i + (m - 1) \in 0 .. n /\ i + m \in 0 .. n
    BY <1>3
  <2>2. PICK k : k = i + m
    OBVIOUS
  <2>3. k \in 1 .. n /\ k - 1 = i + (m - 1) /\ F[k] = F[k - 1] + Gain(rows, k) /\ Gain(rows, k) \in Nat
    BY <2>1, <2>2 DEF Sums, RowsOK
  <2>4. F[i] <= F[k - 1] /\ F[k - 1] \in Nat /\ F[i] \in Nat
    BY <1>1, <1>3, <2>1, <2>3
  <2>5. F[i] <= F[k]
    BY <2>3, <2>4
  <2>. QED BY <2>2, <2>5
<1> HIDE DEF T
<1>4. 0 .. j - i \subseteq T
  BY <1>2, <1>3, CountUp
<1> USE DEF T
<1>5. j - i \in T /\ i + (j - i) = j
  BY <1>2, <1>4
<1>. QED BY <1>1, <1>5

(* What rows of differences are: row i is what g gained from place i to    *)
(* the next, and nothing when it lost.                                     *)
Gains(rows, g, n) ==
  /\ \A i \in 1 .. n + 1 : g[i] \in Nat
  /\ \A i \in 1 .. n : Gain(rows, i) = Greatest(0, g[i + 1] - g[i])

(* Between two rows a sum grows by no less than g did.                     *)
LEMMA SumsSpan ==
  ASSUME NEW n \in Nat, NEW F, NEW rows, RowsOK(rows, n), Sums(F, rows, n),
         NEW g, Gains(rows, g, n), NEW i \in 0 .. n, NEW j \in 0 .. n, i <= j
  PROVE  F[i] + Greatest(0, g[j + 1] - g[i + 1]) <= F[j]
<1> DEFINE T == {m \in 0 .. j - i : F[i] + (g[i + m + 1] - g[i + 1]) <= F[i + m]}
<1>1. /\ \A k \in 0 .. n : F[k] \in Nat
      /\ \A k \in 1 .. n + 1 : g[k] \in Nat
  BY DEF Sums, Gains
<1>2. j - i \in Nat /\ 0 \in T
  <2>1. i + 1 \in 1 .. n + 1
    OBVIOUS
  <2>2. F[i] \in Nat /\ g[i + 1] \in Nat /\ i + 0 + 1 = i + 1 /\ i + 0 = i
    BY <1>1, <2>1
  <2>3. F[i] + (g[i + 0 + 1] - g[i + 1]) <= F[i + 0]
    BY <2>2
  <2>. QED BY <2>3
<1>3. ASSUME NEW m \in 1 .. j - i, m - 1 \in T PROVE m \in T
  <2>1. i + m \in 1 .. n /\ i + (m - 1) + 1 = i + m /\ i + (m - 1) \in 0 .. n /\ i + 1 \in 1 .. n + 1
    BY <1>3
  <2>2. PICK k : k = i + m
    OBVIOUS
  <2>3. /\ k \in 1 .. n /\ k - 1 = i + (m - 1) /\ F[k] = F[k - 1] + Gain(rows, k)
        /\ Gain(rows, k) = Greatest(0, g[k + 1] - g[k])
    BY <2>1, <2>2 DEF Sums, Gains
  <2>4. /\ g[k] \in Nat /\ g[k + 1] \in Nat /\ g[i + 1] \in Nat
        /\ F[k] \in Nat /\ F[k - 1] \in Nat /\ F[i] \in Nat
    <3>1. k \in 1 .. n + 1 /\ k + 1 \in 1 .. n + 1 /\ k \in 0 .. n /\ k - 1 \in 0 .. n
      BY <2>3
    <3>. QED BY <1>1, <2>1, <3>1
  <2>5. F[i] + (g[k] - g[i + 1]) <= F[k - 1]
    BY <1>3, <2>1, <2>2, <2>3
  <2>6. g[k + 1] - g[k] <= Gain(rows, k) /\ Gain(rows, k) \in Nat
    BY <2>3, <2>4 DEF Greatest
  <2>7. F[i] + (g[k + 1] - g[i + 1]) <= F[k]
    BY <2>3, <2>4, <2>5, <2>6
  <2>. QED BY <2>2, <2>7
<1> HIDE DEF T
<1>4. 0 .. j - i \subseteq T
  BY <1>2, <1>3, CountUp
<1> USE DEF T
<1>5. F[i] + (g[j + 1] - g[i + 1]) <= F[j]
  <2>1. j - i \in T /\ i + (j - i) = j
    BY <1>2, <1>4
  <2>. QED BY <2>1
<1>6. F[i] \in Nat /\ F[j] \in Nat /\ F[i] <= F[j]
  BY SumsGrow
<1>7. j + 1 \in 1 .. n + 1 /\ i + 1 \in 1 .. n + 1
  OBVIOUS
<1>8. g[j + 1] \in Nat /\ g[i + 1] \in Nat
  BY <1>1, <1>7
<1>. QED BY <1>5, <1>6, <1>8 DEF Greatest

(* When g never falls, a sum is what g gained.                             *)
LEMMA SumsExact ==
  ASSUME NEW n \in Nat, NEW F, NEW rows, RowsOK(rows, n), Sums(F, rows, n),
         NEW g, Gains(rows, g, n), \A i \in 1 .. n : g[i] <= g[i + 1]
  PROVE  F[n] = g[n + 1] - g[1]
<1> DEFINE T == {m \in 0 .. n : F[m] = g[m + 1] - g[1]}
<1>1. \A k \in 1 .. n + 1 : g[k] \in Nat
  BY DEF Gains
<1>2. 0 \in T
  <2>1. g[1] \in Nat /\ F[0] = 0 /\ 0 + 1 = 1
    BY <1>1 DEF Sums
  <2>. QED BY <2>1
<1>3. ASSUME NEW m \in 1 .. n, m - 1 \in T PROVE m \in T
  <2>1. /\ F[m - 1] = g[m] - g[1] /\ F[m] = F[m - 1] + Gain(rows, m)
        /\ Gain(rows, m) = Greatest(0, g[m + 1] - g[m]) /\ g[m] <= g[m + 1]
    BY <1>3 DEF Sums, Gains
  <2>2. g[m] \in Nat /\ g[m + 1] \in Nat /\ g[1] \in Nat
    BY <1>1
  <2>3. Gain(rows, m) = g[m + 1] - g[m]
    BY <2>1, <2>2 DEF Greatest
  <2>4. F[m] = g[m + 1] - g[1]
    BY <2>1, <2>2, <2>3
  <2>. QED BY <2>4
<1> HIDE DEF T
<1>4. 0 .. n \subseteq T
  BY <1>2, <1>3, CountUp
<1> USE DEF T
<1>. QED BY <1>4

(* The greatest of numbers that are bounded.                               *)
LEMMA GreatestOf ==
  ASSUME NEW b \in Nat, NEW S \in SUBSET (0 .. b), S # {}
  PROVE  Max(S) \in S /\ \A y \in S : y <= Max(S)
<1> DEFINE D == {b - x : x \in S}
<1>1. D \in SUBSET Nat /\ D # {}
  <2>1. \A x \in S : x \in 0 .. b /\ b - x \in Nat
    OBVIOUS
  <2>2. \A d \in D : d \in Nat
    BY <2>1
  <2>3. PICK x \in S : TRUE
    OBVIOUS
  <2>4. b - x \in D
    OBVIOUS
  <2> HIDE DEF D
  <2>. QED BY <2>2, <2>4
<1> HIDE DEF D
<1>2. Min(D) \in D /\ \A y \in D : Min(D) <= y
  BY <1>1, LeastPosition
<1> USE DEF D
<1>3. PICK x \in S : Min(D) = b - x
  BY <1>2
<1>4. \A y \in S : b - y \in D
  OBVIOUS
<1> HIDE DEF D
<1>5. \A y \in S : x >= y
  <2>1. ASSUME NEW y \in S PROVE x >= y
    <3>1. b - x <= b - y
      BY <1>2, <1>3, <1>4
    <3>. QED BY <3>1
  <2>. QED BY <2>1
<1>6. Max(S) \in S /\ \A y \in S : Max(S) >= y
  BY <1>5 DEF Max
<1>7. \A y \in S : y <= Max(S)
  <2>1. \A y \in S : y \in Int
    OBVIOUS
  <2>. QED BY <1>6, <2>1
<1>. QED BY <1>6, <1>7

(* What a counter says at an instant, among the samples that have a value. *)
Counted == {i \in DOMAIN series : series[i].v # Null}

Rising == \A i, j \in Counted : i < j => series[i].v <= series[j].v

LEMMA ValueFound ==
  ASSUME FiguresInv, FiguresAssumption, Counted # {}, NEW x \in Int
  PROVE  \E k \in Counted :
           /\ ValueAt(series, x) = series[k].v /\ series[k].v \in Nat
           /\ \/ series[k].t <= x /\ \A i \in Counted : series[i].t <= x => i <= k
              \/ (\A i \in Counted : ~(series[i].t <= x)) /\ \A i \in Counted : k <= i
<1> DEFINE n == Len(series)
           before == {i \in Counted : series[i].t <= x}
<1>1. n \in Nat /\ Counted \subseteq 1 .. n
  BY SeriesType DEF Counted
<1>2. ASSUME NEW i \in Counted PROVE series[i].v \in Nat
  <2>1. i \in 1 .. n /\ series[i].v # Null
    BY <1>1 DEF Counted
  <2>2. series[i].v \in Values
    BY <2>1, SeriesType
  <2>. QED BY <2>2 DEF FiguresAssumption
<1>3. CASE before # {}
  <2>1. before \in SUBSET (0 .. n)
    <3>1. \A i \in before : i \in 1 .. n
      BY <1>1
    <3> HIDE DEF before, n
    <3>2. \A i \in before : i \in 0 .. n
      BY <1>1, <3>1
    <3>. QED BY <3>2
  <2> HIDE DEF before, n
  <2>2. Max(before) \in before /\ \A y \in before : y <= Max(before)
    BY <1>1, <1>3, <2>1, GreatestOf
  <2> USE DEF before
  <2>3. ValueAt(series, x) = series[Max(before)].v
    BY <1>3 DEF ValueAt, Counted
  <2>4. PICK k : k = Max(before)
    OBVIOUS
  <2>. QED BY <1>2, <2>2, <2>3, <2>4
<1>4. CASE before = {}
  <2>1. Counted \in SUBSET Nat
    BY <1>1
  <2>2. Min(Counted) \in Counted /\ \A y \in Counted : Min(Counted) <= y
    BY <2>1, LeastPosition
  <2>3. ValueAt(series, x) = series[Min(Counted)].v
    BY <1>4 DEF ValueAt, Counted
  <2>4. PICK k : k = Min(Counted)
    OBVIOUS
  <2>. QED BY <1>2, <1>4, <2>2, <2>3, <2>4
<1>. QED BY <1>3, <1>4

(* ... and it never falls when the counter never does.                     *)
LEMMA ValueRises ==
  ASSUME FiguresInv, FiguresAssumption, Counted # {}, Rising,
         NEW x \in Int, NEW y \in Int, x <= y
  PROVE  ValueAt(series, x) <= ValueAt(series, y)
<1>1. PICK k \in Counted :
        /\ ValueAt(series, x) = series[k].v /\ series[k].v \in Nat
        /\ \/ series[k].t <= x /\ \A i \in Counted : series[i].t <= x => i <= k
           \/ (\A i \in Counted : ~(series[i].t <= x)) /\ \A i \in Counted : k <= i
  BY ValueFound
<1>2. PICK l \in Counted :
        /\ ValueAt(series, y) = series[l].v /\ series[l].v \in Nat
        /\ \/ series[l].t <= y /\ \A i \in Counted : series[i].t <= y => i <= l
           \/ (\A i \in Counted : ~(series[i].t <= y)) /\ \A i \in Counted : l <= i
  BY ValueFound
<1>3. /\ \A i \in Counted : series[i].t \in Int /\ i \in Nat
      /\ \A i \in Counted : series[i].t <= x => series[i].t <= y
  <2>1. \A i \in Counted : series[i].t \in Int /\ i \in Nat
    BY SeriesType DEF Counted
  <2>. QED BY <2>1
<1>4. k <= l
  BY <1>1, <1>2, <1>3
<1>5. k = l \/ k < l
  BY <1>3, <1>4
<1>. QED BY <1>1, <1>2, <1>5 DEF Rising

(* Without any value there is none at any instant.                         *)
LEMMA ValueMissing ==
  ASSUME Counted = {}, NEW x
  PROVE  ValueAt(series, x) = Null
BY DEF ValueAt, Counted

-----------------------------------------------------------------------------
(* The energy view: axes.                                                  *)

(* Powers of ten up to the v-th, the last above v.                         *)
Powers(f, v) ==
  /\ f \in [0 .. v -> Nat] /\ f[0] = 1
  /\ \A k \in 1 .. v : f[k] = 10 * f[k - 1]

LEMMA PowersExceed ==
  ASSUME NEW v \in Nat, NEW f, Powers(f, v)
  PROVE  v < f[v]
<1> DEFINE T == {k \in 0 .. v : k < f[k]}
<1>1. 0 \in T
  BY DEF Powers
<1>2. ASSUME NEW k \in 1 .. v, k - 1 \in T PROVE k \in T
  <2>1. k - 1 < f[k - 1] /\ f[k] = 10 * f[k - 1] /\ k - 1 \in 0 .. v
    BY <1>2 DEF Powers
  <2>2. f[k - 1] \in Nat
    BY <2>1 DEF Powers
  <2>3. k < f[k]
    BY <2>1, <2>2
  <2>. QED BY <2>3
<1> HIDE DEF T
<1>3. 0 .. v \subseteq T
  BY <1>1, <1>2, CountUp
<1> USE DEF T
<1>. QED BY <1>3

(* One of them is the magnitude.                                           *)
LEMMA MagnitudeExists ==
  ASSUME NEW v \in Nat \ {0}, NEW f, Powers(f, v)
  PROVE  \E k \in 0 .. v : f[k] <= v /\ v < 10 * f[k]
<1> DEFINE A == {k \in 0 .. v : v < f[k]}
<1>1. A \in SUBSET Nat /\ A # {}
  <2>1. v < f[v]
    BY PowersExceed
  <2>. QED BY <2>1
<1> HIDE DEF A
<1>2. Min(A) \in A /\ \A y \in A : Min(A) <= y
  BY <1>1, LeastPosition
<1> USE DEF A
<1>3. PICK k : k = Min(A)
  OBVIOUS
<1>4. k \in 0 .. v /\ v < f[k] /\ k # 0
  BY <1>2, <1>3 DEF Powers
<1>5. k - 1 \in 0 .. v /\ k \in 1 .. v /\ k - 1 < k
  BY <1>4
<1>6. k - 1 \notin A
  <2>1. k \in Int /\ k - 1 \in Int /\ \A y \in A : k <= y
    BY <1>2, <1>3, <1>4
  <2> HIDE DEF A
  <2>. QED BY <2>1
<1>7. ~(v < f[k - 1]) /\ f[k - 1] \in Nat /\ f[k] = 10 * f[k - 1]
  BY <1>5, <1>6 DEF Powers
<1>8. f[k - 1] <= v /\ v < 10 * f[k - 1]
  BY <1>4, <1>7
<1>. QED BY <1>5, <1>8

(* The factor is the least of five that is large enough.                   *)
LEMMA FactorFits ==
  ASSUME NEW v \in Nat, NEW p \in Nat, p <= v, v < 10 * p,
         NEW factor, factor = CHOOSE f \in {10, 20, 25, 50, 100} :
                  /\ 10 * v <= f * p
                  /\ \A g \in {10, 20, 25, 50, 100} : 10 * v <= g * p => f <= g
  PROVE  factor * p \in Nat /\ 10 * v <= factor * p /\ factor * p <= 20 * v
<1> DEFINE Reaches(f) == /\ f \in {10, 20, 25, 50, 100} /\ 10 * v <= f * p
                         /\ \A g \in {10, 20, 25, 50, 100} : 10 * v <= g * p => f <= g
<1>1. \E f : Reaches(f)
  <2>1. CASE 10 * v <= 10 * p
    <3>1. Reaches(10)
      BY <2>1
    <3>. QED BY <3>1
  <2>2. CASE ~(10 * v <= 10 * p) /\ 10 * v <= 20 * p
    <3>1. Reaches(20)
      BY <2>2
    <3>. QED BY <3>1
  <2>3. CASE ~(10 * v <= 20 * p) /\ 10 * v <= 25 * p
    <3>1. Reaches(25)
      BY <2>3
    <3>. QED BY <3>1
  <2>4. CASE ~(10 * v <= 25 * p) /\ 10 * v <= 50 * p
    <3>1. Reaches(50)
      BY <2>4
    <3>. QED BY <3>1
  <2>5. CASE ~(10 * v <= 50 * p)
    <3>1. Reaches(100)
      BY <2>5
    <3>. QED BY <3>1
  <2> HIDE DEF Reaches
  <2>. QED BY <2>1, <2>2, <2>3, <2>4, <2>5
<1>2. Reaches(factor)
  <2>1. factor = CHOOSE f : Reaches(f)
    OBVIOUS
  <2> HIDE DEF Reaches
  <2>. QED BY <1>1, <2>1
<1>3. CASE factor = 10
  BY <1>2, <1>3
<1>4. CASE factor = 20
  BY <1>2, <1>4
<1>5. CASE factor = 25
  BY <1>2, <1>5
<1>6. CASE factor = 50
  BY <1>2, <1>6
<1>7. CASE factor = 100
  <2>1. ~(10 * v <= 50 * p)
    <3>1. ~(factor <= 50)
      BY <1>7
    <3>2. 10 * v <= 50 * p => factor <= 50
      BY <1>2
    <3>. QED BY <3>1, <3>2
  <2>2. factor * p = 100 * p
    BY <1>7
  <2>3. 100 * p <= 20 * v
    BY <2>1
  <2>4. 10 * v <= 100 * p
    BY <2>1
  <2> HIDE DEF Reaches
  <2>. QED BY <2>2, <2>3, <2>4
<1>. QED BY <1>2, <1>3, <1>4, <1>5, <1>6, <1>7

LEMMA NiceMaxFits ==
  ASSUME NEW v \in Nat \ {0}
  PROVE  NiceMax(v) \in Nat /\ 10 * v <= NiceMax(v) /\ NiceMax(v) <= 20 * v
<1> DEFINE Rec(f) == f = [k \in 0 .. v |-> IF k = 0 THEN 1 ELSE 10 * f[k - 1]]
           G == [k \in 1 .. v |-> [q \in Nat |-> 10 * q]]
<1>1. \E f : Rec(f)
  <2>1. PICK X : X = Nat
    OBVIOUS
  <2>2. v \in Nat /\ 1 \in X /\ Moves(G, v, X)
    BY <2>1 DEF Moves
  <2> HIDE DEF G
  <2>3. \E f : RunOf(f, v, X, 1, G)
    BY ONLY <2>2, RunExists
  <2>4. PICK f : RunOf(f, v, X, 1, G)
    BY <2>3
  <2>5. ASSUME NEW k \in 0 .. v PROVE f[k] = IF k = 0 THEN 1 ELSE 10 * f[k - 1]
    <3>1. CASE k = 0
      BY <2>4, <3>1 DEF RunOf
    <3>2. CASE k # 0
      <4>1. k \in 1 .. v /\ k - 1 \in 0 .. v
        BY <3>2
      <4>2. f[k - 1] \in Nat /\ f[k] = G[k][f[k - 1]]
        BY <2>1, <2>4, <4>1 DEF RunOf
      <4>. QED BY <3>2, <4>1, <4>2 DEF G
    <3>. QED BY <3>1, <3>2
  <2>6. Rec(f)
    BY <2>4, <2>5 DEF RunOf
  <2>. QED BY <2>6
<1>2. PICK power : Rec(power) /\ power = CHOOSE f : Rec(f)
  <2> HIDE DEF Rec
  <2>. QED BY <1>1
<1>3. \A k \in 0 .. v : power[k] = IF k = 0 THEN 1 ELSE 10 * power[k - 1]
  BY <1>2
<1>4. power = [k \in 0 .. v |-> power[k]]
  BY <1>2
<1>5. power[0] = 1 /\ \A k \in 1 .. v : power[k] = 10 * power[k - 1]
  <2>1. 0 \in 0 .. v /\ \A k \in 1 .. v : k # 0 /\ k \in 0 .. v
    OBVIOUS
  <2>. QED BY <1>3, <2>1
<1> DEFINE T == {k \in 0 .. v : power[k] \in Nat}
<1>6. 0 .. v \subseteq T
  <2>1. 0 \in T
    BY <1>5
  <2>2. ASSUME NEW k \in 1 .. v, k - 1 \in T PROVE k \in T
    BY <1>5, <2>2
  <2> HIDE DEF T
  <2>. QED BY <2>1, <2>2, CountUp
<1>7. Powers(power, v)
  BY <1>4, <1>5, <1>6 DEF Powers
<1>8. PICK k : k = CHOOSE l \in 0 .. v : power[l] <= v /\ v < 10 * power[l]
  OBVIOUS
<1>9. k \in 0 .. v /\ power[k] <= v /\ v < 10 * power[k]
  BY <1>7, <1>8, MagnitudeExists
<1>10. PICK p : p = power[k]
  OBVIOUS
<1>11. p \in Nat /\ p <= v /\ v < 10 * p
  BY <1>7, <1>9, <1>10 DEF Powers
<1>12. PICK factor : factor = CHOOSE f \in {10, 20, 25, 50, 100} :
                  /\ 10 * v <= f * p
                  /\ \A g \in {10, 20, 25, 50, 100} : 10 * v <= g * p => f <= g
  OBVIOUS
<1>13. factor * p \in Nat /\ 10 * v <= factor * p /\ factor * p <= 20 * v
  BY ONLY v \in Nat \ {0}, <1>11, <1>12, FactorFits
<1>14. NiceMax(v) = factor * p
  <2> HIDE DEF Rec
  <2>1. NiceMax(v) =
          LET po == CHOOSE f : Rec(f)
              magnitude == po[CHOOSE l \in 0 .. v : po[l] <= v /\ v < 10 * po[l]]
              fa == CHOOSE f \in {10, 20, 25, 50, 100} :
                  /\ 10 * v <= f * magnitude
                  /\ \A g \in {10, 20, 25, 50, 100} : 10 * v <= g * magnitude => f <= g
          IN fa * magnitude
    BY DEF NiceMax, Rec
  <2>. QED BY <1>2, <1>8, <1>10, <1>12, <2>1
<1>. QED BY <1>13, <1>14

(* No row is higher than the axis, and the highest takes half of it.       *)
LEMMA AxisFits ==
  ASSUME NEW n \in Nat, NEW rows, RowsOK(rows, n)
  PROVE  /\ \A i \in DOMAIN rows : rows[i] # Null => 0 <= rows[i] /\ 10 * rows[i] <= Axis(rows)
         /\ \A i \in DOMAIN rows : rows[i] # Null /\ rows[i] > 0 =>
              \E j \in DOMAIN rows : rows[j] # Null /\ 20 * rows[j] >= Axis(rows)
<1> DEFINE S == {1} \cup {rows[i] : i \in {j \in DOMAIN rows : rows[j] # Null}}
<1>1. PICK F : Sums(F, rows, n)
  BY TotalSums
<1>2. ASSUME NEW i \in DOMAIN rows, rows[i] # Null
      PROVE  rows[i] \in Nat /\ rows[i] <= F[n]
  <2>1. i \in 1 .. n /\ i - 1 \in 0 .. n /\ i \in 0 .. n /\ n \in 0 .. n /\ i <= n
    BY <1>2 DEF RowsOK
  <2>2. rows[i] \in Nat /\ F[i] = F[i - 1] + rows[i]
    BY <1>1, <1>2, <2>1 DEF RowsOK, Sums, Gain
  <2>3. F[i - 1] \in Nat /\ F[i] \in Nat /\ F[n] \in Nat
    BY <1>1, <2>1 DEF Sums
  <2>4. F[i] <= F[n]
    BY <1>1, <2>1, SumsGrow
  <2>. QED BY <2>2, <2>3, <2>4
<1>3. PICK b : b = F[n] + 1
  OBVIOUS
<1>4. b \in Nat /\ b >= 1 /\ F[n] <= b /\ F[n] \in Nat
  BY <1>1, <1>3 DEF Sums
<1>5. S \in SUBSET (0 .. b) /\ S # {}
  <2>1. \A x \in S : x = 1 \/ \E i \in DOMAIN rows : rows[i] # Null /\ x = rows[i]
    OBVIOUS
  <2>2. 1 \in S
    OBVIOUS
  <2> HIDE DEF S
  <2>3. ASSUME NEW x \in S PROVE x \in 0 .. b
    <3>1. CASE x = 1
      BY <1>4, <3>1
    <3>2. CASE \E i \in DOMAIN rows : rows[i] # Null /\ x = rows[i]
      BY <1>2, <1>4, <3>2
    <3>. QED BY <2>1, <3>1, <3>2
  <2>. QED BY <2>2, <2>3
<1>6. PICK m : m = Max(S)
  OBVIOUS
<1>7. m \in S /\ \A y \in S : y <= m
  <2> HIDE DEF S
  <2>. QED BY <1>4, <1>5, <1>6, GreatestOf
<1>8. m \in Nat \ {0}
  <2>1. m \in 0 .. b /\ 1 <= m
    BY <1>5, <1>7
  <2>. QED BY <1>4, <2>1
<1>9. Axis(rows) = NiceMax(m)
  BY <1>6 DEF Axis
<1>10. Axis(rows) \in Nat /\ 10 * m <= Axis(rows) /\ Axis(rows) <= 20 * m
  BY <1>8, <1>9, NiceMaxFits
<1>11. ASSUME NEW i \in DOMAIN rows, rows[i] # Null
       PROVE  0 <= rows[i] /\ 10 * rows[i] <= Axis(rows)
  <2>1. rows[i] \in Nat
    BY <1>2, <1>11
  <2>2. rows[i] \in S
    BY <1>11
  <2>3. rows[i] <= m
    BY <1>7, <2>2
  <2> HIDE DEF S
  <2>. QED BY <1>8, <1>10, <2>1, <2>3
<1>12. ASSUME NEW i \in DOMAIN rows, rows[i] # Null, rows[i] > 0
       PROVE  \E j \in DOMAIN rows : rows[j] # Null /\ 20 * rows[j] >= Axis(rows)
  <2>1. m = 1 \/ \E j \in DOMAIN rows : rows[j] # Null /\ m = rows[j]
    BY <1>7
  <2>2. rows[i] \in Nat /\ rows[i] >= 1
    BY <1>2, <1>12
  <2>3. CASE m = 1
    <3>1. 20 * rows[i] >= Axis(rows)
      BY <1>10, <2>2, <2>3
    <3>. QED BY <1>12, <3>1
  <2>4. CASE \E j \in DOMAIN rows : rows[j] # Null /\ m = rows[j]
    <3>1. PICK j \in DOMAIN rows : rows[j] # Null /\ m = rows[j]
      BY <2>4
    <3>2. 20 * m >= Axis(rows)
      BY <1>8, <1>10
    <3>. QED BY <3>1, <3>2
  <2>. QED BY <2>1, <2>3, <2>4
<1>. QED BY <1>11, <1>12

-----------------------------------------------------------------------------
(* The energy view: days and months.                                       *)

(* Periods that end by now.                                                *)
Within(n, length) == n \in Nat /\ length \in Nat \ {0} /\ length * n <= Horizon /\ Horizon \in Nat

LEMMA BoundariesRise ==
  ASSUME NEW n, NEW length, Within(n, length), NEW bs, bs = Boundaries(n, length)
  PROVE  /\ Len(bs) = n + 1 /\ \A i \in 1 .. n + 1 : bs[i] \in Int
         /\ \A i \in 1 .. n : bs[i] = (i - 1) * length
         /\ bs[n + 1] = Horizon
         /\ \A i \in 1 .. n : bs[i] <= bs[i + 1]
<1>1. n \in Nat /\ length \in Nat /\ Horizon \in Nat
  BY DEF Within
<1>2. bs = [i \in 1 .. n + 1 |-> IF i <= n THEN (i - 1) * length ELSE Horizon]
  BY DEF Boundaries
<1>3. \A i \in 1 .. n : bs[i] = (i - 1) * length /\ i \in 1 .. n + 1 /\ (i - 1) * length \in Int
  BY <1>1, <1>2
<1>4. bs[n + 1] = Horizon
  BY <1>1, <1>2
<1>5. Len(bs) = n + 1
  BY <1>1, <1>2
<1>6. \A i \in 1 .. n + 1 : bs[i] \in Int
  <2>1. \A i \in 1 .. n + 1 : i \in 1 .. n \/ i = n + 1
    BY <1>1
  <2>. QED BY <1>1, <1>3, <1>4, <2>1
<1>7. ASSUME NEW i \in 1 .. n PROVE bs[i] <= bs[i + 1]
  <2>1. CASE i = n
    <3>1. length * (n - 1) <= length * n /\ length * (n - 1) = (n - 1) * length
      BY <1>1, ScaledOrder
    <3>2. bs[n] <= Horizon
      BY <1>1, <1>3, <2>1, <3>1 DEF Within
    <3>. QED BY <1>4, <2>1, <3>2
  <2>2. CASE i # n
    <3>1. i + 1 \in 1 .. n /\ i + 1 - 1 = i /\ i \in Int /\ i - 1 \in Int
      BY <1>1, <2>2
    <3>2. bs[i] = (i - 1) * length /\ bs[i + 1] = i * length
      BY <1>3, <3>1
    <3>3. length * (i - 1) <= length * i /\ length * (i - 1) = (i - 1) * length /\ length * i = i * length
      BY <1>1, <3>1, ScaledOrder
    <3>. QED BY <3>2, <3>3
  <2>. QED BY <2>1, <2>2
<1>. QED BY <1>3, <1>4, <1>5, <1>6, <1>7

(* The rows of n periods: with values, what the counter gained ...         *)
At(bs, n) == [i \in 1 .. n + 1 |-> ValueAt(series, bs[i])]

LEMMA RowsGain ==
  ASSUME FiguresInv, FiguresAssumption, Counted # {},
         NEW n, NEW length, Within(n, length), NEW bs, bs = Boundaries(n, length),
         NEW rows, rows = Rows(series, bs), NEW g, g = At(bs, n)
  PROVE  /\ RowsOK(rows, n) /\ Gains(rows, g, n)
         /\ g[n + 1] = ValueAt(series, Horizon)
         /\ n >= 1 => g[1] = ValueAt(series, 0)
         /\ Rising => \A i \in 1 .. n : g[i] <= g[i + 1]
<1>1. n \in Nat /\ Len(bs) = n + 1 /\ \A i \in 1 .. n + 1 : bs[i] \in Int
  BY BoundariesRise DEF Within
<1>2. \A i \in 1 .. n + 1 : g[i] = ValueAt(series, bs[i])
  BY DEF At
<1>3. \A x \in Int : ValueAt(series, x) \in Nat
  BY ValueFound
<1>4. \A i \in 1 .. n + 1 : g[i] \in Nat
  BY <1>1, <1>2, <1>3
<1>5. rows = [i \in 1 .. n |-> Delta(series, bs, i)]
  <2>1. Len(bs) - 1 = n
    BY <1>1
  <2>. QED BY <2>1 DEF Rows
<1>6. ASSUME NEW i \in 1 .. n
      PROVE  /\ rows[i] = Greatest(0, g[i + 1] - g[i]) /\ rows[i] \in Nat
             /\ rows[i] # Null
  <2>1. i \in 1 .. n + 1 /\ i + 1 \in 1 .. n + 1
    BY <1>1
  <2>2. /\ g[i] = ValueAt(series, bs[i]) /\ g[i + 1] = ValueAt(series, bs[i + 1])
        /\ g[i] \in Nat /\ g[i + 1] \in Nat
    BY <1>2, <1>4, <2>1
  <2>3. g[i] # Null /\ g[i + 1] # Null
    <3>1. ASSUME NEW x \in Int PROVE ValueAt(series, x) # Null
      <4>1. PICK k \in Counted : ValueAt(series, x) = series[k].v
        BY ValueFound
      <4>. QED BY <4>1 DEF Counted
    <3>2. bs[i] \in Int /\ bs[i + 1] \in Int
      BY <1>1, <2>1
    <3>. QED BY <2>2, <3>1, <3>2
  <2>4. rows[i] = Greatest(0, g[i + 1] - g[i])
    BY <1>5, <2>2, <2>3 DEF Delta
  <2>5. rows[i] \in Nat
    BY <2>2, <2>4 DEF Greatest
  <2>6. rows[i] # Null
    BY <2>5 DEF FiguresAssumption
  <2>. QED BY <2>4, <2>5, <2>6
<1>7. RowsOK(rows, n)
  <2>1. DOMAIN rows = 1 .. n /\ Len(rows) = n
    BY <1>1, <1>5
  <2>2. \A i \in 1 .. n : Gain(rows, i) \in Nat /\ rows[i] \in Nat
    BY <1>6 DEF Gain
  <2>. QED BY <1>1, <2>1, <2>2 DEF RowsOK
<1>8. Gains(rows, g, n)
  BY <1>4, <1>6 DEF Gains, Gain
<1>9. g[n + 1] = ValueAt(series, Horizon)
  <2>1. n + 1 \in 1 .. n + 1 /\ bs[n + 1] = Horizon
    BY <1>1, BoundariesRise
  <2>. QED BY <1>2, <2>1
<1>10. ASSUME n >= 1 PROVE g[1] = ValueAt(series, 0)
  <2>1. 1 \in 1 .. n /\ 1 \in 1 .. n + 1
    BY <1>1, <1>10
  <2>2. bs[1] = (1 - 1) * length
    BY <2>1, BoundariesRise
  <2>3. (1 - 1) * length = 0
    BY DEF Within
  <2>. QED BY <1>2, <2>1, <2>2, <2>3
<1>11. ASSUME Rising, NEW i \in 1 .. n PROVE g[i] <= g[i + 1]
  <2>1. i \in 1 .. n + 1 /\ i + 1 \in 1 .. n + 1
    BY <1>1
  <2>2. bs[i] \in Int /\ bs[i + 1] \in Int
    BY <1>1, <2>1
  <2>3. bs[i] <= bs[i + 1]
    BY BoundariesRise
  <2>4. ValueAt(series, bs[i]) <= ValueAt(series, bs[i + 1])
    BY <1>11, <2>2, <2>3, ValueRises
  <2>. QED BY <1>2, <2>1, <2>4
<1>. QED BY <1>7, <1>8, <1>9, <1>10, <1>11

(* ... and without any, nothing.                                           *)
LEMMA RowsMissing ==
  ASSUME Counted = {}, NEW n, NEW length, Within(n, length), NEW bs, bs = Boundaries(n, length),
         NEW rows, rows = Rows(series, bs)
  PROVE  RowsOK(rows, n) /\ Total(rows) = 0
<1>1. n \in Nat /\ Len(bs) = n + 1 /\ Len(bs) - 1 = n
  BY BoundariesRise DEF Within
<1>2. rows = [i \in 1 .. n |-> Delta(series, bs, i)]
  BY <1>1 DEF Rows
<1>3. \A i \in 1 .. n : rows[i] = Null /\ Gain(rows, i) = 0
  BY <1>2, ValueMissing DEF Delta, Gain
<1>4. RowsOK(rows, n)
  <2>1. DOMAIN rows = 1 .. n /\ Len(rows) = n
    BY <1>1, <1>2
  <2>. QED BY <1>1, <1>3, <2>1 DEF RowsOK
<1>5. PICK F : Sums(F, rows, n) /\ Total(rows) = F[n]
  BY <1>4, TotalSums
<1> DEFINE T == {m \in 0 .. n : F[m] = 0}
<1>6. 0 .. n \subseteq T
  <2>1. 0 \in T
    BY <1>1, <1>5 DEF Sums
  <2>2. ASSUME NEW m \in 1 .. n, m - 1 \in T PROVE m \in T
    BY <1>3, <1>5, <2>2 DEF Sums
  <2> HIDE DEF T
  <2>. QED BY <1>1, <2>1, <2>2, CountUp
<1>7. F[n] = 0
  BY <1>1, <1>6
<1>. QED BY <1>4, <1>5, <1>7

(* A month ends where one of its days does.                                *)
LEMMA MonthsAreDays ==
  ASSUME NEW p \in Nat, NEW month \in Nat \ {0}, NEW day \in Nat \ {0},
         NEW n, n = p * month, NEW length, length = day * month,
         Within(p, length), Within(n, day),
         NEW k \in 1 .. p + 1
  PROVE  /\ (k - 1) * month + 1 \in 1 .. n + 1
         /\ Boundaries(p, length)[k] = Boundaries(n, day)[(k - 1) * month + 1]
<1>1. PICK bs : bs = Boundaries(p, length)
  OBVIOUS
<1>2. PICK ds : ds = Boundaries(n, day)
  OBVIOUS
<1>3. PICK m : m = (k - 1) * month + 1
  OBVIOUS
<1>4. n \in Nat /\ month \in Nat /\ day \in Nat /\ month >= 1
  BY DEF Within
<1>5. m \in Nat /\ m >= 1 /\ k - 1 \in Nat
  <2>1. k - 1 \in Nat
    OBVIOUS
  <2>2. (k - 1) * month \in Nat
    BY <1>4, <2>1
  <2>. QED BY <1>3, <2>1, <2>2
<1>6. CASE k \in 1 .. p
  <2>1. bs[k] = (k - 1) * length
    BY <1>1, <1>6, BoundariesRise
  <2>2. month * k <= month * p /\ month * k = (k - 1) * month + month /\ month * p = n
    <3>1. k \in Int /\ p \in Int /\ month \in Int /\ k <= p /\ 0 <= month
      BY <1>4, <1>6
    <3>2. month * k <= month * p
      BY ONLY <3>1, ScaledOrder
    <3>3. month * k = (k - 1) * month + month
      BY <3>1
    <3>4. month * p = n
      BY <3>1
    <3>. QED BY <3>2, <3>3, <3>4
  <2>3. m \in 1 .. n
    <3>1. (k - 1) * month \in Int
      BY <1>4, <1>5
    <3>2. PICK q : q = (k - 1) * month
      OBVIOUS
    <3>3. q \in Int /\ q + month <= n /\ m = q + 1
      BY <1>3, <2>2, <3>1, <3>2
    <3>. QED BY <1>4, <1>5, <3>3
  <2>4. ds[m] = (m - 1) * day
    BY <1>2, <2>3, BoundariesRise
  <2>5. (m - 1) * day = (k - 1) * length
    <3>1. m - 1 = (k - 1) * month
      <4>1. (k - 1) * month \in Int
        BY <1>4, <1>5
      <4>. QED BY <1>3, <4>1
    <3>2. ((k - 1) * month) * day = (k - 1) * (day * month)
      BY <1>4, <1>5
    <3>. QED BY <3>1, <3>2
  <2>6. m \in 1 .. n + 1
    BY <1>4, <2>3
  <2>. QED BY <1>1, <1>2, <1>3, <2>1, <2>4, <2>5, <2>6
<1>7. CASE k = p + 1
  <2>1. bs[k] = Horizon
    BY <1>1, <1>7, BoundariesRise
  <2>2. m = n + 1
    BY <1>3, <1>7
  <2>3. ds[n + 1] = Horizon
    BY <1>2, BoundariesRise
  <2>. QED BY <1>1, <1>2, <1>3, <1>4, <2>1, <2>2, <2>3
<1>. QED BY <1>6, <1>7

(* The sum over the first months is no more than over their days.          *)
LEMMA MonthsWithin ==
  ASSUME NEW p \in Nat, NEW month \in Nat \ {0}, NEW n, n = p * month, n \in Nat,
         NEW months, NEW M, RowsOK(months, p), Sums(M, months, p),
         NEW days, NEW D, RowsOK(days, n), Sums(D, days, n),
         NEW gm, Gains(months, gm, p), NEW gd, Gains(days, gd, n),
         \A k \in 1 .. p + 1 : gm[k] = gd[(k - 1) * month + 1]
  PROVE  M[p] <= D[n]
<1> DEFINE T == {k \in 0 .. p : M[k] <= D[k * month]}
<1>1. 0 \in T
  <2>1. M[0] = 0 /\ D[0] = 0 /\ 0 * month = 0
    BY DEF Sums
  <2>. QED BY <2>1
<1>2. ASSUME NEW k \in 1 .. p, k - 1 \in T PROVE k \in T
  <2>1. PICK i : i = (k - 1) * month
    OBVIOUS
  <2>2. PICK j : j = k * month
    OBVIOUS
  <2>3. i \in 0 .. n /\ j \in 0 .. n /\ i <= j /\ i \in Int /\ j \in Int
    <3>1. k - 1 \in Int /\ k \in Int /\ p \in Int /\ month \in Int /\ 0 <= month /\ 0 <= k - 1
          /\ k - 1 <= k /\ k <= p
      OBVIOUS
    <3>2. month * (k - 1) <= month * k
      BY ONLY <3>1, ScaledOrder
    <3>3. month * k <= month * p
      BY ONLY <3>1, ScaledOrder
    <3>4. month * (k - 1) = i /\ month * k = j /\ month * p = n
      BY <2>1, <2>2, <3>1
    <3>5. 0 <= i /\ i \in Int /\ j \in Int
      BY <2>1, <2>2, <3>1
    <3>. QED BY <3>2, <3>3, <3>4, <3>5
  <2>4. D[i] + Greatest(0, gd[j + 1] - gd[i + 1]) <= D[j]
    BY <2>3, SumsSpan
  <2>5. gm[k] = gd[i + 1] /\ gm[k + 1] = gd[j + 1]
    <3>1. k \in 1 .. p + 1 /\ k + 1 \in 1 .. p + 1 /\ k + 1 - 1 = k
      OBVIOUS
    <3>. QED BY <2>1, <2>2, <3>1
  <2>6. M[k] = M[k - 1] + Greatest(0, gm[k + 1] - gm[k])
    BY DEF Sums, Gains
  <2>7. M[k - 1] \in Nat /\ D[i] \in Nat /\ D[j] \in Nat /\ M[k - 1] <= D[i]
    <3>1. k - 1 \in 0 .. p
      OBVIOUS
    <3>. QED BY <1>2, <2>1, <2>3, <3>1 DEF Sums
  <2>8. Greatest(0, gm[k + 1] - gm[k]) \in Nat
    <3>1. k \in 1 .. p + 1 /\ k + 1 \in 1 .. p + 1
      OBVIOUS
    <3>2. gm[k] \in Nat /\ gm[k + 1] \in Nat
      BY <3>1 DEF Gains
    <3>. QED BY <3>2 DEF Greatest
  <2>9. M[k] <= D[j]
    BY <2>4, <2>5, <2>6, <2>7, <2>8
  <2>. QED BY <2>2, <2>9
<1> HIDE DEF T
<1>3. 0 .. p \subseteq T
  BY <1>1, <1>2, CountUp
<1> USE DEF T
<1>4. p \in T
  BY <1>3
<1>. QED BY <1>4

(* The periods of the energy view are whole, and there is one at least.    *)
LEMMA PeriodsWhole ==
  ASSUME FiguresAssumption, NEW length, length = Day * Month,
         NEW p, p = Horizon \div length, NEW n, n = p * Month
  PROVE  /\ p \in Nat /\ p >= 1 /\ n >= 1
         /\ Within(p, length) /\ Within(n, Day)
<1>1. Day \in Nat \ {0} /\ Month \in Nat \ {0} /\ Horizon \in Nat /\ length <= Horizon
  BY DEF FiguresAssumption
<1>2. length \in Nat \ {0}
  <2>1. Day >= 1 /\ Month >= 1 /\ Day \in Int /\ Month \in Int
    BY <1>1
  <2>2. Month * 1 <= Month * Day
    BY <2>1, ScaledOrder
  <2>3. Month * Day = length /\ Month * 1 = Month /\ length \in Int
    BY <2>1
  <2>. QED BY <2>1, <2>2, <2>3
<1>3. p \in Int /\ (length * p <= Horizon <=> p <= p) /\ (length * 1 <= Horizon <=> 1 <= p)
  <2>1. Horizon \div length \in Int
    BY <1>1, <1>2, FloorBound
  <2>2. \A t \in Int : length * t <= Horizon <=> t <= Horizon \div length
    BY <1>1, <1>2, FloorBound
  <2>. QED BY <2>1, <2>2
<1>4. p \in Nat /\ p >= 1 /\ length * p <= Horizon
  <2>1. length * 1 = length
    BY <1>2
  <2>. QED BY <1>1, <1>3, <2>1
<1>5. n >= 1 /\ n \in Nat
  <2>1. Month * 1 <= Month * p
    BY <1>1, <1>4, ScaledOrder
  <2>2. Month * 1 = Month /\ Month * p = n /\ n \in Int
    BY <1>1, <1>4
  <2>. QED BY <1>1, <2>1, <2>2
<1>6. Day * n = length * p
  BY <1>1, <1>4
<1>. QED BY <1>1, <1>2, <1>4, <1>5, <1>6 DEF Within

LEMMA EnergyRight ==
  ASSUME FiguresInv, FiguresAssumption
  PROVE  EnergyAddsUp
<1>1. PICK length : length = Day * Month
  OBVIOUS
<1>2. PICK p : p = Horizon \div length
  OBVIOUS
<1>3. PICK n : n = p * Month
  OBVIOUS
<1>4. PICK ds : ds = Boundaries(n, Day)
  OBVIOUS
<1>5. PICK ms : ms = Boundaries(p, length)
  OBVIOUS
<1>6. PICK days : days = Rows(series, ds)
  OBVIOUS
<1>7. PICK months : months = Rows(series, ms)
  OBVIOUS
<1>8. /\ p \in Nat /\ p >= 1 /\ n >= 1 /\ n \in Nat
      /\ Within(p, length) /\ Within(n, Day)
  BY <1>1, <1>2, <1>3, PeriodsWhole DEF Within
<1>9. RowsOK(days, n) /\ RowsOK(months, p)
  <2>1. CASE Counted = {}
    BY <1>4, <1>5, <1>6, <1>7, <1>8, <2>1, RowsMissing
  <2>2. CASE Counted # {}
    <3>1. PICK g : g = At(ds, n)
      OBVIOUS
    <3>2. PICK h : h = At(ms, p)
      OBVIOUS
    <3>3. RowsOK(days, n)
      BY <1>4, <1>6, <1>8, <2>2, <3>1, RowsGain
    <3>4. RowsOK(months, p)
      BY <1>5, <1>7, <1>8, <2>2, <3>2, RowsGain
    <3>. QED BY <3>3, <3>4
  <2>. QED BY <2>1, <2>2
<1>10. Total(months) <= Total(days)
  <2>1. CASE Counted = {}
    <3>1. Total(months) = 0 /\ Total(days) = 0
      BY <1>4, <1>5, <1>6, <1>7, <1>8, <2>1, RowsMissing
    <3>. QED BY <3>1
  <2>2. CASE Counted # {}
    <3>1. PICK g : g = At(ds, n)
      OBVIOUS
    <3>2. PICK h : h = At(ms, p)
      OBVIOUS
    <3>3. Gains(days, g, n)
      BY <1>4, <1>6, <1>8, <2>2, <3>1, RowsGain
    <3>4. Gains(months, h, p)
      BY <1>5, <1>7, <1>8, <2>2, <3>2, RowsGain
    <3>5. PICK D : Sums(D, days, n) /\ Total(days) = D[n]
      BY <1>9, TotalSums
    <3>6. PICK M : Sums(M, months, p) /\ Total(months) = M[p]
      BY <1>9, TotalSums
    <3>7. Month \in Nat \ {0} /\ Day \in Nat \ {0}
      BY DEF FiguresAssumption
    <3>8. \A k \in 1 .. p + 1 : h[k] = g[(k - 1) * Month + 1]
      <4>1. ASSUME NEW k \in 1 .. p + 1
            PROVE  h[k] = g[(k - 1) * Month + 1]
        <5>1. (k - 1) * Month + 1 \in 1 .. n + 1 /\ ms[k] = ds[(k - 1) * Month + 1]
          BY <1>1, <1>3, <1>4, <1>5, <1>8, <3>7, MonthsAreDays
        <5>. QED BY <3>1, <3>2, <5>1 DEF At
      <4>. QED BY <4>1
    <3>9. M[p] <= D[n]
      BY <1>3, <1>8, <1>9, <3>3, <3>4, <3>5, <3>6, <3>7, <3>8, MonthsWithin
    <3>. QED BY <3>5, <3>6, <3>9
  <2>. QED BY <2>1, <2>2
<1>11. ASSUME Counted # {}, Rising
       PROVE  \A rows \in {days, months} :
                Total(rows) = ValueAt(series, Horizon) - ValueAt(series, 0)
  <2>1. ASSUME NEW q, NEW l, Within(q, l), q >= 1, NEW bs, bs = Boundaries(q, l),
               NEW rows, rows = Rows(series, bs)
        PROVE  Total(rows) = ValueAt(series, Horizon) - ValueAt(series, 0)
    <3>1. PICK g : g = At(bs, q)
      OBVIOUS
    <3>2. /\ RowsOK(rows, q) /\ Gains(rows, g, q)
          /\ g[q + 1] = ValueAt(series, Horizon) /\ g[1] = ValueAt(series, 0)
          /\ \A i \in 1 .. q : g[i] <= g[i + 1]
      BY <1>11, <2>1, <3>1, RowsGain
    <3>3. PICK F : Sums(F, rows, q) /\ Total(rows) = F[q]
      BY <3>2, TotalSums
    <3>4. F[q] = g[q + 1] - g[1]
      <4>1. q \in Nat
        BY <2>1 DEF Within
      <4>. QED BY <3>2, <3>3, <4>1, SumsExact
    <3>. QED BY <3>2, <3>3, <3>4
  <2>2. Total(days) = ValueAt(series, Horizon) - ValueAt(series, 0)
    BY <1>4, <1>6, <1>8, <2>1
  <2>3. Total(months) = ValueAt(series, Horizon) - ValueAt(series, 0)
    BY <1>5, <1>7, <1>8, <2>1
  <2>. QED BY <2>2, <2>3
<1>12. ASSUME NEW rows \in {days, months}
       PROVE  /\ \A i \in DOMAIN rows : rows[i] # Null => 0 <= rows[i] /\ 10 * rows[i] <= Axis(rows)
              /\ \A i \in DOMAIN rows : rows[i] # Null /\ rows[i] > 0 =>
                   \E j \in DOMAIN rows : rows[j] # Null /\ 20 * rows[j] >= Axis(rows)
  <2>1. CASE rows = days
    BY <1>8, <1>9, <2>1, AxisFits
  <2>2. CASE rows = months
    BY <1>8, <1>9, <2>2, AxisFits
  <2>. QED BY <2>1, <2>2
<1>13. /\ days = Rows(series, Boundaries((Horizon \div (Day * Month)) * Month, Day))
       /\ months = Rows(series, Boundaries(Horizon \div (Day * Month), Day * Month))
  BY <1>1, <1>2, <1>3, <1>4, <1>5, <1>6, <1>7
<1>14. Counted # {} /\ Rising =>
         \A rows \in {days, months} :
           Total(rows) = ValueAt(series, Horizon) - ValueAt(series, 0)
  BY <1>11
<1>. QED BY ONLY <1>10, <1>12, <1>13, <1>14 DEF EnergyAddsUp, Counted, Rising

(* Days add up to no less than months and to what a rising counter gained, *)
(* and an axis is neither too low nor more than twice too high (load of    *)
(* energy.js, values_at of storage.py, niceMax of charts.js), for any      *)
(* samples, any lengths of days and months and counters of any size.       *)
THEOREM EnergySums == FiguresSpec => []EnergyAddsUp
<1>1. FiguresInv => EnergyAddsUp
  BY EnergyRight, FiguresAssumption
<1>. QED BY <1>1, FiguresStart, FiguresStep, PTL DEF FiguresSpec

=============================================================================
