---------------------------- MODULE WebLive_proofs ----------------------------
(***************************************************************************)
(* Proofs about the dashboard's live view, for any number of entities,     *)
(* values, reports, announcements, removals and lost connections, and any  *)
(* size of the queue.                                                      *)
(***************************************************************************)
EXTENDS WebLive, SequenceTheorems, WellFoundedInduction, TLAPS

-----------------------------------------------------------------------------
(* What messages make of a view.                                           *)

(* A set of natural numbers with an element has a least one.               *)
LEMMA LeastElement ==
  ASSUME NEW T, T \subseteq Nat, T # {}
  PROVE  \E n \in T : \A m \in T : n <= m
<1>1. PICK n \in T : \A m \in T : ~(<<m, n>> \in OpToRel(<, Nat))
  BY NatLessThanWellFounded, WFMin
<1>2. ASSUME NEW m \in T PROVE n <= m
  <2>1. m \in Nat /\ n \in Nat
    OBVIOUS
  <2>2. ~(m < n)
    BY <1>1, <2>1 DEF OpToRel
  <2>. QED BY <2>1, <2>2
<1>. QED BY <1>2

(* The view after each of the first n messages.                            *)
Seen(run, view, e, msgs, n) ==
  run = [i \in 0 .. n |-> IF i = 0 THEN view ELSE Shown(run[i - 1], msgs[i], e)]

LEMMA SeenExist ==
  ASSUME NEW view, NEW e, NEW msgs
  PROVE  \A n \in Nat : \E run : Seen(run, view, e, msgs, n)
<1> DEFINE T == {n \in Nat : ~\E run : Seen(run, view, e, msgs, n)}
<1>1. SUFFICES ASSUME T # {} PROVE FALSE
  OBVIOUS
<1>2. PICK n \in T : \A m \in T : n <= m
  BY <1>1, LeastElement
<1>3. n \in Nat /\ ~\E run : Seen(run, view, e, msgs, n)
  OBVIOUS
<1>4. CASE n = 0
  <2>1. PICK run : run = [i \in 0 .. 0 |-> view]
    OBVIOUS
  <2>2. [i \in 0 .. 0 |-> IF i = 0 THEN view ELSE Shown(run[i - 1], msgs[i], e)] = [i \in 0 .. 0 |-> view]
    OBVIOUS
  <2>. QED BY <1>3, <1>4, <2>1, <2>2 DEF Seen
<1>5. CASE n # 0
  <2>1. n - 1 \in Nat /\ n - 1 \notin T
    BY <1>2, <1>3, <1>5
  <2>2. PICK r : Seen(r, view, e, msgs, n - 1)
    BY <2>1
  <2>3. PICK run : run = [i \in 0 .. n |-> IF i = n THEN Shown(r[n - 1], msgs[n], e) ELSE r[i]]
    OBVIOUS
  <2>4. \A i \in 0 .. n - 1 : r[i] = IF i = 0 THEN view ELSE Shown(r[i - 1], msgs[i], e)
    BY <2>2 DEF Seen
  <2>5. ASSUME NEW i \in 0 .. n
        PROVE  run[i] = IF i = 0 THEN view ELSE Shown(run[i - 1], msgs[i], e)
    <3>1. CASE i = n
      <4>1. run[i] = Shown(r[n - 1], msgs[n], e)
        BY <2>3, <3>1
      <4>2. run[i - 1] = r[n - 1]
        BY <1>3, <1>5, <2>3, <3>1
      <4>. QED BY <1>5, <3>1, <4>1, <4>2
    <3>2. CASE i # n
      <4>1. i \in 0 .. n - 1 /\ run[i] = r[i]
        BY <1>3, <2>3, <3>2
      <4>2. i # 0 => run[i - 1] = r[i - 1]
        BY <1>3, <2>3, <4>1
      <4>. QED BY <2>4, <4>1, <4>2
    <3>. QED BY <3>1, <3>2
  <2>6. run = [i \in 0 .. n |-> run[i]]
    BY <2>3
  <2>7. Seen(run, view, e, msgs, n)
    BY <2>5, <2>6 DEF Seen
  <2>. QED BY <1>3, <2>7
<1>. QED BY <1>4, <1>5

Run(run, view, e, msgs, n) ==
  run[0] = view /\ \A i \in 1 .. n : run[i] = Shown(run[i - 1], msgs[i], e)

(* After is the last of them.                                              *)
LEMMA AfterViews ==
  ASSUME NEW view, NEW e, NEW msgs, NEW n \in Nat, n = Len(msgs)
  PROVE  \E run : Run(run, view, e, msgs, n) /\ After(view, e, msgs) = run[n]
<1> DEFINE seen == CHOOSE run : Seen(run, view, e, msgs, n)
<1>1. After(view, e, msgs) = seen[n]
  BY DEF After, Seen
<1>2. Seen(seen, view, e, msgs, n)
  BY SeenExist
<1> HIDE DEF seen
<1>3. \A i \in 0 .. n : seen[i] = IF i = 0 THEN view ELSE Shown(seen[i - 1], msgs[i], e)
  BY <1>2 DEF Seen
<1>4. Run(seen, view, e, msgs, n)
  BY <1>3 DEF Run
<1>. QED BY <1>1, <1>4

(* Two runs that meet and see the same from there on stay together.        *)
Together(f, g, a, n) ==
  f[a] = g[0] /\ \A i \in 1 .. n : f[a + i - 1] = g[i - 1] => f[a + i] = g[i]

LEMMA RunsAgree ==
  ASSUME NEW f, NEW g, NEW a \in Nat, NEW n \in Nat, Together(f, g, a, n)
  PROVE  f[a + n] = g[n]
<1> USE DEF Together
<1> DEFINE T == {i \in 0 .. n : f[a + i] # g[i]}
<1>1. SUFFICES ASSUME T # {} PROVE FALSE
  BY n \in 0 .. n
<1>2. PICK i \in T : \A j \in T : i <= j
  <2>1. T \subseteq Nat
    OBVIOUS
  <2>. QED BY <1>1, <2>1, LeastElement
<1>3. i \in 0 .. n /\ f[a + i] # g[i]
  OBVIOUS
<1>4. i # 0
  <2>1. a + 0 = a
    OBVIOUS
  <2>. QED BY <1>3, <2>1
<1>5. i \in 1 .. n /\ i - 1 \in 0 .. n /\ i - 1 \notin T /\ a + (i - 1) = a + i - 1
  BY <1>2, <1>3, <1>4
<1>6. f[a + i - 1] = g[i - 1]
  BY <1>5
<1>. QED BY <1>3, <1>5, <1>6

LEMMA AfterNone ==
  ASSUME NEW view, NEW e
  PROVE  After(view, e, <<>>) = view
<1>1. PICK s : s = <<>>
  OBVIOUS
<1>2. PICK n \in Nat : n = Len(s) /\ n = 0
  BY <1>1
<1>3. n = Len(s)
  BY <1>2
<1>4. PICK run : Run(run, view, e, s, n) /\ After(view, e, s) = run[n]
  BY ONLY n \in Nat, <1>3, AfterViews
<1>. QED BY <1>1, <1>2, <1>4 DEF Run

LEMMA AfterOne ==
  ASSUME NEW view, NEW e, NEW m
  PROVE  After(view, e, <<m>>) = Shown(view, m, e)
<1>1. PICK s : s = <<m>>
  OBVIOUS
<1>2. PICK n \in Nat : n = Len(s) /\ n = 1 /\ s[1] = m
  BY <1>1
<1>3. n = Len(s)
  BY <1>2
<1>4. PICK run : Run(run, view, e, s, n) /\ After(view, e, s) = run[n]
  BY ONLY n \in Nat, <1>3, AfterViews
<1>5. 1 \in 1 .. 1 /\ 1 - 1 = 0
  OBVIOUS
<1>. QED BY <1>1, <1>2, <1>4, <1>5 DEF Run

(* Messages in two parts, one after the other.                             *)
LEMMA AfterBoth ==
  ASSUME NEW view, NEW e, NEW S, NEW s \in Seq(S), NEW t \in Seq(S)
  PROVE  After(view, e, s \o t) = After(After(view, e, s), e, t)
<1>1. PICK c : c = s \o t
  OBVIOUS
<1>2. PICK a \in Nat, n \in Nat : a = Len(s) /\ n = Len(t)
  BY LenProperties
<1>3. Len(c) = a + n /\ \A i \in 1 .. a + n : c[i] = IF i <= a THEN s[i] ELSE t[i - a]
  BY <1>1, <1>2, ConcatProperties
<1>4. PICK f : Run(f, view, e, c, a + n) /\ After(view, e, c) = f[a + n]
  <2>1. a + n \in Nat /\ a + n = Len(c)
    BY <1>3
  <2>. QED BY ONLY <2>1, AfterViews
<1>5. PICK g : Run(g, view, e, s, a) /\ After(view, e, s) = g[a]
  BY ONLY a \in Nat, <1>2, AfterViews
<1>6. PICK h : Run(h, After(view, e, s), e, t, n) /\ After(After(view, e, s), e, t) = h[n]
  BY ONLY n \in Nat, <1>2, AfterViews
<1>7. f[a] = g[a]
  <2>1. ASSUME NEW i \in 1 .. a, f[0 + i - 1] = g[i - 1] PROVE f[0 + i] = g[i]
    <3>1. i \in 1 .. a + n /\ i <= a /\ 0 + i = i /\ 0 + i - 1 = i - 1
      OBVIOUS
    <3>. QED BY <1>3, <1>4, <1>5, <2>1, <3>1 DEF Run
  <2>2. Together(f, g, 0, a)
    BY <1>4, <1>5, <2>1 DEF Together, Run
  <2>3. f[0 + a] = g[a]
    BY <2>2, RunsAgree
  <2>. QED BY <2>3
<1>8. f[a + n] = h[n]
  <2>1. f[a] = h[0]
    BY <1>5, <1>6, <1>7 DEF Run
  <2>2. ASSUME NEW i \in 1 .. n, f[a + i - 1] = h[i - 1] PROVE f[a + i] = h[i]
    <3>1. a + i \in 1 .. a + n /\ ~(a + i <= a) /\ a + i - a = i
      OBVIOUS
    <3>2. f[a + i] = Shown(f[a + i - 1], c[a + i], e) /\ c[a + i] = t[i]
      BY <1>3, <1>4, <3>1 DEF Run
    <3>. QED BY <1>6, <2>2, <3>2 DEF Run
  <2>3. Together(f, h, a, n)
    BY <2>1, <2>2 DEF Together
  <2>. QED BY <2>3, RunsAgree
<1>. QED BY <1>1, <1>4, <1>6, <1>8

-----------------------------------------------------------------------------
(* Types.                                                                  *)

PageViews == Pairs \cup {Absent}

StateEvents == [type : {"state"}, id : Entities, val : Values]

Events == StateEvents \cup {Entered, Status}

Snapshots == [type : {"snapshot"}, list : [Entities -> PageViews], mqtt : BOOLEAN]

Messages == StateEvents \cup Snapshots \cup [type : {"status"}, mqtt : BOOLEAN]

BuildingStates ==
  [at : {"snap"}, todo : SUBSET (Entities \X Attributes), list : [Entities -> PageViews],
   mqtt : BOOLEAN]

Connections ==
  [at : {"none", "sleep", "wait"}] \cup [at : {"send"}, msg : Messages] \cup BuildingStates

Callbacks == {Idle} \cup [at : {"value"}, id : Entities, val : Values]
                    \cup [at : {"emit"}, event : Events]

TypesOK ==
  /\ registry \in [Entities -> PageViews]
  /\ mqtt \in BOOLEAN
  /\ paho \in Callbacks
  /\ calls \in Seq(Events) /\ queue \in Seq(Events)
  /\ wire \in Seq(Messages)
  /\ ws \in Connections
  /\ page \in [ents : [Entities -> PageViews], mqtt : BOOLEAN]
  /\ missed \in BOOLEAN

(* A snapshot has attributes still to read of entities only that it lists  *)
(* and that the registry has.                                              *)
Reading ==
  ws.at = "snap" =>
    \A cell \in ws.todo : ws.list[cell[1]] # Absent /\ registry[cell[1]] # Absent

(* Between the two writes of update_state the entity is there and its      *)
(* value is the new one.                                                   *)
Halfway ==
  paho.at = "value" => registry[paho.id] # Absent /\ registry[paho.id][1] = paho.val

ShapeInv == TypesOK /\ Reading /\ Halfway

LEMMA PairType ==
  /\ \A a, b \in Values \cup {None} :
       <<a, b>> \in Pairs /\ <<a, b>> # Absent /\ <<a, b>>[1] = a /\ <<a, b>>[2] = b
  /\ \A p \in Pairs : /\ p[1] \in Values \cup {None} /\ p[2] \in Values \cup {None}
                      /\ p # Absent /\ p = <<p[1], p[2]>>
<1>1. Attributes = {1, 2}
  BY DEF Attributes
<1>2. ASSUME NEW a \in Values \cup {None}, NEW b \in Values \cup {None}
      PROVE  <<a, b>> \in Pairs /\ <<a, b>> # Absent /\ <<a, b>>[1] = a /\ <<a, b>>[2] = b
  <2>1. <<a, b>> \in Pairs
    BY DEF Pairs, Attributes
  <2>. QED BY <2>1, LiveAssumption
<1>3. ASSUME NEW p \in Pairs
      PROVE  /\ p[1] \in Values \cup {None} /\ p[2] \in Values \cup {None}
             /\ p # Absent /\ p = <<p[1], p[2]>>
  <2>1. p[1] \in Values \cup {None} /\ p[2] \in Values \cup {None}
    BY <1>1 DEF Pairs
  <2>2. p # Absent
    BY LiveAssumption
  <2>3. DOMAIN p = 1 .. 2
    BY DEF Pairs, Attributes
  <2>4. p = [i \in 1 .. 2 |-> p[i]]
    BY <2>3 DEF Pairs, Attributes
  <2>5. p = <<p[1], p[2]>>
    BY <2>4
  <2>. QED BY <2>1, <2>2, <2>5
<1>. QED BY <1>2, <1>3

LEMMA BlankType == Blank \in Pairs /\ Blank # Absent /\ Blank[1] = None /\ Blank[2] = None
BY PairType DEF Blank

(* A snapshot that begins: every attribute of every entity is to be read.  *)
LEMMA BuildingType ==
  ASSUME TypesOK
  PROVE  /\ Building \in BuildingStates /\ Building.at = "snap"
         /\ \A e \in Entities : /\ Building.list[e] = Absent <=> registry[e] = Absent
                                /\ registry[e] # Absent =>
                                     \A i \in Attributes : <<e, i>> \in Building.todo
         /\ \A cell \in Building.todo :
              Building.list[cell[1]] # Absent /\ registry[cell[1]] # Absent
<1> DEFINE there == {x \in Entities : registry[x] # Absent}
<1> DEFINE todo == UNION {Cells(e) : e \in there}
<1> DEFINE list == [e \in Entities |-> IF registry[e] = Absent THEN Absent ELSE Blank]
<1>1. Building = [at |-> "snap", todo |-> todo, list |-> list, mqtt |-> mqtt]
  BY DEF Building
<1>2. \A cell \in todo : \E e \in there, i \in Attributes : cell = <<e, i>>
  BY DEF Cells
<1>3. todo \in SUBSET (Entities \X Attributes)
  BY <1>2
<1>4. \A e \in there : \A i \in Attributes : <<e, i>> \in todo
  BY DEF Cells
<1>5. list \in [Entities -> PageViews]
  BY BlankType DEF PageViews
<1>6. \A e \in Entities : list[e] = Absent <=> registry[e] = Absent
  BY BlankType
<1>7. \A cell \in todo : cell[1] \in Entities /\ registry[cell[1]] # Absent
  BY <1>2
<1> HIDE DEF todo, list
<1>8. mqtt \in BOOLEAN
  BY DEF TypesOK
<1>9. Building \in BuildingStates
  BY <1>1, <1>3, <1>5, <1>8 DEF BuildingStates
<1>. QED BY <1>1, <1>4, <1>6, <1>7, <1>9

(* A cell is the entity's at its first place.                              *)
LEMMA CellType ==
  ASSUME NEW cell \in Entities \X Attributes
  PROVE  cell[1] \in Entities /\ cell[2] \in Attributes /\ cell \in Cells(cell[1])
BY DEF Cells

LEMMA SettleType ==
  ASSUME ShapeInv, NEW e \in Entities
  PROVE  /\ Settle(e) \in Connections /\ Settle(e).at = ws.at
         /\ ws.at = "snap" => /\ \A cell \in Settle(e).todo : cell \in ws.todo /\ cell[1] # e
                              /\ \A x \in Entities : x # e => Settle(e).list[x] = ws.list[x]
<1>. USE DEF ShapeInv, TypesOK
<1>1. CASE ws.at # "snap"
  BY <1>1 DEF Settle
<1>2. CASE ws.at = "snap"
  <2>1. ws \in BuildingStates
    BY <1>2 DEF Connections
  <2> DEFINE cells == IF ws.list[e] = Absent THEN Absent
                      ELSE [i \in Attributes |-> IF <<e, i>> \in ws.todo THEN registry[e][i]
                                                 ELSE ws.list[e][i]]
  <2>2. cells \in PageViews
    <3>1. ASSUME ws.list[e] # Absent, NEW i \in Attributes
          PROVE  (IF <<e, i>> \in ws.todo THEN registry[e][i] ELSE ws.list[e][i])
                   \in Values \cup {None}
      <4>1. ws.list[e] \in Pairs
        BY <2>1, <3>1 DEF BuildingStates, PageViews
      <4>2. <<e, i>> \in ws.todo => registry[e] \in Pairs
        BY <1>2 DEF Reading, PageViews
      <4>. QED BY <4>1, <4>2 DEF Pairs
    <3>. QED BY <3>1 DEF PageViews, Pairs
  <2>3. Settle(e) = [ws EXCEPT !.todo = ws.todo \ Cells(e), !.list = [ws.list EXCEPT ![e] = cells]]
    BY <1>2, <2>1 DEF Settle, BuildingStates
  <2> HIDE DEF cells
  <2>4. [ws.list EXCEPT ![e] = cells] \in [Entities -> PageViews]
    BY <2>1, <2>2 DEF BuildingStates
  <2>5. Settle(e) \in BuildingStates
    BY <2>1, <2>3, <2>4 DEF BuildingStates
  <2>6. /\ Settle(e).todo = ws.todo \ Cells(e) /\ Settle(e).list = [ws.list EXCEPT ![e] = cells]
        /\ Settle(e).at = ws.at
    BY <2>1, <2>3 DEF BuildingStates
  <2>7. \A cell \in ws.todo : cell[1] = e => cell \in Cells(e)
    BY <2>1, CellType DEF BuildingStates
  <2>8. \A x \in Entities : x # e => Settle(e).list[x] = ws.list[x]
    BY <2>1, <2>6 DEF BuildingStates
  <2>. QED BY <2>5, <2>6, <2>7, <2>8 DEF Connections
<1>. QED BY <1>1, <1>2

LEMMA ShapeInit == Init => ShapeInv
<1>. SUFFICES ASSUME Init PROVE ShapeInv
  OBVIOUS
<1> DEFINE none == [e \in Entities |-> Absent]
<1>1. /\ registry = none /\ mqtt = TRUE /\ paho = Idle
      /\ calls = <<>> /\ queue = <<>> /\ wire = <<>>
      /\ ws = [at |-> "none"] /\ page = [ents |-> none, mqtt |-> FALSE] /\ missed = FALSE
  BY DEF Init
<1>2. none \in [Entities -> PageViews]
  BY DEF PageViews
<1> HIDE DEF none
<1>3. page \in [ents : [Entities -> PageViews], mqtt : BOOLEAN]
  BY <1>1, <1>2
<1>4. ws \in Connections /\ ws.at = "none"
  BY <1>1 DEF Connections
<1>5. paho \in Callbacks /\ paho.at = "idle"
  BY <1>1 DEF Callbacks, Idle
<1>6. calls \in Seq(Events) /\ queue \in Seq(Events) /\ wire \in Seq(Messages)
  BY <1>1
<1>. QED BY <1>1, <1>2, <1>3, <1>4, <1>5, <1>6 DEF ShapeInv, TypesOK, Reading, Halfway

LEMMA EventTypes ==
  /\ \A e \in Entities, v \in Values : StateEvent(e, v) \in Events
  /\ Entered \in Events /\ Status \in Events
  /\ \A event \in Events : Emit(event) \in Callbacks /\ Emit(event).at = "emit"
                             /\ Emit(event).event = event
  /\ Idle \in Callbacks /\ Idle.at = "idle"
BY DEF Events, StateEvents, StateEvent, Emit, Callbacks, Idle

LEMMA ShapePaho ==
  ASSUME ShapeInv,
         \/ \E e \in Entities : \/ HandleDiscovery(e) \/ HandleRemoval(e)
                                \/ \E v \in Values : HandleState(e, v)
         \/ WriteText \/ Flap \/ Publish
  PROVE  ShapeInv'
<1>. USE DEF ShapeInv, TypesOK
<1>1. ASSUME NEW e \in Entities, NEW v \in Values, HandleState(e, v) PROVE ShapeInv'
  <2>1. /\ registry[e] # Absent /\ registry' = [registry EXCEPT ![e] = <<v, registry[e][2]>>]
        /\ paho' = [at |-> "value", id |-> e, val |-> v]
        /\ UNCHANGED <<mqtt, calls, queue, ws, wire, page, missed>>
    BY <1>1 DEF HandleState, channel
  <2>2. registry[e] \in Pairs
    BY <2>1 DEF PageViews
  <2>3. <<v, registry[e][2]>> \in Pairs /\ <<v, registry[e][2]>>[1] = v
          /\ <<v, registry[e][2]>> # Absent
    BY <2>2, PairType
  <2>4. registry' \in [Entities -> PageViews] /\ registry'[e] = <<v, registry[e][2]>>
    BY <2>1, <2>3 DEF PageViews
  <2>5. paho' \in Callbacks /\ paho'.id = e /\ paho'.val = v
    BY <2>1 DEF Callbacks
  <2>6. \A x \in Entities : registry[x] # Absent => registry'[x] # Absent
    BY <2>1, <2>3
  <2>7. Reading'
    <3>1. ASSUME ws.at = "snap", NEW cell \in ws.todo PROVE cell[1] \in Entities
      <4>1. ws \in BuildingStates
        BY <3>1 DEF Connections
      <4>. QED BY <4>1, CellType DEF BuildingStates
    <3>. QED BY <2>1, <2>6, <3>1 DEF Reading
  <2>8. Halfway'
    BY <2>3, <2>4, <2>5 DEF Halfway
  <2>. QED BY <2>1, <2>4, <2>5, <2>7, <2>8
<1>2. CASE WriteText
  <2>1. PICK e \in Entities, v \in Values : paho = [at |-> "value", id |-> e, val |-> v]
    BY <1>2 DEF WriteText, Callbacks, Idle
  <2>2. /\ registry' = [registry EXCEPT ![e] = <<registry[e][1], v>>]
        /\ paho' = Emit(StateEvent(e, v))
        /\ UNCHANGED <<mqtt, calls, queue, ws, wire, page, missed>>
    BY <1>2, <2>1 DEF WriteText, channel
  <2>3. registry[e] # Absent /\ registry[e] \in Pairs
    BY <2>1 DEF Halfway, PageViews
  <2>4. <<registry[e][1], v>> \in Pairs /\ <<registry[e][1], v>> # Absent
    BY <2>3, PairType
  <2>5. registry' \in [Entities -> PageViews]
    BY <2>2, <2>4 DEF PageViews
  <2>6. paho' \in Callbacks /\ paho'.at = "emit"
    BY <2>2, EventTypes
  <2>7. \A x \in Entities : registry[x] # Absent => registry'[x] # Absent
    BY <2>2, <2>4
  <2>8. Reading'
    <3>1. ASSUME ws.at = "snap", NEW cell \in ws.todo PROVE cell[1] \in Entities
      <4>1. ws \in BuildingStates
        BY <3>1 DEF Connections
      <4>. QED BY <4>1, CellType DEF BuildingStates
    <3>. QED BY <2>2, <2>7, <3>1 DEF Reading
  <2>. QED BY <2>2, <2>5, <2>6, <2>8 DEF Halfway
<1>3. ASSUME NEW e \in Entities, HandleDiscovery(e) \/ HandleRemoval(e) PROVE ShapeInv'
  <2>1. /\ ws' = Settle(e) /\ paho' = Emit(Entered)
        /\ UNCHANGED <<mqtt, calls, queue, wire, page, missed>>
    BY <1>3 DEF HandleDiscovery, HandleRemoval
  <2>2. /\ registry' \in [Entities -> PageViews]
        /\ \A x \in Entities : x # e => registry'[x] = registry[x]
    BY <1>3, BlankType DEF HandleDiscovery, HandleRemoval, PageViews
  <2>3. paho' \in Callbacks /\ paho'.at = "emit"
    BY <2>1, EventTypes
  <2>4. ws' \in Connections
    BY <2>1, SettleType
  <2>5. Reading'
    <3>1. SUFFICES ASSUME ws'.at = "snap", NEW cell \in ws'.todo
                   PROVE  ws'.list[cell[1]] # Absent /\ registry'[cell[1]] # Absent
      BY DEF Reading
    <3>2. ws.at = "snap" /\ cell \in ws.todo /\ cell[1] # e
      BY <2>1, <3>1, SettleType
    <3>3. cell[1] \in Entities
      <4>1. ws \in BuildingStates
        BY <3>2 DEF Connections
      <4>. QED BY <3>2, <4>1, CellType DEF BuildingStates
    <3>4. ws'.list[cell[1]] = ws.list[cell[1]]
      BY <2>1, <3>2, <3>3, SettleType
    <3>. QED BY <2>2, <3>2, <3>3, <3>4 DEF Reading
  <2>. QED BY <2>1, <2>2, <2>3, <2>4, <2>5 DEF Halfway
<1>4. CASE Flap
  <2>1. paho' \in Callbacks /\ paho'.at = "emit" /\ mqtt' \in BOOLEAN
    <3>1. paho' = Emit(Status)
      BY <1>4 DEF Flap
    <3>. QED BY <1>4, <3>1, EventTypes DEF Flap
  <2>2. UNCHANGED <<registry, calls, queue, ws, wire, page, missed>>
    BY <1>4 DEF Flap, channel
  <2>. QED BY <2>1, <2>2 DEF Reading, Halfway
<1>5. CASE Publish
  <2>1. paho.event \in Events
    BY <1>5 DEF Publish, Callbacks, Idle
  <2>2. /\ calls' = Append(calls, paho.event) /\ paho' = Idle
        /\ UNCHANGED <<registry, mqtt, queue, ws, wire, page, missed>>
    BY <1>5 DEF Publish
  <2>3. calls' \in Seq(Events)
    BY <2>1, <2>2, AppendProperties
  <2>4. paho' \in Callbacks /\ paho'.at = "idle"
    BY <2>2, EventTypes
  <2>. QED BY <2>2, <2>3, <2>4 DEF Reading, Halfway
<1>. QED BY <1>1, <1>2, <1>3, <1>4, <1>5

(* What the connection's coroutine takes from its queue becomes a message. *)
LEMMA TakenType ==
  ASSUME ShapeInv, TakeEvent
  PROVE  /\ Head(queue) \in Events /\ queue' = Tail(queue) /\ queue' \in Seq(Events)
         /\ ws' \in Connections
         /\ \/ Head(queue) = Entered /\ ws'.at = "sleep"
            \/ /\ Head(queue) = Status /\ ws'.at = "send" /\ ws'.msg.type = "status"
            \/ /\ Head(queue) \in StateEvents /\ ws'.at = "send" /\ ws'.msg = Head(queue)
<1>. USE DEF ShapeInv, TypesOK
<1>1. queue # <<>> /\ queue' = Tail(queue)
  BY DEF TakeEvent
<1>2. Head(queue) \in Events /\ queue' \in Seq(Events)
  BY <1>1, HeadTailProperties
<1>3. CASE Head(queue) = Entered
  <2>1. ws' = [at |-> "sleep"]
    BY <1>3 DEF TakeEvent
  <2>. QED BY <1>1, <1>2, <1>3, <2>1 DEF Connections
<1>4. CASE Head(queue) = Status
  <2>1. Head(queue) # Entered
    BY <1>4 DEF Entered, Status
  <2>2. ws' = [at |-> "send", msg |-> [type |-> "status", mqtt |-> mqtt]]
    BY <1>4, <2>1 DEF TakeEvent
  <2>3. [type |-> "status", mqtt |-> mqtt] \in Messages
    BY DEF Messages
  <2>. QED BY <1>1, <1>2, <1>4, <2>2, <2>3 DEF Connections
<1>5. CASE Head(queue) \in StateEvents
  <2>1. Head(queue) # Entered /\ Head(queue) # Status
    BY <1>5 DEF Entered, Status, StateEvents
  <2>2. ws' = [at |-> "send", msg |-> Head(queue)]
    BY <2>1 DEF TakeEvent
  <2>. QED BY <1>1, <1>2, <1>5, <2>2 DEF Connections, Messages
<1>. QED BY <1>2, <1>3, <1>4, <1>5 DEF Events

(* One more attribute of a snapshot is read.                               *)
LEMMA ReadType ==
  ASSUME ShapeInv, ReadCell
  PROVE  /\ ws.at = "snap" /\ ws \in BuildingStates /\ ws' \in BuildingStates
         /\ \E e \in Entities, i \in Attributes :
              /\ <<e, i>> \in ws.todo /\ ws.list[e] \in Pairs /\ registry[e] \in Pairs
              /\ ws'.todo = ws.todo \ {<<e, i>>}
              /\ ws'.list = [ws.list EXCEPT ![e] = [ws.list[e] EXCEPT ![i] = registry[e][i]]]
         /\ UNCHANGED <<registry, mqtt, paho, calls, queue, wire, page, missed>>
<1>. USE DEF ShapeInv, TypesOK
<1>1. ws.at = "snap" /\ ws \in BuildingStates
  BY DEF ReadCell, Connections
<1>2. PICK cell \in ws.todo :
        ws' = [ws EXCEPT !.todo = @ \ {cell},
                         !.list[cell[1]][cell[2]] = registry[cell[1]][cell[2]]]
  BY DEF ReadCell
<1>3. PICK e \in Entities, i \in Attributes : cell = <<e, i>>
  BY <1>1 DEF BuildingStates
<1>4. cell[1] = e /\ cell[2] = i
  BY <1>3
<1>5. ws.list[e] \in Pairs /\ registry[e] \in Pairs
  BY <1>1, <1>4 DEF Reading, BuildingStates, PageViews
<1>6. PICK read : read = [ws.list[e] EXCEPT ![i] = registry[e][i]]
  OBVIOUS
<1>7. read \in Pairs
  BY <1>5, <1>6 DEF Pairs
<1>8. ws' = [ws EXCEPT !.todo = ws.todo \ {cell}, !.list = [ws.list EXCEPT ![e] = read]]
  BY <1>1, <1>2, <1>4, <1>6 DEF BuildingStates
<1>9. [ws.list EXCEPT ![e] = read] \in [Entities -> PageViews]
  BY <1>1, <1>7 DEF BuildingStates, PageViews
<1>10. ws' \in BuildingStates /\ ws'.todo = ws.todo \ {cell}
         /\ ws'.list = [ws.list EXCEPT ![e] = read]
  BY <1>1, <1>8, <1>9 DEF BuildingStates
<1>11. UNCHANGED <<registry, mqtt, paho, calls, queue, wire, page, missed>>
  BY DEF ReadCell, server
<1>12. <<e, i>> \in ws.todo /\ ws'.todo = ws.todo \ {<<e, i>>}
  BY <1>3, <1>10
<1>. QED BY <1>1, <1>5, <1>6, <1>10, <1>11, <1>12

LEMMA ShapeLoop ==
  ASSUME ShapeInv,
         FanOut \/ Accept \/ ReadCell \/ SnapshotDone \/ TakeEvent \/ Wake \/ Send \/ Lose
  PROVE  ShapeInv'
<1>. USE DEF ShapeInv, TypesOK
<1>1. UNCHANGED <<registry, mqtt, paho, page>>
  BY DEF FanOut, Accept, ReadCell, SnapshotDone, TakeEvent, Wake, Send, Lose, server
<1>2. Halfway'
  BY <1>1 DEF Halfway
<1>3. CASE FanOut
  <2>1. Head(calls) \in Events /\ calls' \in Seq(Events) /\ UNCHANGED <<ws, wire>>
    BY <1>3, HeadTailProperties DEF FanOut
  <2>2. Append(queue, Head(calls)) \in Seq(Events)
    BY <2>1, AppendProperties
  <2>3. queue' \in {queue, Append(queue, Head(calls))} /\ missed' \in {missed, TRUE}
    BY <1>3 DEF FanOut
  <2>. QED BY <1>1, <1>2, <2>1, <2>2, <2>3 DEF Reading
<1>4. CASE Accept \/ Wake
  <2>1. queue' = <<>> /\ ws' = Building /\ missed' = FALSE /\ UNCHANGED <<calls, wire>>
    BY <1>4 DEF Accept, Wake
  <2>2. ws' \in Connections
    BY <2>1, BuildingType DEF Connections
  <2>3. Reading'
    BY <1>1, <2>1, BuildingType DEF Reading
  <2>4. queue' \in Seq(Events)
    BY <2>1
  <2>. QED BY <1>1, <1>2, <2>1, <2>2, <2>3, <2>4
<1>5. CASE ReadCell
  <2>1. PICK e \in Entities, i \in Attributes :
          /\ <<e, i>> \in ws.todo /\ ws.list[e] \in Pairs /\ registry[e] \in Pairs
          /\ ws'.todo = ws.todo \ {<<e, i>>}
          /\ ws'.list = [ws.list EXCEPT ![e] = [ws.list[e] EXCEPT ![i] = registry[e][i]]]
    BY <1>5, ReadType
  <2>2. /\ ws.at = "snap" /\ ws \in BuildingStates /\ ws' \in BuildingStates
        /\ UNCHANGED <<calls, queue, wire, missed>>
    BY <1>5, ReadType
  <2>3. ws'.list[e] # Absent
    <3>1. [ws.list[e] EXCEPT ![i] = registry[e][i]] \in Pairs
      BY <2>1 DEF Pairs
    <3>. QED BY <2>1, <2>2, <3>1, PairType DEF BuildingStates
  <2>4. \A x \in Entities : ws.list[x] # Absent => ws'.list[x] # Absent
    BY <2>1, <2>2, <2>3 DEF BuildingStates
  <2>5. \A cell \in ws.todo : cell[1] \in Entities
    BY <2>2, CellType DEF BuildingStates
  <2>6. Reading'
    BY <1>1, <2>1, <2>2, <2>4, <2>5 DEF Reading
  <2>. QED BY <1>1, <1>2, <2>2, <2>6 DEF Connections
<1>6. CASE SnapshotDone
  <2>1. ws \in BuildingStates
    BY <1>6 DEF SnapshotDone, Connections
  <2>2. PICK msg : msg = [type |-> "snapshot", list |-> ws.list, mqtt |-> ws.mqtt]
    OBVIOUS
  <2>3. msg \in Messages
    BY <2>1, <2>2 DEF BuildingStates, Messages, Snapshots
  <2>4. ws' = [at |-> "send", msg |-> msg] /\ UNCHANGED <<calls, queue, wire, missed>>
    BY <1>6, <2>2 DEF SnapshotDone
  <2>5. ws' \in Connections /\ ws'.at = "send"
    BY <2>3, <2>4 DEF Connections
  <2>. QED BY <1>1, <1>2, <2>4, <2>5 DEF Reading
<1>7. CASE TakeEvent
  <2>1. UNCHANGED <<calls, wire, missed>>
    BY <1>7 DEF TakeEvent
  <2>2. ws' \in Connections /\ queue' \in Seq(Events) /\ ws'.at # "snap"
    BY <1>7, TakenType
  <2>. QED BY <1>1, <1>2, <2>1, <2>2 DEF Reading
<1>8. CASE Send
  <2>1. ws.msg \in Messages
    BY <1>8 DEF Send, Connections, BuildingStates
  <2>2. wire' = Append(wire, ws.msg) /\ ws' = [at |-> "wait"] /\ UNCHANGED <<calls, queue, missed>>
    BY <1>8 DEF Send
  <2>3. wire' \in Seq(Messages)
    BY <2>1, <2>2, AppendProperties
  <2>4. ws' \in Connections /\ ws'.at = "wait"
    BY <2>2 DEF Connections
  <2>. QED BY <1>1, <1>2, <2>2, <2>3, <2>4 DEF Reading
<1>9. CASE Lose
  <2>1. ws' = [at |-> "none"] /\ wire' = <<>> /\ queue' = <<>> /\ UNCHANGED <<calls, missed>>
    BY <1>9 DEF Lose
  <2>2. ws' \in Connections /\ ws'.at = "none"
    BY <2>1 DEF Connections
  <2>3. wire' \in Seq(Messages) /\ queue' \in Seq(Events)
    BY <2>1
  <2>. QED BY <1>1, <1>2, <2>1, <2>2, <2>3 DEF Reading
<1>. QED BY <1>3, <1>4, <1>5, <1>6, <1>7, <1>8, <1>9

(* What the page shows for a message is a view again.                      *)
LEMMA ShownType ==
  ASSUME NEW view \in PageViews, NEW m \in Messages, NEW e \in Entities
  PROVE  Shown(view, m, e) \in PageViews
<1>1. CASE m \in Snapshots
  BY <1>1 DEF Shown, Snapshots
<1>2. CASE m \in StateEvents
  <2>1. <<m.val, m.val>> \in Pairs /\ m.type = "state"
    BY <1>2, PairType DEF StateEvents
  <2>. QED BY <2>1 DEF Shown, PageViews
<1>3. CASE m \in [type : {"status"}, mqtt : BOOLEAN]
  BY <1>3 DEF Shown
<1>. QED BY <1>1, <1>2, <1>3 DEF Messages

LEMMA ShapeReceive ==
  ASSUME ShapeInv, Receive
  PROVE  ShapeInv'
<1>. USE DEF ShapeInv, TypesOK
<1>1. PICK m : m = Head(wire)
  OBVIOUS
<1>2. m \in Messages /\ wire' \in Seq(Messages)
  BY <1>1, HeadTailProperties DEF Receive
<1>3. page' = [ents |-> [e \in Entities |-> Shown(page.ents[e], m, e)],
               mqtt |-> IF m.type = "state" THEN page.mqtt ELSE m.mqtt]
  BY <1>1 DEF Receive
<1>4. \A e \in Entities : Shown(page.ents[e], m, e) \in PageViews
  BY <1>2, ShownType
<1>5. (IF m.type = "state" THEN page.mqtt ELSE m.mqtt) \in BOOLEAN
  BY <1>2 DEF Messages, StateEvents, Snapshots
<1>6. page' \in [ents : [Entities -> PageViews], mqtt : BOOLEAN]
  BY <1>3, <1>4, <1>5
<1>7. UNCHANGED <<registry, mqtt, paho, calls, queue, ws, missed>>
  BY DEF Receive, server
<1>. QED BY <1>2, <1>6, <1>7 DEF Reading, Halfway

-----------------------------------------------------------------------------
(* Events on their way.                                                    *)

(* Given to the event loop, or about to be.                                *)
Coming == calls \o Emitting

NoEntered(events) == \A i \in DOMAIN events : events[i] # Entered

LEMMA EventShown ==
  ASSUME NEW view, NEW m \in Events, NEW e \in Entities
  PROVE  /\ Shown(view, m, e) = Absent <=> view = Absent
         /\ m \notin StateEvents \/ m.id # e => Shown(view, m, e) = view
         /\ m \in StateEvents /\ m.id = e /\ view # Absent =>
              Shown(view, m, e) = <<m.val, m.val>>
<1>1. CASE m \in StateEvents
  <2>1. m.type = "state" /\ m.val \in Values
    BY <1>1 DEF StateEvents
  <2>2. <<m.val, m.val>> # Absent
    BY <2>1, PairType
  <2>. QED BY <1>1, <2>1, <2>2 DEF Shown
<1>2. CASE m \notin StateEvents
  <2>1. m.type \in {"entities", "status"}
    BY <1>2 DEF Events, Entered, Status
  <2>. QED BY <1>2, <2>1 DEF Shown
<1>. QED BY <1>1, <1>2

(* Events neither bring an entity to the page nor take one from it.        *)
LEMMA EventsKeep ==
  ASSUME NEW view, NEW events \in Seq(Events), NEW e \in Entities
  PROVE  After(view, e, events) = Absent <=> view = Absent
<1>1. PICK n \in Nat : n = Len(events)
  BY LenProperties
<1>2. PICK run : Run(run, view, e, events, n) /\ After(view, e, events) = run[n]
  BY ONLY n \in Nat, <1>1, AfterViews
<1> DEFINE T == {i \in 0 .. n : ~(run[i] = Absent <=> view = Absent)}
<1>3. ASSUME T # {} PROVE FALSE
  <2>1. T \subseteq Nat
    OBVIOUS
  <2>2. PICK i \in T : \A j \in T : i <= j
    BY <1>3, <2>1, LeastElement
  <2>3. i \in 0 .. n /\ ~(run[i] = Absent <=> view = Absent)
    OBVIOUS
  <2>4. run[0] = view
    BY <1>2 DEF Run
  <2>5. i \in 1 .. n /\ i - 1 \in 0 .. n /\ i - 1 \notin T
    BY <2>2, <2>3, <2>4
  <2>6. run[i - 1] = Absent <=> view = Absent
    BY <2>5
  <2>7. run[i] = Shown(run[i - 1], events[i], e)
    BY <1>2, <2>5 DEF Run
  <2>8. events[i] \in Events
    BY <1>1, <2>5, ElementOfSeq
  <2>. QED BY <2>3, <2>6, <2>7, <2>8, EventShown
<1>4. n \in 0 .. n /\ n \notin T
  BY <1>3
<1>. QED BY <1>2, <1>4

(* A sequence is its head and its tail.                                    *)
LEMMA HeadTailJoin ==
  ASSUME NEW S, NEW s \in Seq(S), s # <<>>
  PROVE  s = <<Head(s)>> \o Tail(s) /\ Head(s) \in S /\ Tail(s) \in Seq(S) /\ <<Head(s)>> \in Seq(S)
<1>1. Len(s) \in Nat \ {0} /\ Head(s) = s[1]
  BY LenProperties, EmptySeq
<1>2. /\ Head(s) \in S /\ Tail(s) \in Seq(S) /\ Len(Tail(s)) = Len(s) - 1
      /\ \A i \in 1 .. Len(Tail(s)) : Tail(s)[i] = s[i + 1]
  BY HeadTailProperties
<1>3. <<Head(s)>> \in Seq(S) /\ Len(<<Head(s)>>) = 1 /\ <<Head(s)>>[1] = Head(s)
  BY <1>2
<1>4. PICK t : t = Tail(s)
  OBVIOUS
<1>5. PICK h : h = <<Head(s)>>
  OBVIOUS
<1>6. /\ h \o t \in Seq(S) /\ Len(h \o t) = 1 + Len(t)
      /\ \A i \in 1 .. 1 + Len(t) : (h \o t)[i] = IF i <= 1 THEN h[i] ELSE t[i - 1]
  BY <1>2, <1>3, <1>4, <1>5, ConcatProperties
<1>7. Len(h \o t) = Len(s)
  BY <1>1, <1>2, <1>4, <1>6
<1>8. ASSUME NEW i \in 1 .. Len(h \o t) PROVE (h \o t)[i] = s[i]
  <2>1. CASE i = 1
    BY <1>1, <1>3, <1>5, <1>6, <2>1
  <2>2. CASE i # 1
    <3>1. i \in 1 .. 1 + Len(t) /\ ~(i <= 1) /\ i - 1 \in 1 .. Len(t) /\ (i - 1) + 1 = i
      BY <1>1, <1>6, <1>7, <2>2
    <3>2. (h \o t)[i] = t[i - 1]
      BY <1>6, <3>1
    <3>3. t[i - 1] = s[(i - 1) + 1]
      BY <1>2, <1>4, <3>1
    <3>. QED BY <3>1, <3>2, <3>3
  <2>. QED BY <2>1, <2>2
<1>9. h \o t = s
  BY <1>6, <1>7, <1>8, SeqEqual
<1>. QED BY <1>2, <1>3, <1>4, <1>5, <1>9

(* One message more, at the end or at the front.                           *)
LEMMA AfterAppend ==
  ASSUME NEW view, NEW e, NEW S, NEW s \in Seq(S), NEW m \in S
  PROVE  After(view, e, Append(s, m)) = Shown(After(view, e, s), m, e)
<1>1. PICK t : t = <<m>>
  OBVIOUS
<1>2. t \in Seq(S) /\ Append(s, m) = s \o t
  BY <1>1
<1>3. After(view, e, s \o t) = After(After(view, e, s), e, t)
  BY ONLY s \in Seq(S), <1>2, AfterBoth
<1>. QED BY <1>1, <1>2, <1>3, AfterOne

LEMMA AfterHead ==
  ASSUME NEW view, NEW e, NEW S, NEW s \in Seq(S), s # <<>>
  PROVE  After(view, e, s) = After(Shown(view, Head(s), e), e, Tail(s))
<1>1. PICK h, t : h = <<Head(s)>> /\ t = Tail(s)
  OBVIOUS
<1>2. s = h \o t /\ h \in Seq(S) /\ t \in Seq(S)
  BY <1>1, HeadTailJoin
<1>3. After(view, e, h \o t) = After(After(view, e, h), e, t)
  BY ONLY <1>2, AfterBoth
<1>. QED BY <1>1, <1>2, <1>3, AfterOne

LEMMA NoEnteredBoth ==
  ASSUME NEW S, NEW s \in Seq(S), NEW t \in Seq(S)
  PROVE  NoEntered(s \o t) <=> NoEntered(s) /\ NoEntered(t)
<1>1. PICK a \in Nat, n \in Nat : a = Len(s) /\ n = Len(t)
  BY LenProperties
<1>2. PICK c : c = s \o t
  OBVIOUS
<1>3. /\ DOMAIN s = 1 .. a /\ DOMAIN t = 1 .. n /\ DOMAIN c = 1 .. a + n
      /\ \A i \in 1 .. a + n : c[i] = IF i <= a THEN s[i] ELSE t[i - a]
  BY <1>1, <1>2, ConcatProperties, LenProperties
<1>4. ASSUME NoEntered(c) PROVE NoEntered(s) /\ NoEntered(t)
  <2>1. ASSUME NEW i \in 1 .. a PROVE s[i] # Entered
    <3>1. i \in 1 .. a + n /\ i <= a
      OBVIOUS
    <3>. QED BY <1>3, <1>4, <3>1 DEF NoEntered
  <2>2. ASSUME NEW i \in 1 .. n PROVE t[i] # Entered
    <3>1. a + i \in 1 .. a + n /\ ~(a + i <= a) /\ a + i - a = i
      OBVIOUS
    <3>2. c[a + i] = t[i] /\ c[a + i] # Entered
      BY <1>3, <1>4, <3>1 DEF NoEntered
    <3>. QED BY <3>2
  <2>. QED BY <1>3, <2>1, <2>2 DEF NoEntered
<1>5. ASSUME NoEntered(s), NoEntered(t) PROVE NoEntered(c)
  <2>1. ASSUME NEW i \in 1 .. a + n PROVE c[i] # Entered
    <3>1. CASE i <= a
      BY <1>3, <1>5, <3>1 DEF NoEntered
    <3>2. CASE ~(i <= a)
      <4>1. i - a \in 1 .. n
        BY <3>2
      <4>. QED BY <1>3, <1>5, <3>2, <4>1 DEF NoEntered
    <3>. QED BY <3>1, <3>2
  <2>. QED BY <1>3, <2>1 DEF NoEntered
<1>. QED BY <1>2, <1>4, <1>5

LEMMA NoEnteredOne ==
  ASSUME NEW m
  PROVE  NoEntered(<<m>>) <=> m # Entered
BY DEF NoEntered

-----------------------------------------------------------------------------
(* What update_state writes is emitted after it is written.                *)

(* Whoever has the view and sees the last of the events keeps the view:    *)
(* none of them is older than it, back to the last announcement.           *)
Latest(view, e, events) ==
  \A s, t \in Seq(Events) :
    events = s \o t /\ NoEntered(t) => After(view, e, t) = view

LEMMA LatestTail ==
  ASSUME NEW view, NEW e, NEW h \in Events, NEW q \in Seq(Events),
         Latest(view, e, <<h>> \o q)
  PROVE  Latest(view, e, q)
<1>1. PICK o : o = <<h>>
  OBVIOUS
<1>2. o \in Seq(Events)
  BY <1>1
<1>3. SUFFICES ASSUME NEW s \in Seq(Events), NEW t \in Seq(Events), q = s \o t, NoEntered(t)
               PROVE  After(view, e, t) = view
  BY DEF Latest
<1>4. o \o (s \o t) = (o \o s) \o t
  BY ONLY <1>2, s \in Seq(Events), t \in Seq(Events), ConcatAssociative
<1>5. o \o s \in Seq(Events)
  BY <1>2, ConcatProperties
<1>. QED BY <1>1, <1>3, <1>4, <1>5 DEF Latest

(* An event more: an announcement, an event of another entity, or the one  *)
(* that carries the view.                                                  *)
Carries(m, e, view) == m \in StateEvents /\ m.id = e /\ view = <<m.val, m.val>>

LEMMA LatestGrows ==
  ASSUME NEW view, NEW e \in Entities, NEW q \in Seq(Events), NEW m \in Events,
         \/ m = Entered
         \/ (m \notin StateEvents \/ m.id # e) /\ Latest(view, e, q)
         \/ Carries(m, e, view)
  PROVE  Latest(view, e, Append(q, m))
<1>1. SUFFICES ASSUME NEW s \in Seq(Events), NEW t \in Seq(Events),
                      Append(q, m) = s \o t, NoEntered(t)
               PROVE  After(view, e, t) = view
  BY DEF Latest
<1>2. CASE t = <<>>
  BY <1>2, AfterNone
<1>3. CASE t # <<>>
  <2>1. PICK r \in Seq(Events), n \in Events : t = Append(r, n)
    BY <1>3, SequenceEmptyOrAppend
  <2>2. PICK o : o = <<n>>
    OBVIOUS
  <2>3. o \in Seq(Events) /\ t = r \o o
    BY <2>1, <2>2
  <2>4. s \o (r \o o) = (s \o r) \o o
    BY ONLY <2>3, s \in Seq(Events), r \in Seq(Events), ConcatAssociative
  <2>5. PICK c \in Seq(Events) : c = s \o r
    BY ConcatProperties
  <2>6. Append(q, m) = Append(c, n)
    <3>1. c \o o = Append(c, n)
      BY <2>2, AppendIsConcat
    <3>. QED BY <1>1, <2>3, <2>4, <2>5, <3>1
  <2>7. q = c /\ m = n
    BY <2>6, AppendInjective
  <2>8. NoEntered(r) /\ n # Entered
    BY <1>1, <2>2, <2>3, NoEnteredBoth, NoEnteredOne
  <2>9. After(view, e, t) = Shown(After(view, e, r), n, e)
    BY <2>1, AfterAppend
  <2>10. CASE (m \notin StateEvents \/ m.id # e) /\ Latest(view, e, q)
    <3>1. After(view, e, r) = view
      BY <2>5, <2>7, <2>8, <2>10 DEF Latest
    <3>. QED BY <2>7, <2>9, <2>10, <3>1, EventShown
  <2>11. CASE Carries(m, e, view)
    <3>1. view # Absent
      BY <2>11, PairType DEF Carries, StateEvents
    <3>2. After(view, e, r) # Absent
      BY <3>1, EventsKeep
    <3>. QED BY <2>7, <2>9, <2>11, <3>2, EventShown DEF Carries
  <2>. QED BY <2>7, <2>8, <2>10, <2>11
<1>. QED BY <1>2, <1>3

(* How a step of the server changes what is coming.                        *)
LEMMA JoinedType ==
  ASSUME NEW p \in Callbacks, NEW c \in Seq(Events), NEW all,
         all = c \o IF p.at = "emit" THEN <<p.event>> ELSE <<>>
  PROVE  /\ all \in Seq(Events)
         /\ p.at # "emit" => all = c
         /\ p.at = "emit" => all = Append(c, p.event)
<1>1. CASE p.at # "emit"
  BY <1>1, ConcatEmptySeq
<1>2. CASE p.at = "emit"
  <2>1. p.event \in Events
    BY <1>2 DEF Callbacks, Idle
  <2>2. Append(c, p.event) = c \o <<p.event>>
    BY <2>1, AppendIsConcat
  <2>. QED BY <1>2, <2>1, <2>2, AppendProperties
<1>. QED BY <1>1, <1>2

LEMMA ComingType ==
  ASSUME TypesOK
  PROVE  /\ Coming \in Seq(Events)
         /\ paho.at # "emit" => Coming = calls
         /\ paho.at = "emit" => Coming = Append(calls, paho.event)
BY JoinedType DEF TypesOK, Coming, Emitting

LEMMA ComingTypeNext ==
  ASSUME TypesOK'
  PROVE  /\ Coming' \in Seq(Events)
         /\ paho'.at # "emit" => Coming' = calls'
         /\ paho'.at = "emit" => Coming' = Append(calls', paho'.event)
BY JoinedType DEF TypesOK, Coming, Emitting

LEMMA ComingFans ==
  ASSUME TypesOK, TypesOK', calls # <<>>, calls' = Tail(calls), paho' = paho
  PROVE  /\ Head(calls) \in Events
         /\ Coming = <<Head(calls)>> \o Coming'
<1>1. PICK h, t, o : h = <<Head(calls)>> /\ t = Tail(calls) /\ o = Emitting
  OBVIOUS
<1>2. calls = h \o t /\ Head(calls) \in Events /\ h \in Seq(Events) /\ t \in Seq(Events)
  BY <1>1, HeadTailJoin DEF TypesOK
<1>3. o \in Seq(Events)
  <2>1. paho.at = "emit" => paho.event \in Events
    BY DEF TypesOK, Callbacks, Idle
  <2>. QED BY <1>1, <2>1 DEF Emitting
<1>4. Coming = (h \o t) \o o /\ Coming' = t \o o
  BY <1>1, <1>2 DEF Coming, Emitting
<1>5. (h \o t) \o o = h \o (t \o o)
  BY ONLY <1>2, <1>3, ConcatAssociative
<1>. QED BY <1>1, <1>2, <1>4, <1>5

Writing(e) == paho.at = "value" /\ paho.id = e

(* Every entity, but for one that is half written, is in the registry what *)
(* the last event about it says.                                           *)
Sound(e) == ~Writing(e) => Latest(registry[e], e, Coming)

LEMMA SoundPaho ==
  ASSUME ShapeInv, ShapeInv', \A e \in Entities : Sound(e),
         \/ \E e \in Entities : \/ HandleDiscovery(e) \/ HandleRemoval(e)
                                \/ \E v \in Values : HandleState(e, v)
         \/ WriteText \/ Flap \/ Publish
  PROVE  \A e \in Entities : Sound(e)'
<1>1. TypesOK /\ TypesOK'
  BY DEF ShapeInv
<1>2. Coming \in Seq(Events) /\ calls \in Seq(Events)
  BY <1>1, ComingType, ComingTypeNext DEF TypesOK
<1>3. ASSUME NEW x \in Entities, NEW m \in Events,
             paho.at # "emit", paho' = Emit(m), calls' = calls
      PROVE  Coming' = Append(Coming, m) /\ ~Writing(x)'
  <2>1. paho'.at = "emit" /\ paho'.event = m
    BY <1>3, EventTypes
  <2>2. Coming' = Append(calls', paho'.event)
    BY <1>1, <2>1, ComingType, ComingTypeNext
  <2>3. Coming = calls
    BY <1>1, <1>3, ComingType, ComingTypeNext
  <2>. QED BY <1>3, <2>1, <2>2, <2>3 DEF Writing
<1>4. SUFFICES ASSUME NEW x \in Entities PROVE Sound(x)'
  OBVIOUS
<1>5. ASSUME NEW e \in Entities, NEW v \in Values, HandleState(e, v) PROVE Sound(x)'
  <2>1. /\ paho.at = "idle" /\ paho'.at = "value" /\ paho'.id = e /\ calls' = calls
        /\ registry' = [registry EXCEPT ![e] = <<v, @[2]>>]
    BY <1>5 DEF HandleState, Idle, channel
  <2>2. Coming' = Coming
    BY <1>1, <2>1, ComingType, ComingTypeNext
  <2>3. CASE x = e
    BY <2>1, <2>3 DEF Sound, Writing
  <2>4. CASE x # e
    <3>1. registry'[x] = registry[x] /\ ~Writing(x)
      BY <1>1, <2>1, <2>4 DEF TypesOK, Writing
    <3>. QED BY <2>2, <3>1 DEF Sound
  <2>. QED BY <2>3, <2>4
<1>6. ASSUME NEW e \in Entities, HandleDiscovery(e) \/ HandleRemoval(e) PROVE Sound(x)'
  <2>1. paho.at # "emit" /\ paho' = Emit(Entered) /\ calls' = calls
    BY <1>6 DEF HandleDiscovery, HandleRemoval, Idle
  <2>2. Coming' = Append(Coming, Entered)
    BY <1>3, <2>1, EventTypes
  <2>3. Latest(registry'[x], x, Append(Coming, Entered))
    BY <1>2, EventTypes, LatestGrows
  <2>. QED BY <2>2, <2>3 DEF Sound
<1>7. CASE WriteText
  <2>1. PICK e \in Entities, v \in Values :
          paho.at = "value" /\ paho.id = e /\ paho.val = v
    BY <1>1, <1>7 DEF WriteText, TypesOK, Callbacks, Idle
  <2>2. PICK m : m = StateEvent(e, v)
    OBVIOUS
  <2>3. m \in StateEvents /\ m \in Events /\ m.id = e /\ m.val = v
    BY <2>2 DEF StateEvent, StateEvents, Events
  <2>4. /\ paho.at # "emit" /\ paho' = Emit(m) /\ calls' = calls
        /\ registry' = [registry EXCEPT ![e] = <<@[1], v>>]
    BY <1>7, <2>1, <2>2 DEF WriteText, channel
  <2>5. Coming' = Append(Coming, m)
    BY <1>3, <2>3, <2>4
  <2>6. CASE x = e
    <3>1. registry[e][1] = v
      BY <2>1 DEF ShapeInv, Halfway
    <3>2. registry'[x] = <<v, v>>
      BY <1>1, <2>4, <2>6, <3>1 DEF TypesOK
    <3>3. Carries(m, x, registry'[x])
      BY <2>3, <2>6, <3>2 DEF Carries
    <3>4. Latest(registry'[x], x, Append(Coming, m))
      BY <1>2, <2>3, <3>3, LatestGrows
    <3>. QED BY <2>5, <3>4 DEF Sound
  <2>7. CASE x # e
    <3>1. registry'[x] = registry[x] /\ ~Writing(x)
      BY <1>1, <2>1, <2>4, <2>7 DEF TypesOK, Writing
    <3>2. Latest(registry[x], x, Coming)
      BY <3>1 DEF Sound
    <3>3. Latest(registry[x], x, Append(Coming, m))
      BY <1>2, <2>3, <2>7, <3>2, LatestGrows
    <3>. QED BY <2>5, <3>1, <3>3 DEF Sound
  <2>. QED BY <2>6, <2>7
<1>8. CASE Flap
  <2>1. /\ paho.at = "idle" /\ paho.at # "emit" /\ paho' = Emit(Status) /\ calls' = calls
        /\ registry' = registry
    BY <1>8 DEF Flap, Idle, channel
  <2>2. Coming' = Append(Coming, Status)
    BY <1>3, <2>1, EventTypes
  <2>3. Latest(registry[x], x, Coming)
    BY <2>1 DEF Sound, Writing
  <2>4. Status \notin StateEvents
    BY DEF Status, StateEvents
  <2>5. Latest(registry[x], x, Append(Coming, Status))
    BY <1>2, <2>3, <2>4, EventTypes, LatestGrows
  <2>. QED BY <2>1, <2>2, <2>5 DEF Sound
<1>9. CASE Publish
  <2>1. /\ paho.at = "emit" /\ paho'.at = "idle" /\ calls' = Append(calls, paho.event)
        /\ registry' = registry
    BY <1>9 DEF Publish, Idle
  <2>2. Coming' = Coming
    BY <1>1, <2>1, ComingType, ComingTypeNext
  <2>. QED BY <2>1, <2>2 DEF Sound, Writing
<1>. QED BY <1>5, <1>6, <1>7, <1>8, <1>9

LEMMA SoundLoop ==
  ASSUME ShapeInv, ShapeInv', \A e \in Entities : Sound(e),
         \/ FanOut \/ Accept \/ ReadCell \/ SnapshotDone \/ TakeEvent \/ Wake \/ Send \/ Lose
         \/ Receive
  PROVE  \A e \in Entities : Sound(e)'
<1>1. TypesOK /\ TypesOK'
  BY DEF ShapeInv
<1>2. registry' = registry /\ paho' = paho
  BY DEF FanOut, Accept, ReadCell, SnapshotDone, TakeEvent, Wake, Send, Lose, Receive, server
<1>3. CASE FanOut
  <2>1. Coming = <<Head(calls)>> \o Coming' /\ Head(calls) \in Events /\ Coming' \in Seq(Events)
    BY <1>1, <1>2, <1>3, ComingFans, ComingType, ComingTypeNext DEF FanOut
  <2>2. PICK q \in Seq(Events), h \in Events : q = Coming' /\ h = Head(calls)
    BY <2>1
  <2>3. ASSUME NEW x \in Entities, Latest(registry[x], x, Coming)
        PROVE  Latest(registry[x], x, Coming')
    <3>1. Latest(registry[x], x, <<h>> \o q)
      BY <2>1, <2>2, <2>3
    <3>. QED BY <2>2, <3>1, LatestTail
  <2>. QED BY <1>2, <2>3 DEF Sound, Writing
<1>4. CASE ~FanOut
  <2>1. calls' = calls
    BY <1>4 DEF Accept, ReadCell, SnapshotDone, TakeEvent, Wake, Send, Lose, Receive
  <2>. QED BY <1>2, <2>1 DEF Sound, Writing, Coming, Emitting
<1>. QED BY <1>3, <1>4

-----------------------------------------------------------------------------
(* The page ends up with the last word.                                    *)

(* What a snapshot that is being read will say.                            *)
ReadOf(w, reg, e) ==
  IF w.list[e] = Absent THEN Absent
  ELSE [i \in Attributes |-> IF <<e, i>> \in w.todo THEN reg[e][i] ELSE w.list[e][i]]

(* The view before the events of the queue.                                *)
Base(e) ==
  IF ws.at = "snap" THEN ReadOf(ws, registry, e)
  ELSE After(After(page.ents[e], e, wire), e, Sending)

Arrived(e) ==
  ~missed /\ ws.at \notin {"none", "sleep"} /\ NoEntered(queue) /\ NoEntered(Coming) =>
    IF Writing(e) THEN Base(e) # Absent
    ELSE After(After(Base(e), e, queue), e, Coming) = registry[e]

LiveInv == ShapeInv /\ \A e \in Entities : Sound(e) /\ Arrived(e)

LEMMA ReadOfType ==
  ASSUME NEW w \in BuildingStates, NEW reg \in [Entities -> PageViews], NEW e \in Entities,
         \A cell \in w.todo : w.list[cell[1]] # Absent /\ reg[cell[1]] # Absent
  PROVE  ReadOf(w, reg, e) \in PageViews /\ (ReadOf(w, reg, e) = Absent <=> w.list[e] = Absent)
<1>1. CASE w.list[e] = Absent
  BY <1>1 DEF ReadOf, PageViews
<1>2. CASE w.list[e] # Absent
  <2>1. w.list[e] \in Pairs
    BY <1>2 DEF BuildingStates, PageViews
  <2>2. ASSUME NEW i \in Attributes, <<e, i>> \in w.todo PROVE reg[e] \in Pairs
    <3>1. <<e, i>>[1] = e
      OBVIOUS
    <3>. QED BY <2>2, <3>1 DEF PageViews
  <2>3. ASSUME NEW i \in Attributes
        PROVE  (IF <<e, i>> \in w.todo THEN reg[e][i] ELSE w.list[e][i]) \in Values \cup {None}
    BY <2>1, <2>2 DEF Pairs
  <2>4. ReadOf(w, reg, e) \in Pairs
    BY <1>2, <2>3 DEF ReadOf, Pairs
  <2>. QED BY <1>2, <2>4, PairType DEF PageViews
<1>. QED BY <1>1, <1>2

(* A write to the registry neither adds an entity to what is on its way    *)
(* nor takes one from it, and leaves the others alone.                     *)
LEMMA BaseKept ==
  ASSUME ShapeInv, ShapeInv', NEW e \in Entities,
         ws' = ws, wire' = wire, page' = page
  PROVE  /\ Base(e)' = Absent <=> Base(e) = Absent
         /\ registry'[e] = registry[e] => Base(e)' = Base(e)
<1>1. CASE ws.at = "snap"
  <2>1. ws \in BuildingStates /\ registry \in [Entities -> PageViews]
                              /\ registry' \in [Entities -> PageViews]
    BY <1>1 DEF ShapeInv, TypesOK, Connections
  <2>2. \A cell \in ws.todo : ws.list[cell[1]] # Absent /\ registry[cell[1]] # Absent
                                /\ registry'[cell[1]] # Absent
    BY <1>1 DEF ShapeInv, Reading
  <2>3. ReadOf(ws, registry, e) = Absent <=> ws.list[e] = Absent
    BY <2>1, <2>2, ReadOfType
  <2>4. ReadOf(ws, registry', e) = Absent <=> ws.list[e] = Absent
    BY <2>1, <2>2, ReadOfType
  <2>5. Base(e)' = ReadOf(ws, registry', e) /\ Base(e) = ReadOf(ws, registry, e)
    BY <1>1 DEF Base
  <2>6. registry'[e] = registry[e] => ReadOf(ws, registry', e) = ReadOf(ws, registry, e)
    BY DEF ReadOf
  <2>. QED BY <2>3, <2>4, <2>5, <2>6
<1>2. CASE ws.at # "snap"
  BY <1>2 DEF Base, Sending
<1>. QED BY <1>1, <1>2

LEMMA ArrivedPaho ==
  ASSUME LiveInv, ShapeInv',
         \/ \E e \in Entities : \/ HandleDiscovery(e) \/ HandleRemoval(e)
                                \/ \E v \in Values : HandleState(e, v)
         \/ WriteText \/ Flap \/ Publish
  PROVE  \A e \in Entities : Arrived(e)'
<1>1. ShapeInv /\ TypesOK /\ TypesOK'
  BY DEF LiveInv, ShapeInv
<1>2. Coming \in Seq(Events) /\ calls \in Seq(Events) /\ queue \in Seq(Events)
  BY <1>1, ComingType DEF TypesOK
<1>3. ASSUME NEW m \in Events, paho.at # "emit", paho' = Emit(m), calls' = calls
      PROVE  /\ Coming' = Append(Coming, m) /\ \A x \in Entities : ~Writing(x)'
             /\ NoEntered(Coming') => NoEntered(Coming) /\ m # Entered
  <2>1. paho'.at = "emit" /\ paho'.event = m
    BY <1>3, EventTypes
  <2>2. Coming' = Append(calls', paho'.event)
    BY <1>1, <2>1, ComingTypeNext
  <2>3. Coming = calls
    BY <1>1, <1>3, ComingType
  <2>4. PICK o : o = <<m>>
    OBVIOUS
  <2>5. PICK c \in Seq(Events) : c = Coming
    BY <1>2
  <2>6. o \in Seq(Events) /\ Append(c, m) = c \o o
    BY <2>4, <2>5
  <2>7. NoEntered(c \o o) => NoEntered(c) /\ NoEntered(o)
    BY <2>6, NoEnteredBoth
  <2>8. NoEntered(o) => m # Entered
    BY <2>4, NoEnteredOne
  <2>. QED BY <1>3, <2>1, <2>2, <2>3, <2>5, <2>6, <2>7, <2>8 DEF Writing
<1>4. SUFFICES ASSUME NEW x \in Entities,
                      ~missed', ws'.at \notin {"none", "sleep"}, NoEntered(queue'), NoEntered(Coming')
               PROVE  IF Writing(x)' THEN Base(x)' # Absent
                      ELSE After(After(Base(x)', x, queue'), x, Coming') = registry'[x]
  BY DEF Arrived
<1> DEFINE View == After(After(Base(x), x, queue), x, Coming)
<1>5. Base(x) = Absent <=> View = Absent
  BY <1>2, EventsKeep
<1>6. ~missed /\ ws.at \notin {"none", "sleep"} /\ NoEntered(queue) /\ NoEntered(Coming) =>
        IF Writing(x) THEN Base(x) # Absent ELSE View = registry[x]
  BY DEF LiveInv, Arrived
<1> HIDE DEF View
<1>7. ASSUME NEW e \in Entities, NEW v \in Values, HandleState(e, v)
      PROVE  IF Writing(x)' THEN Base(x)' # Absent
             ELSE After(After(Base(x)', x, queue'), x, Coming') = registry'[x]
  <2>1. /\ paho.at = "idle" /\ paho'.at = "value" /\ paho'.id = e
        /\ registry' = [registry EXCEPT ![e] = <<v, @[2]>>] /\ registry[e] # Absent
        /\ UNCHANGED <<calls, queue, ws, wire, page, missed>>
    BY <1>7 DEF HandleState, Idle, channel
  <2>2. Coming' = Coming
    BY <1>1, <2>1, ComingType, ComingTypeNext
  <2>3. View = registry[x] /\ (Writing(x)' <=> x = e)
    BY <1>4, <1>6, <2>1, <2>2 DEF Writing
  <2>4. /\ Base(x)' = Absent <=> Base(x) = Absent
        /\ registry'[x] = registry[x] => Base(x)' = Base(x)
    BY <1>1, <2>1, BaseKept
  <2>5. CASE x = e
    BY <1>5, <2>1, <2>3, <2>4, <2>5
  <2>6. CASE x # e
    <3>1. registry'[x] = registry[x]
      BY <1>1, <2>1, <2>6 DEF TypesOK
    <3>. QED BY <2>1, <2>2, <2>3, <2>4, <2>6, <3>1 DEF View
  <2>. QED BY <2>5, <2>6
<1>8. ASSUME NEW e \in Entities, HandleDiscovery(e) \/ HandleRemoval(e) PROVE FALSE
  <2>1. paho.at # "emit" /\ paho' = Emit(Entered) /\ calls' = calls
    BY <1>8 DEF HandleDiscovery, HandleRemoval, Idle
  <2>. QED BY <1>3, <1>4, <2>1, EventTypes
<1>9. CASE WriteText
  <2>1. PICK e \in Entities, v \in Values :
          paho.at = "value" /\ paho.id = e /\ paho.val = v
    BY <1>1, <1>9 DEF WriteText, TypesOK, Callbacks, Idle
  <2>2. PICK m : m = StateEvent(e, v)
    OBVIOUS
  <2>3. m \in StateEvents /\ m \in Events /\ m.id = e /\ m.val = v
    BY <2>2 DEF StateEvent, StateEvents, Events
  <2>4. /\ paho.at # "emit" /\ paho' = Emit(m)
        /\ registry' = [registry EXCEPT ![e] = <<@[1], v>>]
        /\ UNCHANGED <<calls, queue, ws, wire, page, missed>>
    BY <1>9, <2>1, <2>2 DEF WriteText, channel
  <2>5. Coming' = Append(Coming, m) /\ NoEntered(Coming) /\ ~Writing(x)'
    BY <1>3, <1>4, <2>3, <2>4
  <2>6. IF Writing(x) THEN Base(x) # Absent ELSE View = registry[x]
    BY <1>4, <1>6, <2>4, <2>5
  <2>7. /\ Base(x)' = Absent <=> Base(x) = Absent
        /\ registry'[x] = registry[x] => Base(x)' = Base(x)
    BY <1>1, <2>4, BaseKept
  <2>8. PICK b : b = After(Base(x)', x, queue')
    OBVIOUS
  <2>9. After(b, x, Coming') = Shown(After(b, x, Coming), m, x)
    BY <1>2, <2>3, <2>5, AfterAppend
  <2>10. CASE x = e
    <3>1. Base(x)' # Absent
      BY <2>1, <2>6, <2>7, <2>10 DEF Writing
    <3>2. b # Absent /\ After(b, x, Coming) # Absent
      BY <1>2, <2>4, <2>8, <3>1, EventsKeep
    <3>3. After(b, x, Coming') = <<v, v>>
      BY <2>3, <2>9, <2>10, <3>2, EventShown
    <3>4. registry[e][1] = v
      BY <1>1, <2>1 DEF ShapeInv, Halfway
    <3>5. registry'[x] = <<v, v>>
      BY <1>1, <2>4, <2>10, <3>4 DEF TypesOK
    <3>. QED BY <2>5, <2>8, <3>3, <3>5
  <2>11. CASE x # e
    <3>1. registry'[x] = registry[x] /\ ~Writing(x)
      BY <1>1, <2>1, <2>4, <2>11 DEF TypesOK, Writing
    <3>2. After(b, x, Coming) = registry[x]
      BY <2>4, <2>6, <2>7, <2>8, <3>1 DEF View
    <3>3. After(b, x, Coming') = registry[x]
      BY <2>3, <2>9, <2>11, <3>2, EventShown
    <3>. QED BY <2>5, <2>8, <3>1, <3>3
  <2>. QED BY <2>10, <2>11
<1>10. CASE Flap
  <2>1. /\ paho.at = "idle" /\ paho' = Emit(Status) /\ registry' = registry
        /\ UNCHANGED <<calls, queue, ws, wire, page, missed>>
    BY <1>10 DEF Flap, Idle, channel
  <2>2. Coming' = Append(Coming, Status) /\ NoEntered(Coming) /\ ~Writing(x)'
    BY <1>3, <1>4, <2>1, EventTypes
  <2>3. View = registry[x]
    BY <1>4, <1>6, <2>1, <2>2 DEF Writing
  <2>4. Base(x)' = Base(x)
    BY <1>1, <2>1, BaseKept
  <2>5. PICK b : b = After(Base(x), x, queue)
    OBVIOUS
  <2>6. After(b, x, Coming') = Shown(After(b, x, Coming), Status, x)
    BY <1>2, <2>2, EventTypes, AfterAppend
  <2>7. Status \notin StateEvents
    BY DEF Status, StateEvents
  <2>8. After(b, x, Coming') = registry[x]
    BY <2>3, <2>5, <2>6, <2>7, EventTypes, EventShown DEF View
  <2>. QED BY <2>1, <2>2, <2>4, <2>5, <2>8
<1>11. CASE Publish
  <2>1. /\ paho.at = "emit" /\ paho'.at = "idle" /\ calls' = Append(calls, paho.event)
        /\ registry' = registry /\ UNCHANGED <<queue, ws, wire, page, missed>>
    BY <1>11 DEF Publish, Idle
  <2>2. Coming' = Coming
    BY <1>1, <2>1, ComingType, ComingTypeNext
  <2>3. ~Writing(x) /\ ~Writing(x)'
    BY <2>1 DEF Writing
  <2>4. View = registry[x]
    BY <1>4, <1>6, <2>1, <2>2, <2>3
  <2>5. Base(x)' = Base(x)
    BY <1>1, <2>1, BaseKept
  <2>. QED BY <2>1, <2>2, <2>3, <2>4, <2>5 DEF View
<1>. QED BY <1>7, <1>8, <1>9, <1>10, <1>11

(* A snapshot that begins will say what the registry says.                 *)
LEMMA BaseFresh ==
  ASSUME ShapeInv, NEW e \in Entities
  PROVE  ReadOf(Building, registry, e) = registry[e]
<1>1. TypesOK
  BY DEF ShapeInv
<1>2. /\ Building.list[e] = Absent <=> registry[e] = Absent
      /\ registry[e] # Absent => \A i \in Attributes : <<e, i>> \in Building.todo
  BY <1>1, BuildingType
<1>3. CASE registry[e] = Absent
  BY <1>2, <1>3 DEF ReadOf
<1>4. CASE registry[e] # Absent
  <2>1. registry[e] \in Pairs
    BY <1>1, <1>4 DEF TypesOK, PageViews
  <2>2. ReadOf(Building, registry, e) = [i \in Attributes |-> registry[e][i]]
    BY <1>2, <1>4 DEF ReadOf
  <2>. QED BY <2>1, <2>2 DEF Pairs
<1>. QED BY <1>3, <1>4

(* An attribute that is read says what the registry says of it.            *)
LEMMA BaseRead ==
  ASSUME ShapeInv, ReadCell, NEW x \in Entities
  PROVE  Base(x)' = Base(x)
<1>1. /\ ws.at = "snap" /\ ws \in BuildingStates /\ ws' \in BuildingStates
      /\ registry' = registry
  BY ReadType
<1>2. PICK e \in Entities, i \in Attributes :
        /\ <<e, i>> \in ws.todo /\ ws.list[e] \in Pairs /\ registry[e] \in Pairs
        /\ ws'.todo = ws.todo \ {<<e, i>>}
        /\ ws'.list = [ws.list EXCEPT ![e] = [ws.list[e] EXCEPT ![i] = registry[e][i]]]
  BY ReadType
<1>3. Base(x)' = ReadOf(ws', registry, x) /\ Base(x) = ReadOf(ws, registry, x)
  BY <1>1 DEF Base, BuildingStates
<1>4. CASE x # e
  <2>1. ws'.list[x] = ws.list[x]
    BY <1>1, <1>2, <1>4 DEF BuildingStates
  <2>2. \A j \in Attributes : <<x, j>> \in ws'.todo <=> <<x, j>> \in ws.todo
    BY <1>2, <1>4
  <2>3. ReadOf(ws', registry, x) = ReadOf(ws, registry, x)
    BY <2>1, <2>2 DEF ReadOf
  <2>. QED BY <1>3, <2>3
<1>5. CASE x = e
  <2>1. PICK p : p = [ws.list[e] EXCEPT ![i] = registry[e][i]]
    OBVIOUS
  <2>2. p \in Pairs
    BY <1>2, <2>1 DEF Pairs
  <2>3. ws'.list[x] = p
    BY <1>1, <1>2, <1>5, <2>1 DEF BuildingStates
  <2>4. ws'.list[x] # Absent /\ ws.list[x] # Absent
    BY <1>2, <1>5, <2>2, <2>3, PairType
  <2>5. ASSUME NEW j \in Attributes
        PROVE  (IF <<x, j>> \in ws'.todo THEN registry[x][j] ELSE ws'.list[x][j])
                 = (IF <<x, j>> \in ws.todo THEN registry[x][j] ELSE ws.list[x][j])
    <3>1. CASE j = i
      <4>1. <<x, j>> \in ws.todo /\ <<x, j>> \notin ws'.todo
        BY <1>2, <1>5, <3>1
      <4>2. p[j] = registry[x][j]
        BY <1>2, <1>5, <2>1, <3>1 DEF Pairs
      <4>. QED BY <2>3, <4>1, <4>2
    <3>2. CASE j # i
      <4>1. <<x, j>> \in ws'.todo <=> <<x, j>> \in ws.todo
        BY <1>2, <3>2
      <4>2. p[j] = ws.list[x][j]
        BY <1>2, <1>5, <2>1, <3>2 DEF Pairs
      <4>. QED BY <2>3, <4>1, <4>2
    <3>. QED BY <3>1, <3>2
  <2>6. ReadOf(ws', registry, x) = ReadOf(ws, registry, x)
    BY <2>4, <2>5 DEF ReadOf
  <2>. QED BY <1>3, <2>6
<1>. QED BY <1>4, <1>5

(* A finished snapshot is sent as it was read.                             *)
LEMMA BaseDone ==
  ASSUME ShapeInv, SnapshotDone, NEW x \in Entities
  PROVE  Base(x)' = Base(x)
<1>1. ws.at = "snap" /\ ws.todo = {} /\ ws \in BuildingStates
  BY DEF ShapeInv, TypesOK, SnapshotDone, Connections
<1>2. PICK m : m = [type |-> "snapshot", list |-> ws.list, mqtt |-> ws.mqtt]
  OBVIOUS
<1>3. ws' = [at |-> "send", msg |-> m] /\ wire' = wire /\ page' = page
  BY <1>2 DEF SnapshotDone
<1>4. Base(x)' = After(After(page.ents[x], x, wire), x, <<m>>)
  BY <1>3 DEF Base, Sending
<1>5. Base(x)' = ws.list[x]
  <2>1. PICK b : b = After(page.ents[x], x, wire)
    OBVIOUS
  <2>2. Shown(b, m, x) = ws.list[x]
    BY <1>2 DEF Shown
  <2>3. Base(x)' = Shown(b, m, x)
    BY <1>4, <2>1, AfterOne
  <2>. QED BY <2>2, <2>3
<1>6. Base(x) = ReadOf(ws, registry, x)
  BY <1>1 DEF Base
<1>7. ReadOf(ws, registry, x) = ws.list[x]
  <2>1. CASE ws.list[x] = Absent
    BY <2>1 DEF ReadOf
  <2>2. CASE ws.list[x] # Absent
    <3>1. ws.list[x] \in Pairs
      BY <1>1, <2>2 DEF BuildingStates, PageViews
    <3>2. ReadOf(ws, registry, x) = [i \in Attributes |-> ws.list[x][i]]
      BY <1>1, <2>2 DEF ReadOf
    <3>. QED BY <3>1, <3>2 DEF Pairs
  <2>. QED BY <2>1, <2>2
<1>. QED BY <1>5, <1>6, <1>7

(* A message that is sent, or that the page shows, is still in the view.   *)
LEMMA BaseSend ==
  ASSUME ShapeInv, Send, NEW x \in Entities
  PROVE  Base(x)' = Base(x)
<1>1. ws.at = "send" /\ ws' = [at |-> "wait"] /\ wire' = Append(wire, ws.msg) /\ page' = page
  BY DEF Send
<1>2. ws.msg \in Messages /\ wire \in Seq(Messages)
  BY <1>1 DEF ShapeInv, TypesOK, Connections, BuildingStates
<1>3. PICK b : b = page.ents[x]
  OBVIOUS
<1>4. Base(x) = After(After(b, x, wire), x, <<ws.msg>>)
  BY <1>1, <1>3 DEF Base, Sending
<1>5. Base(x) = Shown(After(b, x, wire), ws.msg, x)
  BY <1>4, AfterOne
<1>6. Base(x)' = After(After(b, x, wire'), x, <<>>)
  BY <1>1, <1>3 DEF Base, Sending
<1>7. Base(x)' = After(b, x, wire')
  BY <1>6, AfterNone
<1>8. After(b, x, Append(wire, ws.msg)) = Shown(After(b, x, wire), ws.msg, x)
  BY <1>2, AfterAppend
<1>. QED BY <1>1, <1>5, <1>7, <1>8

LEMMA BaseReceive ==
  ASSUME ShapeInv, Receive, NEW x \in Entities
  PROVE  Base(x)' = Base(x)
<1>1. wire # <<>> /\ wire' = Tail(wire) /\ ws' = ws /\ registry' = registry
  BY DEF Receive, server
<1>2. wire \in Seq(Messages)
  BY DEF ShapeInv, TypesOK
<1>3. page'.ents[x] = Shown(page.ents[x], Head(wire), x)
  BY DEF Receive
<1>4. After(page.ents[x], x, wire) = After(page'.ents[x], x, wire')
  BY <1>1, <1>2, <1>3, AfterHead
<1>5. CASE ws.at = "snap"
  BY <1>1, <1>5 DEF Base
<1>6. CASE ws.at # "snap"
  BY <1>1, <1>4, <1>6 DEF Base, Sending
<1>. QED BY <1>5, <1>6

LEMMA ArrivedLoop ==
  ASSUME LiveInv, ShapeInv',
         \/ FanOut \/ Accept \/ ReadCell \/ SnapshotDone \/ TakeEvent \/ Wake \/ Send \/ Lose
         \/ Receive
  PROVE  \A e \in Entities : Arrived(e)'
<1>1. ShapeInv /\ TypesOK /\ TypesOK'
  BY DEF LiveInv, ShapeInv
<1>2. registry' = registry /\ paho' = paho
  BY DEF FanOut, Accept, ReadCell, SnapshotDone, TakeEvent, Wake, Send, Lose, Receive, server
<1>3. SUFFICES ASSUME NEW x \in Entities,
                      ~missed', ws'.at \notin {"none", "sleep"}, NoEntered(queue'), NoEntered(Coming')
               PROVE  IF Writing(x) THEN Base(x)' # Absent
                      ELSE After(After(Base(x)', x, queue'), x, Coming') = registry[x]
  BY <1>2 DEF Arrived, Writing
<1>4. ~missed /\ ws.at \notin {"none", "sleep"} /\ NoEntered(queue) /\ NoEntered(Coming) =>
        IF Writing(x) THEN Base(x) # Absent
        ELSE After(After(Base(x), x, queue), x, Coming) = registry[x]
  BY DEF LiveInv, Arrived
<1>5. queue \in Seq(Events) /\ Coming' \in Seq(Events) /\ calls \in Seq(Events)
  BY <1>1, ComingTypeNext DEF TypesOK
<1>6. ASSUME calls' = calls PROVE Coming' = Coming
  BY <1>2, <1>6 DEF Coming, Emitting
<1>7. CASE FanOut
  <2>1. /\ calls # <<>> /\ calls' = Tail(calls) /\ ws' = ws /\ wire' = wire /\ page' = page
        /\ queue' = Append(queue, Head(calls)) /\ missed' = missed
    BY <1>3, <1>7 DEF FanOut
  <2>2. Coming = <<Head(calls)>> \o Coming' /\ Head(calls) \in Events
    BY <1>1, <1>2, <2>1, ComingFans
  <2>3. PICK h \in Events, o \in Seq(Events), c \in Seq(Events) :
          h = Head(calls) /\ o = <<h>> /\ c = Coming'
    <3>1. <<Head(calls)>> \in Seq(Events)
      BY <2>2
    <3>. QED BY <1>5, <2>2, <3>1
  <2>4. queue' = queue \o o /\ Coming = o \o c
    BY <1>5, <2>1, <2>2, <2>3, AppendIsConcat
  <2>5. NoEntered(queue) /\ NoEntered(o) /\ NoEntered(c)
    <3>1. NoEntered(queue \o o) /\ NoEntered(c)
      BY <1>3, <2>3, <2>4
    <3>. QED BY <1>5, <3>1, NoEnteredBoth
  <2>6. NoEntered(Coming)
    <3>1. NoEntered(o \o c)
      BY <2>5, NoEnteredBoth
    <3>. QED BY <2>4, <3>1
  <2>7. Base(x)' = Base(x)
    BY <1>1, <1>2, <1>3, <2>1, BaseKept
  <2>8. PICK b, v : b = Base(x) /\ v = After(b, x, queue)
    OBVIOUS
  <2>9. After(b, x, queue \o o) = After(v, x, o)
    BY <1>5, <2>8, AfterBoth
  <2>10. After(v, x, o \o c) = After(After(v, x, o), x, c)
    BY AfterBoth
  <2>11. After(After(b, x, queue'), x, c) = After(v, x, Coming)
    BY <2>4, <2>9, <2>10
  <2>. QED BY <1>3, <1>4, <2>1, <2>3, <2>5, <2>6, <2>7, <2>8, <2>11
<1>8. CASE Accept \/ Wake
  <2>1. queue' = <<>> /\ ws' = Building /\ calls' = calls
    BY <1>8 DEF Accept, Wake
  <2>2. Coming' = Coming
    BY <1>6, <2>1
  <2>3. Base(x)' = registry[x]
    <3>1. Building.at = "snap"
      BY DEF Building
    <3>2. Base(x)' = ReadOf(Building, registry, x)
      BY <1>2, <2>1, <3>1 DEF Base
    <3>. QED BY <1>1, <3>2, BaseFresh
  <2>4. CASE Writing(x)
    BY <1>1, <2>3, <2>4 DEF ShapeInv, Halfway, Writing
  <2>5. CASE ~Writing(x)
    <3>1. Latest(registry[x], x, Coming)
      BY <2>5 DEF LiveInv, Sound
    <3>2. PICK c \in Seq(Events) : c = Coming
      BY <1>5, <2>2
    <3>3. PICK n : n = <<>>
      OBVIOUS
    <3>4. n \in Seq(Events) /\ c = n \o c
      BY <3>3, ConcatEmptySeq
    <3>5. After(registry[x], x, c) = registry[x]
      BY <1>3, <2>2, <3>1, <3>2, <3>4 DEF Latest
    <3>6. After(registry[x], x, queue') = registry[x]
      BY <2>1, AfterNone
    <3>. QED BY <2>2, <2>3, <2>5, <3>2, <3>5, <3>6
  <2>. QED BY <2>4, <2>5
<1>9. CASE ReadCell \/ SnapshotDone \/ Send \/ Receive
  <2>1. /\ calls' = calls /\ queue' = queue /\ missed' = missed
        /\ ws.at \notin {"none", "sleep"}
    BY <1>3, <1>9 DEF ReadCell, SnapshotDone, Send, Receive
  <2>2. Base(x)' = Base(x)
    BY <1>1, <1>9, BaseRead, BaseDone, BaseSend, BaseReceive
  <2>3. Coming' = Coming
    BY <1>6, <2>1
  <2>. QED BY <1>3, <1>4, <2>1, <2>2, <2>3
<1>10. CASE TakeEvent
  <2>1. /\ ws.at = "wait" /\ queue # <<>> /\ calls' = calls /\ missed' = missed
        /\ wire' = wire /\ page' = page
    BY <1>10 DEF TakeEvent
  <2>2. /\ Head(queue) \in Events /\ queue' = Tail(queue) /\ queue' \in Seq(Events)
        /\ ws'.at = "send" /\ Head(queue) # Entered
        /\ \/ Head(queue) = Status /\ ws'.msg.type = "status"
           \/ Head(queue) \in StateEvents /\ ws'.msg = Head(queue)
    <3>1. \A m \in StateEvents : m # Entered
      BY DEF StateEvents, Entered
    <3>2. Status # Entered
      BY DEF Status, Entered
    <3>. QED BY <1>1, <1>3, <1>10, <3>1, <3>2, TakenType
  <2>3. PICK h \in Events, o \in Seq(Events), t \in Seq(Events) :
          h = Head(queue) /\ o = <<h>> /\ t = queue' /\ queue = o \o t
    <3>1. <<Head(queue)>> \in Seq(Events)
      BY <2>2
    <3>2. queue = <<Head(queue)>> \o Tail(queue)
      BY <1>5, <2>1, HeadTailJoin
    <3>. QED BY <2>2, <3>1, <3>2
  <2>4. NoEntered(queue)
    <3>1. NoEntered(o)
      BY <2>2, <2>3, NoEnteredOne
    <3>2. NoEntered(t)
      BY <1>3, <2>3
    <3>3. NoEntered(o \o t)
      BY <3>1, <3>2, NoEnteredBoth
    <3>. QED BY <2>3, <3>3
  <2>5. PICK b : b = After(page.ents[x], x, wire)
    OBVIOUS
  <2>6. Base(x) = b
    <3>1. Base(x) = After(b, x, <<>>)
      BY <2>1, <2>5 DEF Base, Sending
    <3>. QED BY <3>1, AfterNone
  <2>7. Base(x)' = Shown(b, h, x)
    <3>1. Base(x)' = After(b, x, <<ws'.msg>>)
      BY <2>1, <2>2, <2>5 DEF Base, Sending
    <3>2. Base(x)' = Shown(b, ws'.msg, x)
      BY <3>1, AfterOne
    <3>3. CASE h \in StateEvents
      <4>1. h # Status
        BY <3>3 DEF StateEvents, Status
      <4>. QED BY <2>2, <2>3, <3>2, <4>1
    <3>4. CASE h \notin StateEvents
      <4>1. ws'.msg.type = "status"
        BY <2>2, <2>3, <3>4
      <4>2. Shown(b, ws'.msg, x) = b
        BY <4>1 DEF Shown
      <4>3. Shown(b, h, x) = b
        BY <3>4, EventShown
      <4>. QED BY <3>2, <4>2, <4>3
    <3>. QED BY <3>3, <3>4
  <2>8. After(b, x, queue) = After(Base(x)', x, queue')
    <3>1. After(b, x, o \o t) = After(After(b, x, o), x, t)
      BY AfterBoth
    <3>2. After(b, x, o) = Shown(b, h, x)
      BY <2>3, AfterOne
    <3>. QED BY <2>3, <2>7, <3>1, <3>2
  <2>9. Coming' = Coming
    BY <1>6, <2>1
  <2>10. IF Writing(x) THEN b # Absent ELSE After(After(b, x, queue), x, Coming) = registry[x]
    BY <1>3, <1>4, <2>1, <2>4, <2>6, <2>9
  <2>11. Base(x)' = Absent <=> b = Absent
    BY <2>7, EventShown
  <2>. QED BY <2>8, <2>9, <2>10, <2>11
<1>11. CASE Lose
  BY <1>3, <1>11 DEF Lose
<1>. QED BY <1>7, <1>8, <1>9, <1>10, <1>11

LEMMA LiveInit == Init => LiveInv
<1>. SUFFICES ASSUME Init PROVE LiveInv
  OBVIOUS
<1>1. ShapeInv /\ TypesOK
  BY ShapeInit DEF ShapeInv
<1>2. ws.at = "none" /\ paho.at = "idle" /\ calls = <<>> /\ registry = [e \in Entities |-> Absent]
  BY DEF Init, Idle
<1>3. Coming = <<>>
  BY <1>1, <1>2, ComingType
<1>4. ASSUME NEW e \in Entities PROVE Sound(e) /\ Arrived(e)
  <2>1. registry[e] = Absent
    BY <1>2
  <2>2. ASSUME NEW t \in Seq(Events) PROVE After(registry[e], e, t) = registry[e]
    BY <2>1, EventsKeep
  <2>. QED BY <1>2, <2>2 DEF Sound, Latest, Arrived
<1>. QED BY <1>1, <1>4 DEF LiveInv

LEMMA LiveStep == LiveInv /\ [Next]_vars => LiveInv'
<1>. SUFFICES ASSUME LiveInv, [Next]_vars PROVE LiveInv'
  OBVIOUS
<1>1. ShapeInv /\ \A e \in Entities : Sound(e)
  BY DEF LiveInv
<1>2. CASE \/ \E e \in Entities : \/ HandleDiscovery(e) \/ HandleRemoval(e)
                                  \/ \E v \in Values : HandleState(e, v)
           \/ WriteText \/ Flap \/ Publish
  <2>1. ShapeInv'
    BY <1>1, <1>2, ShapePaho
  <2>2. (\A e \in Entities : Sound(e)') /\ \A e \in Entities : Arrived(e)'
    BY <1>1, <1>2, <2>1, SoundPaho, ArrivedPaho
  <2>. QED BY <2>1, <2>2 DEF LiveInv
<1>3. CASE FanOut \/ Accept \/ ReadCell \/ SnapshotDone \/ TakeEvent \/ Wake \/ Send \/ Lose
  <2>1. ShapeInv'
    BY <1>1, <1>3, ShapeLoop
  <2>2. (\A e \in Entities : Sound(e)') /\ \A e \in Entities : Arrived(e)'
    BY <1>1, <1>3, <2>1, SoundLoop, ArrivedLoop
  <2>. QED BY <2>1, <2>2 DEF LiveInv
<1>4. CASE Receive
  <2>1. ShapeInv'
    BY <1>1, <1>4, ShapeReceive
  <2>2. (\A e \in Entities : Sound(e)') /\ \A e \in Entities : Arrived(e)'
    BY <1>1, <1>4, <2>1, SoundLoop, ArrivedLoop
  <2>. QED BY <2>1, <2>2 DEF LiveInv
<1>5. CASE UNCHANGED vars
  <2>1. UNCHANGED <<registry, mqtt, paho, calls, queue, ws, wire, page, missed>>
    BY <1>5 DEF vars
  <2>. QED
    BY <2>1 DEF LiveInv, ShapeInv, TypesOK, Reading, Halfway, Sound, Arrived, Writing, Coming,
                Emitting, Base, Sending
<1>. QED BY <1>2, <1>3, <1>4, <1>5 DEF Next

(* What the invariant says of everything on its way.                       *)
LEMMA LiveMeans == LiveInv => LastWordIsCurrent
<1>1. SUFFICES ASSUME LiveInv, NEW e \in Entities, ~missed, ~SnapshotAhead, ~Writing(e)
               PROVE  Arriving(e) = registry[e]
  BY DEF LastWordIsCurrent, Writing
<1>2. TypesOK
  BY <1>1 DEF LiveInv, ShapeInv
<1>3. PICK c \in Seq(Events), q \in Seq(Events), o \in Seq(Events) :
        c = calls /\ q = queue /\ o = Emitting
  <2>1. paho.at = "emit" => paho.event \in Events
    BY <1>2 DEF TypesOK, Callbacks, Idle
  <2>2. Emitting \in Seq(Events)
    BY <2>1 DEF Emitting
  <2>. QED BY <1>2, <2>2 DEF TypesOK
<1>4. Waiting = (q \o c) \o o /\ Coming = c \o o
  BY <1>3 DEF Waiting, Coming
<1>5. (q \o c) \o o = q \o (c \o o) /\ c \o o \in Seq(Events)
  <2>1. (q \o c) \o o = q \o (c \o o)
    BY ONLY q \in Seq(Events), c \in Seq(Events), o \in Seq(Events), ConcatAssociative
  <2>. QED BY <2>1, ConcatProperties
<1>6. PICK w \in Seq(Events) : w = c \o o
  BY <1>5
<1>7. ws.at \notin {"none", "sleep"} /\ NoEntered(q \o w)
  BY <1>1, <1>4, <1>5, <1>6 DEF SnapshotAhead, NoEntered
<1>8. NoEntered(q) /\ NoEntered(w)
  BY <1>7, NoEnteredBoth
<1>9. PICK b : b = Base(e)
  OBVIOUS
<1>10. After(After(b, e, q), e, w) = registry[e]
  BY <1>1, <1>3, <1>4, <1>6, <1>7, <1>8, <1>9 DEF LiveInv, Arrived
<1>11. After(b, e, q \o w) = After(After(b, e, q), e, w)
  BY AfterBoth
<1>12. Arriving(e) = After(b, e, Waiting)
  <2>1. CASE ws.at = "snap"
    BY <1>9, <2>1 DEF Arriving, Base, ReadOf
  <2>2. CASE ws.at # "snap"
    <3>1. PICK u \in Seq(Messages), s \in Seq(Messages) : u = wire /\ s = Sending
      <4>1. ws.at = "send" => ws.msg \in Messages
        BY <1>2 DEF TypesOK, Connections, BuildingStates
      <4>2. Sending \in Seq(Messages)
        BY <4>1 DEF Sending
      <4>. QED BY <1>2, <4>2 DEF TypesOK
    <3>2. After(page.ents[e], e, u \o s) = After(After(page.ents[e], e, u), e, s)
      BY AfterBoth
    <3>. QED BY <1>9, <2>2, <3>1, <3>2 DEF Arriving, Base
  <2>. QED BY <2>1, <2>2
<1>. QED BY <1>4, <1>5, <1>6, <1>10, <1>11, <1>12

(* Whatever the order in which snapshots and events overlap, the page gets *)
(* the registry's last word on every entity, whole (mqtt_bridge.py:179,    *)
(* app.py:40, app.py:181, app.py:190).                                     *)
THEOREM LastWordKept == Spec => []LastWordIsCurrent
<1>1. Spec => []LiveInv
  BY LiveInit, LiveStep, PTL DEF Spec
<1>. QED BY <1>1, LiveMeans, PTL

=============================================================================
