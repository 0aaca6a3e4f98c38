-------------------------- MODULE WebControls_proofs --------------------------
(***************************************************************************)
(* Proofs about the number stepper, for any number entities and any number *)
(* of clicks, reports, failures and requests that overtake each other.     *)
(***************************************************************************)
EXTENDS WebControls, SequenceTheorems, TLAPS

(* A click on the stepper of entity e: what it asks for is in e's range.   *)
ClicksOf(e) == [id : Nat, val : {v \in Int : Accepted(e, v)}]

TypesOK ==
  /\ entity \in Entities
  /\ register \in Int /\ value \in Int \cup {None}
  /\ pending \in ClicksOf(entity) \cup {None}
  /\ timers \in Seq(ClicksOf(entity)) /\ posts \in Seq(ClicksOf(entity))
  /\ expiries \subseteq Nat
  /\ commands \in Seq(Int) /\ reports \in Seq(Int)
  /\ early \in BOOLEAN
  /\ budget \in [clicks : Nat, failures : Int, reorders : Int]

(* A later click has a smaller number: those under way are above what is   *)
(* left of the bound.                                                      *)
Older ==
  /\ \A i \in DOMAIN timers : timers[i].id > budget.clicks
  /\ \A i \in DOMAIN posts : posts[i].id > budget.clicks
  /\ \A id \in expiries : id > budget.clicks

(* Until a report confirms a click before its timer fired, the only timer  *)
(* is that of the pending click, whose request has not been sent.          *)
TimerIsPending ==
  ~early =>
    \/ timers = <<>>
    \/ /\ pending # None /\ timers = <<pending>>
       /\ \A i \in DOMAIN posts : posts[i].id # pending.id
       /\ pending.id \notin expiries

StepperInv == TypesOK /\ Older /\ TimerIsPending

-----------------------------------------------------------------------------
(* Numbers.                                                                *)

LEMMA Units == Micro \in Nat \ {0} /\ Cent \in Nat \ {0}
BY DEF Micro, Cent

LEMMA RoundType ==
  ASSUME NEW n \in Int, NEW dd \in Nat \ {0}
  PROVE  Round(n, dd) \in Int
<1>1. n \div dd \in Int
  OBVIOUS
<1>. QED BY <1>1 DEF Round

LEMMA EntityType ==
  ASSUME NEW e \in Entities
  PROVE  /\ e.num \in Nat \ {0} /\ e.den \in Nat \ {0}
         /\ e.cnum \in Nat \ {0} /\ e.cden \in Nat \ {0} /\ e.step \in Nat \ {0}
         /\ e.unit \in Nat \ {0} /\ e.toInt \in BOOLEAN
         /\ e.min \in Int /\ e.max \in Int /\ e.min <= e.max /\ e.raws \subseteq Int
BY ControlsAssumption

LEMMA ShownType ==
  ASSUME NEW e \in Entities, NEW raw \in Int
  PROVE  Shown(e, raw) \in Int
<1>1. e.num \in Nat /\ e.den \in Nat \ {0} /\ Micro \in Nat
  BY EntityType, Units
<1>2. raw * e.num \in Int
  BY <1>1
<1>3. (raw * e.num) * Micro \in Int
  BY <1>1, <1>2
<1>. QED BY <1>1, <1>3, RoundType DEF Shown

LEMMA PayloadType ==
  ASSUME NEW e \in Entities, NEW v \in Int
  PROVE  Payload(e, v) \in Int
<1>1. e.cnum \in Nat /\ e.cden \in Nat \ {0} /\ Micro \in Nat \ {0}
  BY EntityType, Units
<1> DEFINE n == v * e.cnum
<1> DEFINE dd == e.cden * Micro
<1>2. n \in Int /\ dd \in Nat \ {0}
  BY <1>1
<1>3. Payload(e, v) = IF e.toInt THEN n \div dd ELSE Round(n, dd)
  BY DEF Payload
<1> HIDE DEF n, dd
<1>4. n \div dd \in Int /\ Round(n, dd) \in Int
  BY <1>2, RoundType
<1>. QED BY <1>3, <1>4

LEMMA NextNumberType ==
  ASSUME NEW e \in Entities, NEW current \in Int, NEW dir \in {-1, 1}
  PROVE  NextNumber(e, current, dir) \in Int /\ Accepted(e, NextNumber(e, current, dir))
<1>1. e.step \in Int /\ e.min \in Int /\ e.max \in Int /\ e.min <= e.max /\ Cent \in Nat \ {0}
  BY EntityType, Units
<1> DEFINE x == current + dir * e.step + Cent \div 2
<1>2. x \in Int
  BY <1>1
<1> HIDE DEF x
<1>3. (x \div Cent) \in Int
  BY <1>1, <1>2
<1>4. (x \div Cent) * Cent \in Int
  BY <1>1, <1>3
<1>. QED BY <1>1, <1>4 DEF NextNumber, Least, Greatest, Accepted, x

-----------------------------------------------------------------------------
(* Sequences.                                                              *)

(* What is left without element i, each element with its old place.        *)
LEMMA WithoutElement ==
  ASSUME NEW S, NEW seq \in Seq(S), NEW i \in DOMAIN seq
  PROVE  /\ Without(seq, i) \in Seq(S)
         /\ \A j \in DOMAIN Without(seq, i) : \E k \in DOMAIN seq : Without(seq, i)[j] = seq[k]
         /\ Len(seq) = 1 => Without(seq, i) = <<>>
<1>1. Len(seq) \in Nat /\ DOMAIN seq = 1 .. Len(seq) /\ i \in 1 .. Len(seq)
  BY LenProperties
<1> DEFINE a == SubSeq(seq, 1, i - 1)
<1> DEFINE b == SubSeq(seq, i + 1, Len(seq))
<1>2. /\ a \in Seq(S) /\ Len(a) = i - 1
      /\ \A j \in 1 .. Len(a) : a[j] = seq[j]
  BY <1>1, SubSeqProperties
<1>3. /\ b \in Seq(S) /\ Len(b) = Len(seq) - i
      /\ \A j \in 1 .. Len(b) : b[j] = seq[i + j]
  BY <1>1, SubSeqProperties
<1> HIDE DEF a, b
<1>4. /\ a \o b \in Seq(S) /\ Len(a \o b) = Len(seq) - 1
      /\ \A j \in 1 .. Len(a \o b) :
           (a \o b)[j] = IF j <= Len(a) THEN a[j] ELSE b[j - Len(a)]
  <2>1. a \o b \in Seq(S) /\ Len(a \o b) = Len(a) + Len(b)
    BY <1>2, <1>3, ConcatProperties
  <2>2. \A j \in 1 .. Len(a) + Len(b) :
          (a \o b)[j] = IF j <= Len(a) THEN a[j] ELSE b[j - Len(a)]
    BY <1>2, <1>3, ConcatProperties
  <2>3. Len(a) + Len(b) = Len(seq) - 1
    BY <1>1, <1>2, <1>3
  <2>. QED BY <2>1, <2>2, <2>3
<1>5. Without(seq, i) = a \o b
  BY DEF Without, a, b
<1>6. ASSUME NEW j \in 1 .. Len(a \o b)
      PROVE  \E k \in 1 .. Len(seq) : (a \o b)[j] = seq[k]
  <2>1. CASE j <= Len(a)
    BY <1>1, <1>2, <1>4, <2>1
  <2>2. CASE j > Len(a)
    <3>1. j - Len(a) \in 1 .. Len(b)
      BY <1>1, <1>2, <1>3, <1>4, <2>2
    <3>2. (a \o b)[j] = seq[i + (j - Len(a))]
      BY <1>1, <1>2, <1>3, <1>4, <2>2, <3>1
    <3>3. i + (j - Len(a)) \in 1 .. Len(seq)
      BY <1>1, <1>2, <1>3, <3>1
    <3>. QED BY <3>2, <3>3
  <2>. QED BY <1>1, <1>2, <2>1, <2>2
<1>7. DOMAIN (a \o b) = 1 .. Len(a \o b)
  BY <1>4, LenProperties
<1>8. Len(seq) = 1 => a \o b = <<>>
  BY <1>4, EmptySeq
<1>. QED BY <1>1, <1>4, <1>5, <1>6, <1>7, <1>8

LEMMA TailElements ==
  ASSUME NEW S, NEW seq \in Seq(S), seq # <<>>
  PROVE  /\ Head(seq) \in S /\ Head(seq) = seq[1] /\ 1 \in DOMAIN seq
         /\ Tail(seq) \in Seq(S)
         /\ \A j \in DOMAIN Tail(seq) : \E k \in DOMAIN seq : Tail(seq)[j] = seq[k]
<1>1. Len(seq) \in Nat \ {0} /\ DOMAIN seq = 1 .. Len(seq)
  BY LenProperties, EmptySeq
<1>2. /\ Head(seq) \in S /\ Tail(seq) \in Seq(S) /\ Len(Tail(seq)) = Len(seq) - 1
      /\ \A j \in 1 .. Len(Tail(seq)) : Tail(seq)[j] = seq[j + 1]
  BY HeadTailProperties
<1>3. DOMAIN Tail(seq) = 1 .. Len(Tail(seq))
  BY <1>2, LenProperties
<1>4. \A j \in 1 .. Len(Tail(seq)) : j + 1 \in 1 .. Len(seq)
  BY <1>1, <1>2
<1>5. Head(seq) = seq[1] /\ 1 \in 1 .. Len(seq)
  BY <1>1
<1>. QED BY <1>1, <1>2, <1>3, <1>4, <1>5

LEMMA AppendElements ==
  ASSUME NEW S, NEW seq \in Seq(S), NEW x \in S
  PROVE  /\ Append(seq, x) \in Seq(S)
         /\ \A j \in DOMAIN Append(seq, x) :
              Append(seq, x)[j] = x \/ (j \in DOMAIN seq /\ Append(seq, x)[j] = seq[j])
         /\ seq = <<>> => Append(seq, x) = <<x>>
<1>1. /\ Append(seq, x) \in Seq(S) /\ Len(Append(seq, x)) = Len(seq) + 1
      /\ \A j \in 1 .. Len(seq) : Append(seq, x)[j] = seq[j]
      /\ Append(seq, x)[Len(seq) + 1] = x
  BY AppendProperties
<1>2. Len(seq) \in Nat /\ DOMAIN seq = 1 .. Len(seq)
        /\ DOMAIN Append(seq, x) = 1 .. Len(seq) + 1
  BY <1>1, LenProperties
<1>3. \A j \in 1 .. Len(seq) + 1 : j \in 1 .. Len(seq) \/ j = Len(seq) + 1
  BY <1>2
<1>4. seq = <<>> => Append(seq, x) = <<x>>
  OBVIOUS
<1>. QED BY <1>1, <1>2, <1>3, <1>4

-----------------------------------------------------------------------------
(* Steps.                                                                  *)

(* The timer of the pending click is cleared, the others run on.           *)
LEMMA RunningTimers ==
  ASSUME StepperInv
  PROVE  /\ Running \in Seq(ClicksOf(entity))
         /\ \A j \in DOMAIN Running : \E k \in DOMAIN timers : Running[j] = timers[k]
         /\ ~early => Running = <<>>
<1>. USE DEF StepperInv, TypesOK
<1> DEFINE own == {i \in DOMAIN timers : pending # None /\ timers[i].id = pending.id}
<1> DEFINE k == CHOOSE i \in own : TRUE
<1>1. Running = IF own = {} THEN timers ELSE Without(timers, k)
  BY DEF Running
<1>2. own # {} => k \in own
  OBVIOUS
<1> HIDE DEF k
<1>3. CASE own = {}
  <2>1. ASSUME ~early, timers # <<>> PROVE FALSE
    <3>1. pending # None /\ timers = <<pending>>
      BY <2>1 DEF TimerIsPending
    <3>2. 1 \in DOMAIN timers /\ timers[1] = pending
      BY <3>1
    <3>. QED BY <1>3, <3>1, <3>2
  <2>. QED BY <1>1, <1>3, <2>1
<1>4. CASE own # {}
  <2>1. k \in DOMAIN timers
    BY <1>2, <1>4
  <2>2. ~early => Len(timers) = 1
    <3>1. timers # <<>>
      BY <2>1
    <3>. QED BY <3>1 DEF TimerIsPending
  <2>3. /\ Without(timers, k) \in Seq(ClicksOf(entity))
        /\ \A j \in DOMAIN Without(timers, k) :
             \E m \in DOMAIN timers : Without(timers, k)[j] = timers[m]
        /\ Len(timers) = 1 => Without(timers, k) = <<>>
    <3>1. timers \in Seq(ClicksOf(entity))
      OBVIOUS
    <3>. QED BY ONLY <2>1, <3>1, WithoutElement
  <2>4. Running = Without(timers, k)
    BY <1>1, <1>4
  <2>. QED BY ONLY <2>2, <2>3, <2>4
<1>. QED BY <1>3, <1>4

LEMMA StepperInit == Init => StepperInv
<1>. SUFFICES ASSUME Init PROVE StepperInv
  OBVIOUS
<1>1. /\ timers = <<>> /\ posts = <<>> /\ commands = <<>> /\ reports = <<>> /\ expiries = {}
      /\ entity \in Entities /\ register \in entity.raws /\ value \in {None, Shown(entity, register)}
      /\ pending = None /\ early = FALSE
  BY DEF Init
<1>2. register \in Int
  BY <1>1, EntityType
<1>3. Shown(entity, register) \in Int
  BY <1>1, <1>2, ShownType
<1>4. budget \in [clicks : Nat, failures : Int, reorders : Int]
  BY ControlsAssumption DEF Init
<1>5. TypesOK
  BY <1>1, <1>2, <1>3, <1>4, EmptySeq DEF TypesOK
<1>. QED BY <1>1, <1>5 DEF StepperInv, Older, TimerIsPending

(* What the steps do with the bounds.                                      *)
LEMMA BudgetSpent ==
  ASSUME NEW b \in [clicks : Nat, failures : Int, reorders : Int]
  PROVE  /\ b.clicks > 0 =>
              /\ [b EXCEPT !.clicks = @ - 1] \in [clicks : Nat, failures : Int, reorders : Int]
              /\ [b EXCEPT !.clicks = @ - 1].clicks = b.clicks - 1
         /\ [b EXCEPT !.failures = @ - 1] \in [clicks : Nat, failures : Int, reorders : Int]
         /\ [b EXCEPT !.failures = @ - 1].clicks = b.clicks
         /\ \A c \in BOOLEAN :
              LET r == [b EXCEPT !.reorders = IF c THEN @ - 1 ELSE @]
              IN r \in [clicks : Nat, failures : Int, reorders : Int] /\ r.clicks = b.clicks
<1>1. b.clicks > 0 => b.clicks - 1 \in Nat
  OBVIOUS
<1>. QED BY <1>1

LEMMA ClickStepKeeps ==
  ASSUME StepperInv, NEW dir \in {-1, 1}, ClickStep(dir)
  PROVE  StepperInv'
<1>. USE DEF StepperInv, TypesOK
<1> DEFINE click == [id |-> budget.clicks, val |-> NextNumber(entity, Current, dir)]
<1>1. /\ budget.clicks > 0 /\ pending' = click /\ timers' = Append(Running, click)
      /\ budget' = [budget EXCEPT !.clicks = @ - 1]
      /\ UNCHANGED <<entity, register, value, expiries, early, posts, commands, reports>>
  BY DEF ClickStep, path
<1>2. Current \in Int
  <2>1. entity.min \in Int
    BY EntityType
  <2>. QED BY <2>1 DEF Current, ClicksOf
<1>3. click \in ClicksOf(entity) /\ click # None
  <2>1. NextNumber(entity, Current, dir) \in Int
          /\ Accepted(entity, NextNumber(entity, Current, dir))
    BY <1>2, NextNumberType
  <2>2. click \in ClicksOf(entity) /\ click \in [id : Nat, val : Int]
    BY <2>1 DEF ClicksOf
  <2>. QED BY <2>2, ControlsAssumption
<1>4. click.id = budget.clicks
  OBVIOUS
<1> HIDE DEF click
<1>5. /\ timers' \in Seq(ClicksOf(entity))
      /\ \A j \in DOMAIN timers' : timers'[j] = click \/ \E k \in DOMAIN timers : timers'[j] = timers[k]
      /\ ~early => timers' = <<click>>
  BY <1>1, <1>3, RunningTimers, AppendElements
<1>6. /\ budget' \in [clicks : Nat, failures : Int, reorders : Int]
      /\ budget'.clicks = budget.clicks - 1
  BY <1>1, BudgetSpent
<1>7. TypesOK'
  BY <1>1, <1>3, <1>5, <1>6
<1>8. Older'
  <2>1. \A n \in Nat : n > budget.clicks => n > budget'.clicks
    BY <1>6
  <2>2. click.id > budget'.clicks
    BY <1>4, <1>6
  <2>3. ASSUME NEW j \in DOMAIN timers' PROVE timers'[j].id > budget'.clicks
    <3>1. CASE timers'[j] = click
      BY <2>2, <3>1
    <3>2. ASSUME NEW k \in DOMAIN timers, timers'[j] = timers[k]
          PROVE  timers'[j].id > budget'.clicks
      <4>1. timers[k].id > budget.clicks /\ timers[k] \in ClicksOf(entity)
        BY ElementOfSeq, LenProperties DEF Older
      <4>. QED BY <2>1, <3>2, <4>1 DEF ClicksOf
    <3>. QED BY <1>5, <3>1, <3>2
  <2>4. ASSUME NEW j \in DOMAIN posts PROVE posts[j].id > budget'.clicks
    <3>1. posts[j].id > budget.clicks /\ posts[j] \in ClicksOf(entity)
      BY ElementOfSeq, LenProperties DEF Older
    <3>. QED BY <2>1, <3>1 DEF ClicksOf
  <2>5. \A id \in expiries : id > budget'.clicks
    BY <2>1 DEF Older
  <2>. QED BY <1>1, <2>3, <2>4, <2>5 DEF Older
<1>9. TimerIsPending'
  <2>1. \A j \in DOMAIN posts : posts[j].id # click.id
    BY <1>4 DEF Older
  <2>2. click.id \notin expiries
    BY <1>4 DEF Older
  <2>. QED BY <1>1, <1>3, <1>5, <2>1, <2>2 DEF TimerIsPending
<1>. QED BY <1>7, <1>8, <1>9

LEMMA FireTimerKeeps ==
  ASSUME StepperInv, FireTimer
  PROVE  StepperInv'
<1>. USE DEF StepperInv, TypesOK
<1>1. /\ timers # <<>> /\ posts' = Append(posts, Head(timers)) /\ timers' = Tail(timers)
      /\ UNCHANGED <<entity, register, value, pending, expiries, commands, reports, clicked, early, budget>>
  BY DEF FireTimer
<1>2. /\ Head(timers) \in ClicksOf(entity) /\ Head(timers) = timers[1] /\ 1 \in DOMAIN timers
      /\ timers' \in Seq(ClicksOf(entity))
      /\ \A j \in DOMAIN timers' : \E k \in DOMAIN timers : timers'[j] = timers[k]
  BY <1>1, TailElements
<1>3. /\ posts' \in Seq(ClicksOf(entity))
      /\ \A j \in DOMAIN posts' :
           posts'[j] = timers[1] \/ (j \in DOMAIN posts /\ posts'[j] = posts[j])
  BY <1>1, <1>2, AppendElements
<1>4. TypesOK' /\ Older'
  BY <1>1, <1>2, <1>3 DEF Older
<1>5. ~early => timers' = <<>>
  <2>1. ~early => Len(timers) = 1
    BY <1>1 DEF TimerIsPending
  <2>2. Len(Tail(timers)) = Len(timers) - 1
    BY <1>1, HeadTailProperties
  <2>3. ASSUME ~early PROVE timers' = <<>>
    <3>1. Len(Tail(timers)) = 0
      BY <2>1, <2>2, <2>3
    <3>. QED BY <1>1, <1>2, <3>1, EmptySeq
  <2>. QED BY <2>3
<1>. QED BY <1>1, <1>4, <1>5 DEF TimerIsPending

LEMMA ExpireKeeps ==
  ASSUME StepperInv, NEW id \in expiries, Expire(id)
  PROVE  StepperInv'
<1>. USE DEF StepperInv, TypesOK
<1>1. /\ expiries' = expiries \ {id}
      /\ pending' = (IF pending # None /\ pending.id = id THEN None ELSE pending)
      /\ UNCHANGED <<entity, register, value, timers, clicked, early, posts, commands, reports, budget>>
  BY DEF Expire, path
<1>2. TypesOK' /\ Older'
  BY <1>1 DEF Older
<1>3. TimerIsPending'
  BY <1>1 DEF TimerIsPending
<1>. QED BY <1>2, <1>3

LEMMA ReceiveStateKeeps ==
  ASSUME StepperInv, ReceiveState
  PROVE  StepperInv'
<1>. USE DEF StepperInv, TypesOK
<1> DEFINE v == Shown(entity, Head(reports))
<1>1. /\ reports # <<>> /\ value' = v /\ reports' = Tail(reports)
      /\ pending' = (IF Confirms(v) THEN None ELSE pending)
      /\ UNCHANGED <<entity, register, timers, expiries, posts, commands, clicked, budget>>
  BY DEF ReceiveState
<1>2. early' = (early \/ (Confirms(v) /\ \E i \in DOMAIN timers : timers[i] = pending))
  BY DEF ReceiveState
<1>3. Head(reports) \in Int /\ reports' \in Seq(Int)
  BY <1>1, TailElements
<1>4. v \in Int
  BY <1>3, ShownType
<1> HIDE DEF v
<1>5. early' \in BOOLEAN
  BY <1>2, Zenon
<1>6. TypesOK' /\ Older'
  BY <1>1, <1>3, <1>4, <1>5 DEF Older
<1>7. TimerIsPending'
  <2>1. SUFFICES ASSUME ~early', timers # <<>>
                 PROVE  pending' = pending /\ ~early
    BY <1>1 DEF TimerIsPending
  <2>2. ~early /\ ~(Confirms(v) /\ \E i \in DOMAIN timers : timers[i] = pending)
    BY <1>2, <2>1
  <2>3. timers = <<pending>>
    BY <2>1, <2>2 DEF TimerIsPending
  <2>4. 1 \in DOMAIN timers /\ timers[1] = pending
    BY <2>3
  <2>. QED BY <1>1, <2>2, <2>4
<1>. QED BY <1>6, <1>7

(* A request comes back, answered or not.                                  *)
LEMMA AnsweredKeeps ==
  ASSUME StepperInv, NEW i \in DOMAIN posts, Answered(i), commands' \in Seq(Int),
         UNCHANGED <<entity, register, value, pending, timers, reports, early>>,
         budget' \in [clicks : Nat, failures : Int, reorders : Int],
         budget'.clicks = budget.clicks
  PROVE  StepperInv'
<1>. USE DEF StepperInv, TypesOK
<1>1. posts' = Without(posts, i) /\ expiries' = expiries \cup {posts[i].id}
  BY DEF Answered
<1>2. /\ posts' \in Seq(ClicksOf(entity))
      /\ \A j \in DOMAIN posts' : \E k \in DOMAIN posts : posts'[j] = posts[k]
  BY <1>1, WithoutElement
<1>3. posts[i].id \in Nat
  <2>1. posts[i] \in ClicksOf(entity)
    BY ElementOfSeq, LenProperties
  <2>. QED BY <2>1 DEF ClicksOf
<1>4. TypesOK'
  BY <1>1, <1>2, <1>3
<1>5. Older'
  BY <1>1, <1>2 DEF Older
<1>6. TimerIsPending'
  BY <1>1, <1>2 DEF TimerIsPending
<1>. QED BY <1>4, <1>5, <1>6

LEMMA ServerKeeps ==
  ASSUME StepperInv, NEW i \in DOMAIN posts, ApiCommand(i) \/ CommandFails(i)
  PROVE  StepperInv'
<1>. USE DEF StepperInv, TypesOK
<1>1. CASE ApiCommand(i)
  <2>1. posts[i].val \in Int
    <3>1. posts[i] \in ClicksOf(entity)
      BY ElementOfSeq, LenProperties
    <3>. QED BY <3>1 DEF ClicksOf
  <2>2. Payload(entity, posts[i].val) \in Int
    BY <2>1, PayloadType
  <2>3. commands' \in Seq(Int)
    BY <1>1, <2>2, AppendProperties DEF ApiCommand
  <2>4. /\ budget' \in [clicks : Nat, failures : Int, reorders : Int]
        /\ budget'.clicks = budget.clicks
    BY <1>1, BudgetSpent DEF ApiCommand
  <2>. QED BY <1>1, <2>3, <2>4, AnsweredKeeps DEF ApiCommand
<1>2. CASE CommandFails(i)
  <2>1. /\ budget' \in [clicks : Nat, failures : Int, reorders : Int]
        /\ budget'.clicks = budget.clicks
    BY <1>2, BudgetSpent DEF CommandFails
  <2>. QED BY <1>2, <2>1, AnsweredKeeps DEF CommandFails
<1>. QED BY <1>1, <1>2

LEMMA HeatPumpKeeps ==
  ASSUME StepperInv, HeatPumpTakes \/ HeatPumpReports
  PROVE  StepperInv'
<1>. USE DEF StepperInv, TypesOK
<1>1. UNCHANGED <<entity, value, pending, timers, expiries, early, posts, budget>>
  BY DEF HeatPumpTakes, HeatPumpReports, page
<1>2. register' \in Int /\ commands' \in Seq(Int) /\ reports' \in Seq(Int)
  <2>1. CASE HeatPumpTakes
    <3>1. Head(commands) \in Int /\ Tail(commands) \in Seq(Int)
      BY <2>1, TailElements DEF HeatPumpTakes
    <3>. QED BY <2>1, <3>1 DEF HeatPumpTakes
  <2>2. CASE HeatPumpReports
    BY <2>2, AppendProperties DEF HeatPumpReports
  <2>. QED BY <2>1, <2>2
<1>. QED BY <1>1, <1>2 DEF Older, TimerIsPending

LEMMA StepperStep == StepperInv /\ [Next]_vars => StepperInv'
<1>. SUFFICES ASSUME StepperInv, [Next]_vars PROVE StepperInv'
  OBVIOUS
<1>1. CASE UNCHANGED vars
  BY <1>1 DEF vars, page, path, StepperInv, TypesOK, Older, TimerIsPending
<1>2. CASE Next
  BY <1>2, ClickStepKeeps, FireTimerKeeps, ReceiveStateKeeps, ExpireKeeps, ServerKeeps, HeatPumpKeeps
     DEF Next
<1>. QED BY <1>1, <1>2

(* controls.js: types, the order of clicks, and whose timer runs.          *)
THEOREM StepperInvariant == Spec => []StepperInv
BY StepperInit, StepperStep, PTL DEF Spec

(* controls.js:73, several clicks are collected into one command, for any  *)
(* number of clicks, reports and failures.                                 *)
THEOREM ClicksCollected == Spec => []OneClickWaits
<1>1. StepperInv => OneClickWaits
  <2>. SUFFICES ASSUME StepperInv, ~early PROVE Len(timers) <= 1
    BY DEF OneClickWaits
  <2>1. CASE timers = <<>>
    BY <2>1
  <2>2. CASE timers = <<pending>>
    <3>1. Len(timers) = 1
      BY <2>2
    <3>. QED BY <3>1
  <2>. QED BY <2>1, <2>2 DEF StepperInv, TimerIsPending
<1>. QED BY <1>1, StepperInvariant, PTL

(* controls.js:71 and entities.py:103, the stepper never sends a command   *)
(* outside the entity's range, which the server would refuse.              *)
THEOREM RangeKept == Spec => [](\A i \in DOMAIN posts : Accepted(entity, posts[i].val))
<1>1. StepperInv => \A i \in DOMAIN posts : Accepted(entity, posts[i].val)
  <2>. SUFFICES ASSUME StepperInv, NEW i \in DOMAIN posts PROVE Accepted(entity, posts[i].val)
    OBVIOUS
  <2>1. posts[i] \in ClicksOf(entity)
    BY ElementOfSeq, LenProperties DEF StepperInv, TypesOK
  <2>. QED BY <2>1 DEF ClicksOf
<1>. QED BY <1>1, StepperInvariant, PTL

-----------------------------------------------------------------------------
(* The grid.  A number on it goes to the register and back unchanged, and  *)
(* a click leads from one such number to another.                          *)

Grid(e) == {k * e.unit : k \in Int}

(* What a register holds that shows a number on the grid.                  *)
Aligned(e) == {raw \in Int : Shown(e, raw) \in Grid(e)}

(* A click that asks for a number on the grid.                             *)
GridClicks(e) == [id : Nat, val : {v \in Grid(e) : Accepted(e, v)}]

GridInv ==
  /\ entity \in Entities
  /\ register \in Aligned(entity)
  /\ value \in Grid(entity) \cup {None}
  /\ pending \in GridClicks(entity) \cup {None}
  /\ timers \in Seq(GridClicks(entity)) /\ posts \in Seq(GridClicks(entity))
  /\ commands \in Seq(Aligned(entity)) /\ reports \in Seq(Aligned(entity))

LEMMA ProductType ==
  ASSUME NEW a \in Int, NEW b \in Int
  PROVE  a * b \in Int
OBVIOUS

LEMMA DivideExact ==
  ASSUME NEW k \in Int, NEW dd \in Nat \ {0}
  PROVE  (k * dd) \div dd = k /\ (k * dd) % dd = 0
BY SMTT(60)

LEMMA MultipleOf ==
  ASSUME NEW v \in Int, NEW u \in Nat \ {0}, v % u = 0
  PROVE  \E k \in Int : v = k * u
<1>1. v \div u \in Int /\ v = u * (v \div u) + (v % u)
  BY SMTT(60)
<1>2. v = (v \div u) * u
  BY <1>1
<1>. QED BY <1>1, <1>2

LEMMA RoundExact ==
  ASSUME NEW k \in Int, NEW dd \in Nat \ {0}
  PROVE  Round(k * dd, dd) = k
<1> DEFINE n == k * dd
<1>1. n \div dd = k /\ n % dd = 0
  BY DivideExact
<1> HIDE DEF n
<1>2. Round(n, dd) = k
  BY <1>1 DEF Round
<1>. QED BY <1>2 DEF n

LEMMA GridEntity ==
  ASSUME NEW e \in Entities
  PROVE  /\ Grid(e) \subseteq Int
         /\ e.min \in Grid(e) /\ e.max \in Grid(e)
         /\ e.raws \subseteq Aligned(e)
         /\ \E s \in Int : e.step = s * e.unit
         /\ \E h \in Int : e.unit = h * Cent
         /\ \E m \in Int : e.unit * e.cnum = m * (e.cden * Micro)
<1>1. e.unit \in Nat \ {0}
  BY EntityType
<1>2. Grid(e) \subseteq Int
  BY <1>1, ProductType DEF Grid
<1>3. \A v \in Int : v % e.unit = 0 => v \in Grid(e)
  BY <1>1, MultipleOf DEF Grid
<1>4. e.min \in Grid(e) /\ e.max \in Grid(e)
  BY <1>3, EntityType, GridAssumption
<1>5. ASSUME NEW raw \in e.raws PROVE raw \in Aligned(e)
  <2>1. raw \in Int
    BY EntityType
  <2>2. Shown(e, raw) \in Int /\ Shown(e, raw) % e.unit = 0
    BY <2>1, ShownType, GridAssumption
  <2>. QED BY <1>3, <2>1, <2>2 DEF Aligned
<1>6. \E s \in Int : e.step = s * e.unit
  <2>1. e.step \in Int /\ e.step % e.unit = 0
    BY EntityType, GridAssumption
  <2>. QED BY <1>1, <2>1, MultipleOf
<1>7. \E h \in Int : e.unit = h * Cent
  <2>1. e.unit \in Int /\ e.unit % Cent = 0
    BY <1>1, GridAssumption
  <2>. QED BY <2>1, MultipleOf, Units
<1>8. \E m \in Int : e.unit * e.cnum = m * (e.cden * Micro)
  <2>1. e.cnum \in Int /\ e.cden \in Nat \ {0} /\ Micro \in Nat \ {0}
    BY EntityType, Units
  <2>2. e.unit * e.cnum \in Int
    BY <1>1, <2>1, ProductType
  <2>3. e.cden * Micro \in Nat \ {0}
    BY <2>1
  <2>4. (e.unit * e.cnum) % (e.cden * Micro) = 0
    BY GridAssumption
  <2>. QED BY ONLY <2>2, <2>3, <2>4, MultipleOf
<1>. QED BY <1>2, <1>4, <1>5, <1>6, <1>7, <1>8

(* Math.round(... * 100) / 100 changes no number on the grid.              *)
LEMMA ClickOnGrid ==
  ASSUME NEW e \in Entities, NEW current \in Grid(e), NEW dir \in {-1, 1}
  PROVE  NextNumber(e, current, dir) \in Grid(e)
<1>1. e.unit \in Int /\ e.step \in Int /\ current \in Int /\ dir \in Int
  BY EntityType, GridEntity
<1>2. PICK s \in Int : e.step = s * e.unit
  BY GridEntity
<1>3. PICK h \in Int : e.unit = h * Cent
  BY GridEntity
<1>4. PICK k \in Int : current = k * e.unit
  BY DEF Grid
<1>5. PICK x : x = current + dir * e.step
  OBVIOUS
<1>6. PICK j \in Int : x = j * e.unit
  <2>1. CASE dir = 1
    <3>1. x = (k + s) * e.unit /\ k + s \in Int
      BY <1>1, <1>2, <1>4, <1>5, <2>1
    <3>. QED BY <3>1
  <2>2. CASE dir = -1
    <3>1. x = (k - s) * e.unit /\ k - s \in Int
      BY <1>1, <1>2, <1>4, <1>5, <2>2
    <3>. QED BY <3>1
  <2>. QED BY <2>1, <2>2
<1>7. PICK n \in Int : n = j * h
  BY ProductType
<1>8. x = n * Cent
  BY <1>3, <1>6, <1>7, Units
<1>9. ((x + Cent \div 2) \div Cent) * Cent = x
  <2>1. (n * 10000 + 5000) \div 10000 = n
    BY ONLY <1>7
  <2>2. 10000 \div 2 = 5000
    OBVIOUS
  <2>. QED BY ONLY <1>8, <2>1, <2>2 DEF Cent
<1>10. x \in Grid(e)
  BY <1>6 DEF Grid
<1>. QED BY <1>5, <1>9, <1>10, GridEntity DEF NextNumber, Least, Greatest

(* A unit of the grid is m of the register's, and shows as a unit again.   *)
LEMMA UnitBack ==
  ASSUME NEW e \in Entities, NEW m \in Int, e.unit * e.cnum = m * (e.cden * Micro)
  PROVE  e.unit * e.den = (m * e.num) * Micro
<1>1. /\ e.num \in Nat /\ e.den \in Nat \ {0} /\ e.cnum \in Nat /\ e.cden \in Nat \ {0}
      /\ e.unit \in Nat /\ Micro \in Nat
  BY EntityType, Units
<1>2. e.num * e.cnum = e.den * e.cden
  BY GridAssumption
<1>3. PICK a \in Nat, b \in Nat, c \in Nat, d \in Nat \ {0}, u \in Nat, w \in Nat :
        a = e.num /\ b = e.den /\ c = e.cnum /\ d = e.cden /\ u = e.unit /\ w = Micro
  BY <1>1
<1>4. a * c = b * d /\ u * c = m * (d * w)
  BY <1>2, <1>3
<1>5. (u * c) * a = (m * (d * w)) * a
  BY <1>4
<1>6. (u * c) * a = u * (a * c) /\ u * (b * d) = (u * b) * d
  BY SMTT(60)
<1>7. (m * (d * w)) * a = ((m * a) * w) * d
  BY SMTT(60)
<1>8. (u * b) * d = ((m * a) * w) * d
  BY <1>4, <1>5, <1>6, <1>7
<1>9. PICK p \in Int : p = u * b
  OBVIOUS
<1>10. PICK q \in Int : q = (m * a) * w
  <2>1. m * a \in Int
    BY ProductType
  <2>. QED BY <2>1, ProductType
<1>11. p * d = q * d
  BY <1>8, <1>9, <1>10
<1>12. p = q
  BY ONLY <1>11, p \in Int, q \in Int, d \in Nat \ {0}, SMTT(60)
<1>. QED BY <1>3, <1>9, <1>10, <1>12

LEMMA BackAndForth ==
  ASSUME NEW e \in Entities, NEW v \in Grid(e)
  PROVE  Payload(e, v) \in Aligned(e) /\ Shown(e, Payload(e, v)) = v
<1>1. /\ e.num \in Nat \ {0} /\ e.den \in Nat \ {0} /\ e.cnum \in Nat \ {0} /\ e.cden \in Nat \ {0}
      /\ e.unit \in Nat \ {0} /\ Micro \in Nat \ {0} /\ v \in Int
  BY EntityType, Units, GridEntity
<1>2. PICK k \in Int : v = k * e.unit
  BY DEF Grid
<1>3. PICK m \in Int : e.unit * e.cnum = m * (e.cden * Micro)
  BY GridEntity
<1>4. PICK dd \in Nat \ {0} : dd = e.cden * Micro
  BY <1>1
<1>5. PICK raw \in Int : raw = k * m
  BY ProductType
<1>6. v * e.cnum = raw * dd
  <2>1. v * e.cnum = k * (e.unit * e.cnum)
    BY <1>1, <1>2, SMTT(60)
  <2>2. k * (m * dd) = raw * dd
    BY <1>4, <1>5, SMTT(60)
  <2>. QED BY <1>3, <1>4, <2>1, <2>2
<1>7. Payload(e, v) = raw
  <2>1. Payload(e, v) = IF e.toInt THEN (raw * dd) \div dd ELSE Round(raw * dd, dd)
    BY <1>4, <1>6 DEF Payload
  <2>. QED BY <2>1, DivideExact, RoundExact
<1>8. e.unit * e.den = (m * e.num) * Micro
  BY <1>3, UnitBack
<1>9. raw * e.num * Micro = v * e.den
  <2>1. (raw * e.num) * Micro = k * ((m * e.num) * Micro)
    BY <1>1, <1>5, SMTT(60)
  <2>2. k * (e.unit * e.den) = v * e.den
    BY <1>1, <1>2, SMTT(60)
  <2>. QED BY <1>8, <2>1, <2>2
<1>10. Shown(e, raw) = v
  <2>1. Shown(e, raw) = Round(v * e.den, e.den)
    BY <1>9 DEF Shown
  <2>. QED BY <1>1, <2>1, RoundExact
<1>. QED BY <1>7, <1>10 DEF Aligned

LEMMA GridInit == Init => GridInv
<1>. SUFFICES ASSUME Init PROVE GridInv
  OBVIOUS
<1>1. entity \in Entities /\ register \in entity.raws
  BY DEF Init
<1>2. register \in Aligned(entity)
  BY <1>1, GridEntity
<1>. QED BY <1>1, <1>2 DEF Init, GridInv, Aligned

LEMMA GridClickStep ==
  ASSUME StepperInv, GridInv, NEW dir \in {-1, 1}, ClickStep(dir)
  PROVE  GridInv'
<1> DEFINE click == [id |-> budget.clicks, val |-> NextNumber(entity, Current, dir)]
<1>1. /\ pending' = click /\ timers' = Append(Running, click)
      /\ UNCHANGED <<entity, register, value, posts, commands, reports>>
  BY DEF ClickStep, path
<1>2. Current \in Grid(entity)
  <2>1. entity.min \in Grid(entity)
    BY GridEntity DEF GridInv
  <2>. QED BY <2>1 DEF Current, GridInv, GridClicks
<1>3. click \in GridClicks(entity)
  <2>1. Current \in Int /\ entity \in Entities
    BY <1>2, GridEntity DEF GridInv
  <2>2. NextNumber(entity, Current, dir) \in Grid(entity)
          /\ Accepted(entity, NextNumber(entity, Current, dir))
    BY <1>2, <2>1, ClickOnGrid, NextNumberType
  <2>3. budget.clicks \in Nat
    BY DEF StepperInv, TypesOK
  <2>. QED BY <2>2, <2>3 DEF GridClicks
<1> HIDE DEF click
<1>4. Running \in Seq(GridClicks(entity))
  <2> DEFINE own == {i \in DOMAIN timers : pending # None /\ timers[i].id = pending.id}
  <2>1. PICK k : k = CHOOSE i \in own : TRUE
    OBVIOUS
  <2>2. Running = IF own = {} THEN timers ELSE Without(timers, k)
    BY <2>1 DEF Running
  <2>3. own # {} => k \in DOMAIN timers
    BY <2>1
  <2>4. timers \in Seq(GridClicks(entity))
    BY DEF GridInv
  <2>. QED BY <2>2, <2>3, <2>4, WithoutElement
<1>5. timers' \in Seq(GridClicks(entity))
  BY <1>1, <1>3, <1>4, AppendProperties
<1>. QED BY <1>1, <1>3, <1>5 DEF GridInv

LEMMA GridOthers ==
  ASSUME StepperInv, GridInv,
         \/ FireTimer \/ ReceiveState
         \/ \E id \in expiries : Expire(id)
         \/ \E i \in DOMAIN posts : ApiCommand(i) \/ CommandFails(i)
         \/ HeatPumpTakes \/ HeatPumpReports
  PROVE  GridInv'
<1>. USE DEF GridInv
<1>1. CASE FireTimer
  <2>1. Head(timers) \in GridClicks(entity) /\ Tail(timers) \in Seq(GridClicks(entity))
    BY <1>1, TailElements DEF FireTimer
  <2>. QED BY <1>1, <2>1, AppendProperties DEF FireTimer
<1>2. CASE ReceiveState
  <2>1. Head(reports) \in Aligned(entity) /\ Tail(reports) \in Seq(Aligned(entity))
    BY <1>2, TailElements DEF ReceiveState
  <2>2. Shown(entity, Head(reports)) \in Grid(entity)
    BY <2>1 DEF Aligned
  <2>. QED BY <1>2, <2>1, <2>2 DEF ReceiveState
<1>3. ASSUME NEW id \in expiries, Expire(id) PROVE GridInv'
  BY <1>3 DEF Expire, path
<1>4. ASSUME NEW i \in DOMAIN posts, ApiCommand(i) \/ CommandFails(i) PROVE GridInv'
  <2>1. posts' \in Seq(GridClicks(entity))
    BY <1>4, WithoutElement DEF ApiCommand, CommandFails, Answered
  <2>2. posts[i].val \in Grid(entity)
    <3>1. posts[i] \in GridClicks(entity)
      BY ElementOfSeq, LenProperties
    <3>. QED BY <3>1 DEF GridClicks
  <2>3. Payload(entity, posts[i].val) \in Aligned(entity)
    BY <2>2, BackAndForth
  <2>4. commands' \in Seq(Aligned(entity))
    <3>1. CASE ApiCommand(i)
      <4>1. commands' = IF ReadOnly \/ ~Accepted(entity, posts[i].val) THEN commands
                        ELSE Append(commands, Payload(entity, posts[i].val))
        BY <3>1 DEF ApiCommand
      <4>. QED BY <2>3, <4>1, AppendProperties
    <3>2. CASE CommandFails(i)
      BY <3>2 DEF CommandFails
    <3>. QED BY <1>4, <3>1, <3>2
  <2>. QED BY <1>4, <2>1, <2>4 DEF ApiCommand, CommandFails
<1>5. CASE HeatPumpTakes
  <2>1. Head(commands) \in Aligned(entity) /\ Tail(commands) \in Seq(Aligned(entity))
    BY <1>5, TailElements DEF HeatPumpTakes
  <2>. QED BY <1>5, <2>1 DEF HeatPumpTakes, page
<1>6. CASE HeatPumpReports
  BY <1>6, AppendProperties DEF HeatPumpReports, page
<1>. QED BY <1>1, <1>2, <1>3, <1>4, <1>5, <1>6

(* controls.js:66-84 and entities.py:40-110, for every entity whose        *)
(* templates undo each other on a grid that holds its range and its step,  *)
(* as those of all numbers of the message lists do: what a click shows is  *)
(* what the state payload of its command brings back, to the last decimal, *)
(* however many clicks and reports came before.                            *)
THEOREM ClicksConfirmed == Spec => []CommandsComeBack
<1>1. StepperInv /\ GridInv /\ [Next]_vars => GridInv'
  <2>. SUFFICES ASSUME StepperInv, GridInv, [Next]_vars PROVE GridInv'
    OBVIOUS
  <2>1. CASE UNCHANGED vars
    BY <2>1 DEF vars, GridInv
  <2>2. CASE Next
    BY <2>2, GridClickStep, GridOthers DEF Next
  <2>. QED BY <2>1, <2>2
<1>2. GridInv => CommandsComeBack
  <2>. SUFFICES ASSUME GridInv, NEW i \in DOMAIN posts
                PROVE  /\ Accepted(entity, posts[i].val)
                       /\ Shown(entity, Payload(entity, posts[i].val)) = posts[i].val
    BY DEF CommandsComeBack
  <2>1. posts[i] \in GridClicks(entity)
    BY ElementOfSeq, LenProperties DEF GridInv
  <2>2. posts[i].val \in Grid(entity) /\ Accepted(entity, posts[i].val)
    BY <2>1 DEF GridClicks
  <2>. QED BY <2>2, BackAndForth DEF GridInv
<1>. QED BY <1>1, <1>2, GridInit, StepperInvariant, PTL DEF Spec

=============================================================================
