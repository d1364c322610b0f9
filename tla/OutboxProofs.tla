---------------------------- MODULE OutboxProofs ----------------------------
(***************************************************************************)
(* The user is not interrupted more often, or at other hours, than he      *)
(* allowed, and what he is told is neither repeated nor lost on its way:   *)
(* for any devices, calls at once, loops, hours and budgets.               *)
(***************************************************************************)
EXTENDS PushOutbox, SequenceTheorems, FiniteSetTheorems, TLAPS

-----------------------------------------------------------------------------
(* Days and hours. *)

(* The remainder is what is left of a number when its quotient is taken out. *)
LEMMA Division ==
  ASSUME NEW h \in Nat, NEW H \in Nat \ {0}
  PROVE  /\ h \div H \in Nat /\ h % H \in 0..H-1
         /\ h = H * (h \div H) + (h % H)
OBVIOUS

LEMMA FirstDayIsZero ==
  ASSUME NEW h \in Nat, NEW H \in Nat \ {0}, h < H
  PROVE  h \div H = 0
BY Division

(* A greater factor is greater by the other factor at least. *)
LEMMA Times == ASSUME NEW H \in Nat, NEW j \in Int, NEW k \in Int, j < k PROVE H*j + H <= H * k
<1>1. PICK m \in Nat : k = j + 1 + m
  OBVIOUS
<1>2. H * k = H * j + H + H * m
  BY <1>1
<1>3. H * m \in Nat
  OBVIOUS
<1> QED
  BY <1>2, <1>3

LEMMA Remainder ==
  ASSUME NEW H \in Nat \ {0}, NEW k \in Nat, NEW e \in 0..H-1
  PROVE  (k * H + e) % H = e
<1> DEFINE h == k * H + e
           q == h \div H
<1>1. h \in Nat
  OBVIOUS
<1> HIDE DEF h
<1>2. q \in Nat /\ h % H \in 0..H-1 /\ h = H * q + (h % H)
  BY <1>1, Division
<1> HIDE DEF q
<1>3. h = H * k + e
  BY DEF h
<1>4. ~ (q < k)
  <2> SUFFICES ASSUME q < k PROVE FALSE
    OBVIOUS
  <2>1. H * q + H <= H * k
    BY <1>2, Times
  <2>2. H * q \in Nat /\ H * k \in Nat
    BY <1>2
  <2> QED
    BY <2>1, <2>2, <1>2, <1>3
<1>5. ~ (k < q)
  <2> SUFFICES ASSUME k < q PROVE FALSE
    OBVIOUS
  <2>1. H * k + H <= H * q
    BY <1>2, Times
  <2>2. H * q \in Nat /\ H * k \in Nat
    BY <1>2
  <2> QED
    BY <2>1, <2>2, <1>2, <1>3
<1>6. q = k
  BY <1>4, <1>5, <1>2
<1>7. h % H = e
  BY <1>2, <1>3, <1>6
<1> QED
  BY <1>7 DEF h

-----------------------------------------------------------------------------
(* The invariant of a device. *)

Asked == (0..MaxHour) \union {Never}
FlowRequest == [key : PlanKey \union Nat, urgent : BOOLEAN, asked : Asked]
FlowCall == [pc : {"idle", "item", "insert", "schedule", "ack"}, req : FlowRequest, at : 0..Never,
             row : Nat, batch : Seq(Nat)]

DeviceTyped(d) ==
    /\ inbox[d] \in Seq(Row)
    /\ flow[d] \in [Flow -> FlowCall]
    /\ os[d] \subseteq DOMAIN inbox[d]
    /\ shown[d] \subseteq [row : DOMAIN inbox[d], at : 0..MaxHour]

(* The rows the budget of a day is spent on, and the calls that have read it. *)
Plain(d, day) ==
    {i \in DOMAIN inbox[d] : inbox[d][i].day = day /\ ~inbox[d][i].urgent /\ ~inbox[d][i].cancelled}
Coming(d, day) ==
    {f \in Flow : flow[d][f].pc = "insert" /\ ~flow[d][f].req.urgent /\ Day(flow[d][f].at) = day}

BudgetLeft(d) ==
    \A day \in Nat : Cardinality(Plain(d, day)) + Cardinality(Coming(d, day)) <= DailyBudget + Cardinality(Flow) - 1

(* Timers are not behind the clock. *)
TimersAhead(d) == \A i \in os[d] : inbox[d][i].at >= now

(* A row that is due in quiet hours was due already when it was inserted. *)
RowsDue(d) ==
    \A i \in DOMAIN inbox[d] :
       LET r == inbox[d][i]
       IN  /\ r.created <= now
           /\ isQuietAt(r.at) /\ ~r.urgent => r.at <= r.created

(* So is a row that is about to be inserted; the one that gets its timer is there. *)
CallsDue(d) ==
    \A f \in Flow :
       LET c == flow[d][f]
       IN  /\ c.pc = "insert" /\ isQuietAt(c.at) /\ ~c.req.urgent => c.at <= now
           /\ c.pc = "schedule" => c.row \in DOMAIN inbox[d] /\ inbox[d][c.row].at = c.at

ShownLate(d) ==
    \A s \in shown[d] :
       isQuietAt(s.at) /\ ~inbox[d][s.row].urgent => inbox[d][s.row].created = s.at

DeviceInv(d) ==
    DeviceTyped(d) /\ BudgetLeft(d) /\ TimersAhead(d) /\ RowsDue(d) /\ CallsDue(d) /\ ShownLate(d)

GateInv ==
    /\ now \in 0..MaxHour
    /\ enabled \in [Device -> BOOLEAN]
    /\ inbox = [d \in Device |-> inbox[d]] /\ flow = [d \in Device |-> flow[d]]
    /\ os = [d \in Device |-> os[d]] /\ shown = [d \in Device |-> shown[d]]
    /\ \A d \in Device : DeviceInv(d)

(* The invariant of the server. *)

Items == {News[i] : i \in DOMAIN News}
Delivery == [pc : {"none", "next", "wait"}, todo : SUBSET Device, to : SUBSET Device,
             answer : {"", "ok", "gone", "fail"}, delivered : BOOLEAN]
Loop == [begun : BOOLEAN, left : Seq(Items), day : Nat, waits : Nat]

(* What a poll has fetched is in the queue; a call that goes through it is not at its end. *)
BatchKnown(d, f) ==
    /\ flow[d][f].batch \in Seq(DOMAIN note)
    /\ flow[d][f].pc \in {"item", "ack"} => flow[d][f].batch # <<>>

BatchesKnown == \A d \in Device, f \in Flow : BatchKnown(d, f)

ServerTyped ==
    /\ note \in Seq(Note) /\ Len(note) <= lost.notes /\ lost.notes \in 0..MaxNotes
    /\ DOMAIN lost = {"notes", "requests", "restarts", "subs", "polls", "throws"}
    /\ sub \subseteq Device /\ alive \subseteq Device
    /\ delivery \in [1..MaxNotes -> Delivery]
    /\ loop \in [Loops -> Loop]
    /\ air \subseteq (DOMAIN note) \X Device
    /\ popped \subseteq (DOMAIN note) \X Device
    /\ given \subseteq (DOMAIN note) \X Device

NewsRows(day) == {i \in DOMAIN note : note[i].news /\ Day(note[i].created) = day}

(* On the first day, no loop counts the rows of another one. *)
FirstDay ==
    /\ \A i \in DOMAIN note : note[i].created <= now
    /\ now < HoursPerDay =>
         /\ \A l \in Loops : loop[l].day = 0
         /\ Cardinality(NewsRows(0)) <= newsDailyCap

OutboxInv == GateInv /\ BatchesKnown /\ ServerTyped /\ FirstDay

-----------------------------------------------------------------------------
(* When a notification is due. *)

LEMMA QuietIsLeft ==
  ASSUME NEW h \in 0..MaxHour
  PROVE  /\ nextAfterQuiet(h) \in 0..MaxHour + HoursPerDay
         /\ ~isQuietAt(nextAfterQuiet(h))
<1> USE GateAssumption
<1> DEFINE k == h \div HoursPerDay
           c == k * HoursPerDay + QuietEnd
<1>1. k \in Nat /\ h % HoursPerDay \in 0..HoursPerDay - 1 /\ h = HoursPerDay * k + (h % HoursPerDay)
  <2>1. h \in Nat /\ HoursPerDay \in Nat \ {0}
    OBVIOUS
  <2> QED
    BY <2>1, Division
<1> HIDE DEF k
<1>2. c \in Nat /\ c <= h + HoursPerDay - 1 /\ c + HoursPerDay = (k + 1) * HoursPerDay + QuietEnd
  BY <1>1
<1>3. c % HoursPerDay = QuietEnd /\ (c + HoursPerDay) % HoursPerDay = QuietEnd
  <2>1. k + 1 \in Nat
    BY <1>1
  <2>2. c % HoursPerDay = QuietEnd
    BY <1>1, Remainder
  <2>3. ((k + 1) * HoursPerDay + QuietEnd) % HoursPerDay = QuietEnd
    BY <2>1, Remainder
  <2> HIDE DEF c
  <2> QED
    BY <2>2, <2>3, <1>2
<1>4. nextAfterQuiet(h) = IF c <= h THEN c + HoursPerDay ELSE c
  BY DEF nextAfterQuiet, Day, k
<1> HIDE DEF c
<1>5. \A x : x % HoursPerDay = QuietEnd => ~isQuietAt(x)
  BY DEF isQuietAt, HourOfDay
<1> QED
  BY <1>2, <1>3, <1>4, <1>5

(* A time in the quiet hours is one that was over when it was asked for. *)
LEMMA DueTime ==
  ASSUME now \in 0..MaxHour, NEW q, q.asked \in Asked
  PROVE  /\ ScheduledAt(q) \in 0..Never
         /\ isQuietAt(ScheduledAt(q)) /\ ~q.urgent => ScheduledAt(q) <= now
<1> USE GateAssumption
<1> DEFINE asked == IF q.asked = Never THEN now ELSE q.asked
           moved == IF isQuietAt(asked) /\ ~q.urgent THEN nextAfterQuiet(asked) ELSE asked
<1>1. asked \in 0..MaxHour
  BY DEF Asked
<1>2. ScheduledAt(q) = IF q.asked # Never /\ moved < now THEN now ELSE moved
  BY DEF ScheduledAt
<1>3. nextAfterQuiet(asked) \in 0..MaxHour + HoursPerDay /\ ~isQuietAt(nextAfterQuiet(asked))
  BY <1>1, QuietIsLeft
<1>4. moved \in 0..Never
  BY <1>1, <1>3 DEF Never
<1>5. isQuietAt(moved) /\ ~q.urgent => moved = now /\ q.asked = Never
  BY <1>3
<1> QED
  BY <1>2, <1>4, <1>5 DEF Never

(* What the budget counts is finite. *)
LEMMA PlainFinite ==
  ASSUME NEW d \in Device, inbox[d] \in Seq(Row), NEW day
  PROVE  IsFiniteSet(Plain(d, day)) /\ Cardinality(Plain(d, day)) \in Nat
<1>1. Plain(d, day) \subseteq 1..Len(inbox[d]) /\ Len(inbox[d]) \in Nat
  BY DEF Plain
<1>2. IsFiniteSet(1..Len(inbox[d]))
  BY <1>1, FS_Interval
<1> QED
  BY <1>1, <1>2, FS_Subset, FS_CardinalityType

LEMMA ComingFinite ==
  ASSUME NEW d, NEW day
  PROVE  /\ IsFiniteSet(Coming(d, day)) /\ Cardinality(Coming(d, day)) \in Nat
         /\ Cardinality(Coming(d, day)) <= Cardinality(Flow) /\ Cardinality(Flow) \in Nat
<1>1. Coming(d, day) \subseteq Flow /\ IsFiniteSet(Flow)
  BY OutboxAssumption DEF Coming
<1> QED
  BY <1>1, FS_Subset, FS_CardinalityType

-----------------------------------------------------------------------------
(* What a step leaves alone. *)

LEMMA DeviceRests ==
  ASSUME NEW d \in Device, DeviceInv(d), now' = now, inbox'[d] = inbox[d], flow'[d] = flow[d],
         os'[d] = os[d], shown'[d] = shown[d]
  PROVE  DeviceInv(d)'
<1>1. DeviceTyped(d)'
  BY DEF DeviceInv, DeviceTyped
<1>2. BudgetLeft(d)'
  BY DEF DeviceInv, BudgetLeft, Plain, Coming
<1>3. TimersAhead(d)' /\ RowsDue(d)' /\ CallsDue(d)' /\ ShownLate(d)'
  BY DEF DeviceInv, TimersAhead, RowsDue, CallsDue, ShownLate
<1> QED
  BY <1>1, <1>2, <1>3 DEF DeviceInv

(* The other devices, when one moves. *)
LEMMA OneDeviceMoves ==
  ASSUME GateInv, NEW d \in Device, NEW ib, NEW fl, NEW o, NEW sh,
         now' = now, enabled' \in [Device -> BOOLEAN],
         inbox' = [inbox EXCEPT ![d] = ib], flow' = [flow EXCEPT ![d] = fl],
         os' = [os EXCEPT ![d] = o], shown' = [shown EXCEPT ![d] = sh],
         DeviceInv(d)'
  PROVE  GateInv'
<1>1. \A e \in Device : e # d => /\ inbox'[e] = inbox[e] /\ flow'[e] = flow[e]
                                 /\ os'[e] = os[e] /\ shown'[e] = shown[e]
  BY DEF GateInv
<1>2. \A e \in Device : DeviceInv(e)'
  BY <1>1, DeviceRests DEF GateInv
<1>3. /\ inbox' = [e \in Device |-> inbox'[e]] /\ flow' = [e \in Device |-> flow'[e]]
      /\ os' = [e \in Device |-> os'[e]] /\ shown' = [e \in Device |-> shown'[e]]
  BY DEF GateInv
<1> QED
  BY <1>2, <1>3 DEF GateInv

LEMMA GateRests ==
  ASSUME GateInv, UNCHANGED <<now, enabled, inbox, flow, os, shown>>
  PROVE  GateInv'
<1>1. \A d \in Device : DeviceInv(d)'
  BY DeviceRests DEF GateInv
<1> QED
  BY <1>1 DEF GateInv

-----------------------------------------------------------------------------
(* The calls of a device. *)

(* A call that moves on without a row to insert or a timer to set. *)
LEMMA CallMoves ==
  ASSUME GateInv, NEW d \in Device, NEW f \in Flow, NEW c \in FlowCall, c.pc \in {"idle", "item", "ack"},
         flow' = [flow EXCEPT ![d] = [flow[d] EXCEPT ![f] = c]], UNCHANGED <<now, enabled, inbox, os, shown>>
  PROVE  GateInv'
<1>1. flow'[d] = [flow[d] EXCEPT ![f] = c] /\ flow[d] \in [Flow -> FlowCall] /\ DeviceInv(d)
  BY DEF GateInv, DeviceInv, DeviceTyped
<1>2. flow'[d] \in [Flow -> FlowCall] /\ flow'[d][f] = c /\ \A g \in Flow : g # f => flow'[d][g] = flow[d][g]
  BY <1>1
<1>3. DeviceTyped(d)'
  BY <1>1, <1>2 DEF DeviceInv, DeviceTyped
<1>4. BudgetLeft(d)'
  <2> SUFFICES ASSUME NEW day \in Nat
               PROVE  Cardinality(Plain(d, day)') + Cardinality(Coming(d, day)') <= DailyBudget + Cardinality(Flow) - 1
    BY DEF BudgetLeft
  <2>1. Plain(d, day)' = Plain(d, day)
    BY DEF Plain
  <2>2. Coming(d, day)' \subseteq Coming(d, day)
    BY <1>2 DEF Coming
  <2>3. Coming(d, day) \subseteq Flow /\ IsFiniteSet(Flow)
    BY OutboxAssumption DEF Coming
  <2>4. IsFiniteSet(Coming(d, day))
    BY <2>3, FS_Subset
  <2>5. Cardinality(Coming(d, day)') <= Cardinality(Coming(d, day))
    BY <2>2, <2>4, FS_Subset
  <2>6. Cardinality(Coming(d, day)') \in Nat /\ Cardinality(Coming(d, day)) \in Nat
    BY <2>2, <2>4, FS_Subset, FS_CardinalityType
  <2>7. inbox[d] \in Seq(Row)
    BY <1>1 DEF DeviceInv, DeviceTyped
  <2>8. Cardinality(Plain(d, day)) \in Nat
    BY <2>7, PlainFinite
  <2>9. Cardinality(Flow) \in Nat /\ DailyBudget \in Nat
    BY OutboxAssumption, GateAssumption, FS_CardinalityType
  <2>10. Cardinality(Plain(d, day)) + Cardinality(Coming(d, day)) <= DailyBudget + Cardinality(Flow) - 1
    BY <1>1 DEF DeviceInv, BudgetLeft
  <2> QED
    BY <2>1, <2>5, <2>6, <2>8, <2>9, <2>10
<1>5. CallsDue(d)'
  BY <1>1, <1>2 DEF DeviceInv, CallsDue
<1>6. TimersAhead(d)' /\ RowsDue(d)' /\ ShownLate(d)'
  BY <1>1 DEF DeviceInv, TimersAhead, RowsDue, ShownLate
<1>7. DeviceInv(d)'
  BY <1>3, <1>4, <1>5, <1>6 DEF DeviceInv
<1>8. /\ inbox' = [inbox EXCEPT ![d] = inbox[d]] /\ os' = [os EXCEPT ![d] = os[d]]
      /\ shown' = [shown EXCEPT ![d] = shown[d]] /\ enabled' \in [Device -> BOOLEAN]
  BY DEF GateInv
<1> QED
  BY <1>7, <1>8, OneDeviceMoves

LEMMA RestingTyped == Resting \in FlowCall /\ Resting.pc = "idle"
<1>1. Never \in Asked /\ Never \in Nat
  BY GateAssumption DEF Asked, Never
<1> QED
  BY <1>1 DEF Resting, FlowCall, FlowRequest

LEMMA AfterTyped ==
  ASSUME NEW c \in FlowCall
  PROVE  After(c) \in FlowCall /\ After(c).pc \in {"idle", "ack"}
<1>1. Resting \in FlowCall
  BY RestingTyped
<1>2. c.batch \in Seq(Nat)
  BY DEF FlowCall
<1>3. CASE c.batch = <<>>
  BY <1>1, <1>3 DEF After, Resting
<1>4. CASE c.batch # <<>>
  <2>1. After(c) = [Resting EXCEPT !.pc = "ack", !.batch = c.batch]
    BY <1>4 DEF After
  <2> QED
    BY <1>1, <1>2, <2>1 DEF FlowCall, Resting
<1> QED
  BY <1>3, <1>4

LEMMA CallTyped ==
  ASSUME GateInv, NEW d \in Device, NEW f \in Flow
  PROVE  flow[d][f] \in FlowCall
BY DEF GateInv, DeviceInv, DeviceTyped

(* create() up to its INSERT. *)
LEMMA StepCreate ==
  ASSUME GateInv, NEW d \in Device, NEW f \in Flow, flow[d][f].pc \in {"idle", "item"},
         NEW q \in FlowRequest, create(d, f, q)
  PROVE  GateInv'
<1> DEFINE c == [flow[d][f] EXCEPT !.req = q, !.at = ScheduledAt(q)]
           r == [c EXCEPT !.pc = "insert"]
<1>1. flow[d][f] \in FlowCall
  BY CallTyped
<1>2. /\ ScheduledAt(q) \in 0..Never
      /\ isQuietAt(ScheduledAt(q)) /\ ~q.urgent => ScheduledAt(q) <= now
  BY DueTime DEF GateInv, FlowRequest
<1>3. c \in FlowCall /\ c.batch = flow[d][f].batch
  BY <1>1, <1>2 DEF FlowCall
<1>4. CASE Refused(d, q)
  <2>1. flow' = [flow EXCEPT ![d] = [flow[d] EXCEPT ![f] = After(c)]]
    BY <1>4 DEF create
  <2>2. UNCHANGED <<now, enabled, inbox, os, shown>>
    BY DEF create
  <2>3. After(c) \in FlowCall /\ After(c).pc \in {"idle", "item", "ack"}
    BY <1>3, AfterTyped
  <2> HIDE DEF c
  <2> QED
    BY <2>1, <2>2, <2>3, CallMoves
<1>5. CASE ~Refused(d, q)
  <2>1. flow' = [flow EXCEPT ![d] = [flow[d] EXCEPT ![f] = r]]
    BY <1>5 DEF create
  <2>2. UNCHANGED <<now, enabled, inbox, os, shown>>
    BY DEF create
  <2>3. /\ r \in FlowCall /\ r.pc = "insert" /\ r.req = q /\ r.at = ScheduledAt(q)
    BY <1>1, <1>2 DEF FlowCall
  <2> HIDE DEF r
  <2>4. DeviceInv(d) /\ flow[d] \in [Flow -> FlowCall] /\ inbox[d] \in Seq(Row)
    BY DEF GateInv, DeviceInv, DeviceTyped
  <2>5. flow'[d] = [flow[d] EXCEPT ![f] = r]
    BY <2>1 DEF GateInv
  <2>6. flow'[d] \in [Flow -> FlowCall] /\ flow'[d][f] = r /\ \A g \in Flow : g # f => flow'[d][g] = flow[d][g]
    BY <2>3, <2>4, <2>5
  <2>7. DeviceTyped(d)'
    BY <2>2, <2>4, <2>6 DEF DeviceInv, DeviceTyped
  <2>8. BudgetLeft(d)'
    <3> SUFFICES ASSUME NEW day \in Nat
                 PROVE  Cardinality(Plain(d, day)') + Cardinality(Coming(d, day)') <= DailyBudget + Cardinality(Flow) - 1
      BY DEF BudgetLeft
    <3>1. Plain(d, day)' = Plain(d, day)
      BY <2>2 DEF Plain
    <3>2. /\ Cardinality(Plain(d, day)) \in Nat /\ Cardinality(Coming(d, day)) \in Nat
          /\ IsFiniteSet(Flow) /\ Cardinality(Flow) \in Nat /\ DailyBudget \in Nat
      BY <2>4, PlainFinite, ComingFinite, OutboxAssumption, GateAssumption
    <3>3. CASE q.urgent \/ Day(r.at) # day
      <4>1. Coming(d, day)' = Coming(d, day)
        BY <2>3, <2>6, <3>3 DEF Coming
      <4> QED
        BY <2>4, <3>1, <4>1 DEF DeviceInv, BudgetLeft
    <3>4. CASE ~q.urgent /\ Day(r.at) = day
      <4> DEFINE used == {i \in DOMAIN inbox[d] : inbox[d][i].day = day /\ ~inbox[d][i].cancelled}
      <4>1. Plain(d, day) \subseteq used
        BY DEF Plain
      <4>2. used \subseteq 1..Len(inbox[d]) /\ Len(inbox[d]) \in Nat
        BY <2>4
      <4>3. IsFiniteSet(used)
        <5>1. IsFiniteSet(1..Len(inbox[d]))
          BY <4>2, FS_Interval
        <5> HIDE DEF used
        <5> QED
          BY <4>2, <5>1, FS_Subset
      <4>4. Cardinality(Plain(d, day)) <= Cardinality(used) /\ Cardinality(used) \in Nat
        BY <4>1, <4>3, FS_Subset, FS_CardinalityType
      <4>5. ~(Cardinality(used) >= DailyBudget)
        BY <1>5, <2>3, <3>4 DEF Refused, budgetUsed
      <4>6. Coming(d, day)' \subseteq Flow
        BY DEF Coming
      <4>7. Cardinality(Coming(d, day)') <= Cardinality(Flow) /\ Cardinality(Coming(d, day)') \in Nat
        BY <3>2, <4>6, FS_Subset, FS_CardinalityType
      <4> HIDE DEF used
      <4> QED
        BY <3>1, <3>2, <4>4, <4>5, <4>7
    <3> QED
      BY <3>3, <3>4
  <2>9. CallsDue(d)'
    BY <1>2, <2>2, <2>3, <2>4, <2>6 DEF DeviceInv, CallsDue
  <2>10. TimersAhead(d)' /\ RowsDue(d)' /\ ShownLate(d)'
    BY <2>2, <2>4 DEF DeviceInv, TimersAhead, RowsDue, ShownLate
  <2>11. DeviceInv(d)'
    BY <2>7, <2>8, <2>9, <2>10 DEF DeviceInv
  <2>12. /\ inbox' = [inbox EXCEPT ![d] = inbox[d]] /\ os' = [os EXCEPT ![d] = os[d]]
         /\ shown' = [shown EXCEPT ![d] = shown[d]] /\ enabled' \in [Device -> BOOLEAN] /\ now' = now
    BY <2>2 DEF GateInv
  <2> QED
    BY <2>1, <2>11, <2>12, OneDeviceMoves
<1> QED
  BY <1>4, <1>5

-----------------------------------------------------------------------------
(* The steps of a device. *)

LEMMA StepScheduleFromPlan ==
  ASSUME GateInv, NEW d \in Device, NEW f \in Flow, scheduleFromPlan(d, f)
  PROVE  GateInv'
<1>1. PICK k \in PlanKey, asked \in 0..MaxHour :
        create(d, f, [key |-> k, urgent |-> k \in UrgentPlan, asked |-> asked])
  BY DEF scheduleFromPlan
<1>2. [key |-> k, urgent |-> k \in UrgentPlan, asked |-> asked] \in FlowRequest
  BY DEF FlowRequest, Asked
<1>3. flow[d][f].pc \in {"idle", "item"}
  BY DEF scheduleFromPlan
<1> QED
  BY <1>1, <1>2, <1>3, StepCreate

LEMMA StepInsert ==
  ASSUME GateInv, NEW d \in Device, NEW f \in Flow, Insert(d, f)
  PROVE  GateInv'
<1> DEFINE c == flow[d][f]
           new == [key |-> c.req.key, urgent |-> c.req.urgent, at |-> c.at,
                   day |-> Day(c.at), created |-> now, cancelled |-> FALSE]
           r == [c EXCEPT !.pc = "schedule", !.row = Len(inbox'[d])]
           n == Len(inbox[d]) + 1
<1>1. /\ c \in FlowCall /\ c.pc = "insert" /\ DeviceInv(d) /\ now \in 0..MaxHour
      /\ inbox[d] \in Seq(Row) /\ flow[d] \in [Flow -> FlowCall]
  BY CallTyped DEF Insert, GateInv, DeviceInv, DeviceTyped
<1>2. /\ inbox' = [inbox EXCEPT ![d] = Append(inbox[d], new)]
      /\ flow' = [flow EXCEPT ![d] = [flow[d] EXCEPT ![f] = r]]
      /\ UNCHANGED <<now, enabled, os, shown>>
  <2>1. /\ inbox' = [inbox EXCEPT ![d] = Append(inbox[d], new)]
        /\ flow' = [flow EXCEPT ![d][f].pc = "schedule", ![d][f].row = Len(inbox'[d])]
        /\ UNCHANGED <<now, enabled, os, shown>>
    BY DEF Insert
  <2> HIDE DEF new
  <2>2. flow = [e \in Device |-> flow[e]]
    BY DEF GateInv
  <2> DEFINE m == Len(inbox'[d])
  <2>3. flow' = [flow EXCEPT ![d][f].pc = "schedule", ![d][f].row = m]
    BY <2>1
  <2> HIDE DEF m
  <2>4. flow' = [flow EXCEPT ![d] = [flow[d] EXCEPT ![f] = [c EXCEPT !.pc = "schedule", !.row = m]]]
    BY <1>1, <2>2, <2>3
  <2> QED
    BY <2>1, <2>4 DEF m
<1>3. Day(c.at) \in Nat
  <2>1. c.at \in Nat /\ HoursPerDay \in Nat \ {0}
    BY <1>1, GateAssumption DEF FlowCall, Never
  <2> QED
    BY <2>1, Division DEF Day
<1>4. new \in Row
  BY <1>1, <1>3 DEF FlowCall, FlowRequest, Row
<1>5. new.created = now /\ new.at = c.at /\ new.urgent = c.req.urgent /\ ~new.cancelled /\ new.day = Day(c.at)
  OBVIOUS
<1> HIDE DEF new
<1>6. inbox'[d] = Append(inbox[d], new) /\ flow'[d] = [flow[d] EXCEPT ![f] = r]
  BY <1>2 DEF GateInv
<1>7. /\ inbox'[d] \in Seq(Row) /\ Len(inbox'[d]) = n /\ n \in Nat /\ inbox'[d][n] = new
      /\ \A i \in DOMAIN inbox[d] : inbox'[d][i] = inbox[d][i]
      /\ DOMAIN inbox'[d] = DOMAIN inbox[d] \cup {n} /\ n \notin DOMAIN inbox[d]
  BY <1>1, <1>4, <1>6
<1>8. r \in FlowCall /\ r.pc = "schedule" /\ r.at = c.at /\ r.row = n
  BY <1>1, <1>7 DEF FlowCall
<1> HIDE DEF r, n, c
<1>9. flow'[d] \in [Flow -> FlowCall] /\ flow'[d][f] = r /\ \A g \in Flow : g # f => flow'[d][g] = flow[d][g]
  BY <1>1, <1>6, <1>8
<1>10. DeviceTyped(d)'
  BY <1>1, <1>2, <1>7, <1>9 DEF DeviceInv, DeviceTyped
<1>11. BudgetLeft(d)'
  <2> SUFFICES ASSUME NEW day \in Nat
               PROVE  Cardinality(Plain(d, day)') + Cardinality(Coming(d, day)') <= DailyBudget + Cardinality(Flow) - 1
    BY DEF BudgetLeft
  <2>1. Cardinality(Plain(d, day)) + Cardinality(Coming(d, day)) <= DailyBudget + Cardinality(Flow) - 1
    BY <1>1 DEF DeviceInv, BudgetLeft
  <2>2. CASE c.req.urgent \/ Day(c.at) # day
    <3>1. Plain(d, day)' = Plain(d, day)
      BY <1>5, <1>7, <2>2 DEF Plain
    <3>2. Coming(d, day)' = Coming(d, day)
      BY <1>8, <1>9, <2>2 DEF Coming, c
    <3> QED
      BY <2>1, <3>1, <3>2
  <2>3. CASE ~c.req.urgent /\ Day(c.at) = day
    <3>1. Plain(d, day)' = Plain(d, day) \cup {n} /\ n \notin Plain(d, day)
      BY <1>5, <1>7, <2>3 DEF Plain
    <3>2. Coming(d, day)' = Coming(d, day) \ {f} /\ f \in Coming(d, day)
      BY <1>1, <1>8, <1>9, <2>3 DEF Coming, c
    <3>3. /\ IsFiniteSet(Plain(d, day)) /\ Cardinality(Plain(d, day)) \in Nat
          /\ IsFiniteSet(Coming(d, day)) /\ Cardinality(Coming(d, day)) \in Nat
      BY <1>1, PlainFinite, ComingFinite
    <3>4. Cardinality(Plain(d, day)') = Cardinality(Plain(d, day)) + 1
      BY <3>1, <3>3, FS_AddElement
    <3>5. Cardinality(Coming(d, day)') = Cardinality(Coming(d, day)) - 1
      BY <3>2, <3>3, FS_RemoveElement
    <3> QED
      BY <2>1, <3>3, <3>4, <3>5
  <2> QED
    BY <2>2, <2>3
<1>12. TimersAhead(d)'
  BY <1>1, <1>2, <1>7 DEF DeviceInv, DeviceTyped, TimersAhead
<1>13. RowsDue(d)'
  <2> SUFFICES ASSUME NEW i \in DOMAIN inbox'[d]
               PROVE  /\ inbox'[d][i].created <= now
                      /\ isQuietAt(inbox'[d][i].at) /\ ~inbox'[d][i].urgent => inbox'[d][i].at <= inbox'[d][i].created
    BY <1>2 DEF RowsDue
  <2>1. CASE i \in DOMAIN inbox[d]
    BY <1>1, <1>7, <2>1 DEF DeviceInv, RowsDue
  <2>2. CASE i = n
    BY <1>1, <1>5, <1>7, <2>2 DEF DeviceInv, CallsDue, c
  <2> QED
    BY <1>7, <2>1, <2>2
<1>14. CallsDue(d)'
  BY <1>1, <1>2, <1>5, <1>7, <1>8, <1>9 DEF DeviceInv, CallsDue
<1>15. ShownLate(d)'
  BY <1>1, <1>2, <1>7 DEF DeviceInv, DeviceTyped, ShownLate
<1>16. DeviceInv(d)'
  BY <1>10, <1>11, <1>12, <1>13, <1>14, <1>15 DEF DeviceInv
<1>17. /\ os' = [os EXCEPT ![d] = os[d]] /\ shown' = [shown EXCEPT ![d] = shown[d]]
       /\ enabled' \in [Device -> BOOLEAN] /\ now' = now
  BY <1>2 DEF GateInv
<1> QED
  BY <1>2, <1>16, <1>17, OneDeviceMoves

LEMMA StepPushToDevice ==
  ASSUME GateInv, NEW d \in Device, NEW f \in Flow, pushToDevice(d, f)
  PROVE  GateInv'
<1> DEFINE c == flow[d][f]
           timers == IF c.at >= now THEN os[d] \cup {c.row} ELSE os[d]
<1>1. c \in FlowCall /\ c.pc = "schedule" /\ DeviceInv(d)
  BY CallTyped DEF pushToDevice, GateInv
<1>2. /\ flow' = [flow EXCEPT ![d] = [flow[d] EXCEPT ![f] = After(c)]]
      /\ os' = [os EXCEPT ![d] = timers]
      /\ UNCHANGED <<now, enabled, inbox, shown>>
  BY DEF pushToDevice
<1>3. /\ flow'[d] = [flow[d] EXCEPT ![f] = After(c)] /\ os'[d] = timers
      /\ inbox'[d] = inbox[d] /\ shown'[d] = shown[d]
  BY <1>2 DEF GateInv
<1>4. After(c) \in FlowCall /\ After(c).pc \in {"idle", "ack"}
  BY <1>1, AfterTyped
<1>5. flow'[d] \in [Flow -> FlowCall] /\ flow'[d][f] = After(c) /\ \A g \in Flow : g # f => flow'[d][g] = flow[d][g]
  BY <1>1, <1>3, <1>4 DEF DeviceInv, DeviceTyped
<1>6. timers \subseteq DOMAIN inbox[d] /\ \A i \in timers : inbox[d][i].at >= now
  BY <1>1 DEF DeviceInv, DeviceTyped, TimersAhead, CallsDue
<1> HIDE DEF timers, c
<1>7. DeviceTyped(d)'
  BY <1>1, <1>2, <1>3, <1>5, <1>6 DEF DeviceInv, DeviceTyped
<1>8. BudgetLeft(d)'
  <2> SUFFICES ASSUME NEW day \in Nat
               PROVE  Cardinality(Plain(d, day)') + Cardinality(Coming(d, day)') <= DailyBudget + Cardinality(Flow) - 1
    BY DEF BudgetLeft
  <2>1. Plain(d, day)' = Plain(d, day)
    BY <1>3 DEF Plain
  <2>2. Coming(d, day)' = Coming(d, day)
    BY <1>1, <1>4, <1>5 DEF Coming, c
  <2> QED
    BY <1>1, <2>1, <2>2 DEF DeviceInv, BudgetLeft
<1>9. TimersAhead(d)'
  BY <1>2, <1>3, <1>6 DEF TimersAhead
<1>10. RowsDue(d)' /\ ShownLate(d)'
  BY <1>1, <1>2, <1>3 DEF DeviceInv, RowsDue, ShownLate
<1>11. CallsDue(d)'
  BY <1>1, <1>2, <1>3, <1>4, <1>5 DEF DeviceInv, CallsDue
<1>12. DeviceInv(d)'
  BY <1>7, <1>8, <1>9, <1>10, <1>11 DEF DeviceInv
<1>13. /\ inbox' = [inbox EXCEPT ![d] = inbox[d]] /\ shown' = [shown EXCEPT ![d] = shown[d]]
       /\ enabled' \in [Device -> BOOLEAN] /\ now' = now
  BY <1>2 DEF GateInv
<1> QED
  BY <1>2, <1>12, <1>13, OneDeviceMoves

LEMMA StepCancel ==
  ASSUME GateInv, NEW d \in Device, NEW i \in DOMAIN inbox[d], cancel(d, i)
  PROVE  GateInv'
<1> DEFINE r == [inbox[d][i] EXCEPT !.cancelled = TRUE]
<1>1. DeviceInv(d) /\ inbox[d] \in Seq(Row) /\ flow[d] \in [Flow -> FlowCall]
  BY DEF GateInv, DeviceInv, DeviceTyped
<1>2. /\ inbox' = [inbox EXCEPT ![d] = [inbox[d] EXCEPT ![i] = r]]
      /\ os' = [os EXCEPT ![d] = os[d] \ {i}]
      /\ UNCHANGED <<now, enabled, flow, shown>>
  BY DEF cancel
<1>3. /\ inbox'[d] = [inbox[d] EXCEPT ![i] = r] /\ os'[d] = os[d] \ {i}
      /\ flow'[d] = flow[d] /\ shown'[d] = shown[d]
  BY <1>2 DEF GateInv
<1>4. inbox[d][i] \in Row
  BY <1>1, ElementOfSeq
<1>5. /\ r \in Row /\ r.cancelled /\ r.at = inbox[d][i].at /\ r.day = inbox[d][i].day
      /\ r.urgent = inbox[d][i].urgent /\ r.created = inbox[d][i].created
  BY <1>4 DEF Row
<1> HIDE DEF r
<1>6. /\ inbox'[d] \in Seq(Row) /\ DOMAIN inbox'[d] = DOMAIN inbox[d] /\ inbox'[d][i] = r
      /\ \A j \in DOMAIN inbox[d] : j # i => inbox'[d][j] = inbox[d][j]
  BY <1>1, <1>3, <1>5
<1>7. \A j \in DOMAIN inbox[d] : /\ inbox'[d][j].at = inbox[d][j].at /\ inbox'[d][j].urgent = inbox[d][j].urgent
                                 /\ inbox'[d][j].day = inbox[d][j].day /\ inbox'[d][j].created = inbox[d][j].created
                                 /\ inbox[d][j].cancelled => inbox'[d][j].cancelled
  BY <1>5, <1>6
<1>8. DeviceTyped(d)'
  BY <1>1, <1>2, <1>3, <1>6 DEF DeviceInv, DeviceTyped
<1>9. BudgetLeft(d)'
  <2> SUFFICES ASSUME NEW day \in Nat
               PROVE  Cardinality(Plain(d, day)') + Cardinality(Coming(d, day)') <= DailyBudget + Cardinality(Flow) - 1
    BY DEF BudgetLeft
  <2>1. Plain(d, day)' \subseteq Plain(d, day)
    BY <1>6, <1>7 DEF Plain
  <2>2. Coming(d, day)' = Coming(d, day)
    BY <1>3 DEF Coming
  <2>3. /\ IsFiniteSet(Plain(d, day)) /\ Cardinality(Plain(d, day)) \in Nat /\ Cardinality(Coming(d, day)) \in Nat
        /\ Cardinality(Flow) \in Nat /\ DailyBudget \in Nat
    BY <1>1, PlainFinite, ComingFinite, GateAssumption
  <2>4. Cardinality(Plain(d, day)') <= Cardinality(Plain(d, day)) /\ Cardinality(Plain(d, day)') \in Nat
    BY <2>1, <2>3, FS_Subset, FS_CardinalityType
  <2>5. Cardinality(Plain(d, day)) + Cardinality(Coming(d, day)) <= DailyBudget + Cardinality(Flow) - 1
    BY <1>1 DEF DeviceInv, BudgetLeft
  <2> QED
    BY <2>2, <2>3, <2>4, <2>5
<1>10. TimersAhead(d)' /\ RowsDue(d)' /\ CallsDue(d)'
  BY <1>1, <1>2, <1>3, <1>6, <1>7 DEF DeviceInv, DeviceTyped, TimersAhead, RowsDue, CallsDue
<1>11. ShownLate(d)'
  BY <1>1, <1>3, <1>7 DEF DeviceInv, DeviceTyped, ShownLate
<1>12. DeviceInv(d)'
  BY <1>8, <1>9, <1>10, <1>11 DEF DeviceInv
<1>13. /\ flow' = [flow EXCEPT ![d] = flow[d]] /\ shown' = [shown EXCEPT ![d] = shown[d]]
       /\ enabled' \in [Device -> BOOLEAN] /\ now' = now
  BY <1>2 DEF GateInv
<1> QED
  BY <1>2, <1>12, <1>13, OneDeviceMoves

LEMMA StepSetPreference ==
  ASSUME GateInv, NEW d \in Device, setPreference(d)
  PROVE  GateInv'
<1>1. enabled' \in [Device -> BOOLEAN] /\ UNCHANGED <<now, inbox, flow, os, shown>>
  BY DEF setPreference, GateInv
<1>2. \A e \in Device : DeviceInv(e)'
  BY <1>1, DeviceRests DEF GateInv
<1> QED
  BY <1>1, <1>2 DEF GateInv

LEMMA StepFire ==
  ASSUME GateInv, NEW d \in Device, NEW i, Fire(d, i)
  PROVE  GateInv'
<1> DEFINE s == [row |-> i, at |-> now]
<1>1. DeviceInv(d) /\ now \in 0..MaxHour /\ i \in os[d] /\ inbox[d][i].at <= now
  BY DEF GateInv, Fire
<1>2. /\ shown' = [shown EXCEPT ![d] = shown[d] \cup {s}] /\ os' = [os EXCEPT ![d] = os[d] \ {i}]
      /\ UNCHANGED <<now, enabled, inbox, flow>>
  BY DEF Fire
<1>3. /\ shown'[d] = shown[d] \cup {s} /\ os'[d] = os[d] \ {i}
      /\ inbox'[d] = inbox[d] /\ flow'[d] = flow[d]
  BY <1>2 DEF GateInv
<1>4. i \in DOMAIN inbox[d] /\ inbox[d] \in Seq(Row)
  BY <1>1 DEF DeviceInv, DeviceTyped
<1>5. inbox[d][i] \in Row
  BY <1>4, ElementOfSeq
<1>6. /\ inbox[d][i].at \in Nat /\ inbox[d][i].created \in Nat /\ now \in Nat
  BY <1>1, <1>5, GateAssumption DEF Row, Never
<1>7. /\ inbox[d][i].at >= now /\ inbox[d][i].created <= now
      /\ isQuietAt(inbox[d][i].at) /\ ~inbox[d][i].urgent => inbox[d][i].at <= inbox[d][i].created
  BY <1>1, <1>4 DEF DeviceInv, TimersAhead, RowsDue
<1>8. inbox[d][i].at = now
  BY <1>1, <1>6, <1>7
<1>9. isQuietAt(now) /\ ~inbox[d][i].urgent => inbox[d][i].created = now
  BY <1>6, <1>7, <1>8
<1>10. DeviceTyped(d)'
  BY <1>1, <1>2, <1>3, <1>4 DEF DeviceInv, DeviceTyped
<1>11. BudgetLeft(d)'
  BY <1>1, <1>3 DEF DeviceInv, BudgetLeft, Plain, Coming
<1>12. TimersAhead(d)' /\ RowsDue(d)' /\ CallsDue(d)'
  BY <1>1, <1>2, <1>3 DEF DeviceInv, TimersAhead, RowsDue, CallsDue
<1>13. ShownLate(d)'
  BY <1>1, <1>3, <1>9 DEF DeviceInv, ShownLate
<1>14. DeviceInv(d)'
  BY <1>10, <1>11, <1>12, <1>13 DEF DeviceInv
<1>15. /\ flow' = [flow EXCEPT ![d] = flow[d]] /\ inbox' = [inbox EXCEPT ![d] = inbox[d]]
       /\ enabled' \in [Device -> BOOLEAN] /\ now' = now
  BY <1>2 DEF GateInv
<1> QED
  BY <1>2, <1>14, <1>15, OneDeviceMoves

LEMMA StepReload ==
  ASSUME GateInv, NEW d \in Device, Reload(d)
  PROVE  GateInv'
<1> DEFINE fl == [f \in Flow |-> Resting]
           timers == IF d \in PersistentScheduler THEN os[d] ELSE {}
<1>1. DeviceInv(d)
  BY DEF GateInv
<1>2. /\ flow' = [flow EXCEPT ![d] = fl] /\ os' = [os EXCEPT ![d] = timers]
      /\ UNCHANGED <<now, enabled, inbox, shown>>
  BY DEF Reload
<1>3. /\ flow'[d] = fl /\ os'[d] \subseteq os[d] /\ inbox'[d] = inbox[d] /\ shown'[d] = shown[d]
  BY <1>2 DEF GateInv
<1>4. \A f \in Flow : flow'[d][f] = Resting
  BY <1>3
<1>5. Resting \in FlowCall /\ Resting.pc = "idle"
  BY RestingTyped
<1>6. flow'[d] \in [Flow -> FlowCall]
  BY <1>3, <1>5
<1> HIDE DEF fl, timers
<1>7. DeviceTyped(d)'
  BY <1>1, <1>2, <1>3, <1>6 DEF DeviceInv, DeviceTyped
<1>8. BudgetLeft(d)'
  <2> SUFFICES ASSUME NEW day \in Nat
               PROVE  Cardinality(Plain(d, day)') + Cardinality(Coming(d, day)') <= DailyBudget + Cardinality(Flow) - 1
    BY DEF BudgetLeft
  <2>1. Plain(d, day)' = Plain(d, day)
    BY <1>3 DEF Plain
  <2>2. Coming(d, day)' = {}
    BY <1>4, <1>5 DEF Coming
  <2>3. Cardinality(Coming(d, day)') = 0
    BY <2>2, FS_EmptySet
  <2>4. inbox[d] \in Seq(Row)
    BY <1>1 DEF DeviceInv, DeviceTyped
  <2>5. /\ Cardinality(Plain(d, day)) \in Nat /\ Cardinality(Coming(d, day)) \in Nat
        /\ Cardinality(Flow) \in Nat /\ DailyBudget \in Nat
    BY <2>4, PlainFinite, ComingFinite, GateAssumption
  <2>6. Cardinality(Plain(d, day)) + Cardinality(Coming(d, day)) <= DailyBudget + Cardinality(Flow) - 1
    BY <1>1 DEF DeviceInv, BudgetLeft
  <2> QED
    BY <2>1, <2>3, <2>5, <2>6
<1>9. TimersAhead(d)' /\ RowsDue(d)' /\ ShownLate(d)'
  BY <1>1, <1>2, <1>3 DEF DeviceInv, TimersAhead, RowsDue, ShownLate
<1>10. CallsDue(d)'
  BY <1>4, <1>5 DEF CallsDue
<1>11. DeviceInv(d)'
  BY <1>7, <1>8, <1>9, <1>10 DEF DeviceInv
<1>12. /\ inbox' = [inbox EXCEPT ![d] = inbox[d]] /\ shown' = [shown EXCEPT ![d] = shown[d]]
       /\ enabled' \in [Device -> BOOLEAN] /\ now' = now
  BY <1>2 DEF GateInv
<1> QED
  BY <1>2, <1>11, <1>12, OneDeviceMoves

LEMMA StepTick ==
  ASSUME GateInv, Tick
  PROVE  GateInv'
<1> USE GateAssumption
<1>1. /\ now \in 0..MaxHour /\ now < MaxHour /\ now' = now + 1
      /\ \A d \in Device : \A i \in os[d] : inbox[d][i].at > now
      /\ UNCHANGED <<enabled, inbox, flow, os, shown>>
  BY DEF Tick, GateInv
<1>2. \A d \in Device : DeviceInv(d)'
  <2> SUFFICES ASSUME NEW d \in Device PROVE DeviceInv(d)'
    OBVIOUS
  <2>1. DeviceInv(d) /\ inbox[d] \in Seq(Row) /\ flow[d] \in [Flow -> FlowCall] /\ os[d] \subseteq DOMAIN inbox[d]
    BY DEF GateInv, DeviceInv, DeviceTyped
  <2>2. \A i \in DOMAIN inbox[d] : inbox[d][i] \in Row
    BY <2>1, ElementOfSeq
  <2>3. \A i \in DOMAIN inbox[d] : inbox[d][i].at \in Nat /\ inbox[d][i].created \in Nat
    BY <2>2 DEF Row, Never
  <2>4. \A f \in Flow : flow[d][f].at \in Nat
    BY <2>1 DEF FlowCall, Never
  <2>5. DeviceTyped(d)' /\ ShownLate(d)'
    BY <1>1, <2>1 DEF DeviceInv, DeviceTyped, ShownLate
  <2>6. BudgetLeft(d)'
    BY <1>1, <2>1 DEF DeviceInv, BudgetLeft, Plain, Coming
  <2>7. TimersAhead(d)'
    BY <1>1, <2>1, <2>3 DEF TimersAhead
  <2>8. RowsDue(d)'
    BY <1>1, <2>1, <2>3 DEF DeviceInv, RowsDue
  <2>9. CallsDue(d)'
    BY <1>1, <2>1, <2>4 DEF DeviceInv, CallsDue
  <2> QED
    BY <2>5, <2>6, <2>7, <2>8, <2>9 DEF DeviceInv
<1>3. now' \in 0..MaxHour
  BY <1>1
<1> QED
  BY <1>1, <1>2, <1>3 DEF GateInv

LEMMA GateKept == ASSUME GateInv, GateNext PROVE GateInv'
<1>1. CASE Tick
  BY <1>1, StepTick
<1>2. ASSUME NEW d \in Device, setPreference(d) PROVE GateInv'
  BY <1>2, StepSetPreference
<1>3. ASSUME NEW d \in Device, Reload(d) PROVE GateInv'
  BY <1>3, StepReload
<1>4. ASSUME NEW d \in Device, NEW f \in Flow, scheduleFromPlan(d, f) \/ Insert(d, f) \/ pushToDevice(d, f)
      PROVE  GateInv'
  BY <1>4, StepScheduleFromPlan, StepInsert, StepPushToDevice
<1>5. ASSUME NEW d \in Device, NEW i \in DOMAIN inbox[d], cancel(d, i) \/ Fire(d, i) PROVE GateInv'
  BY <1>5, StepCancel, StepFire
<1> QED
  BY <1>1, <1>2, <1>3, <1>4, <1>5 DEF GateNext

-----------------------------------------------------------------------------
(* What the polls have fetched. *)

LEMMA BatchStays ==
  ASSUME NEW d, NEW f, BatchKnown(d, f), flow'[d][f] = flow[d][f], DOMAIN note \subseteq DOMAIN note'
  PROVE  BatchKnown(d, f)'
<1>1. Seq(DOMAIN note) \subseteq Seq(DOMAIN note')
  <2> SUFFICES ASSUME NEW s \in Seq(DOMAIN note) PROVE s \in Seq(DOMAIN note')
    OBVIOUS
  <2>1. s \in [1..Len(s) -> DOMAIN note] /\ Len(s) \in Nat
    OBVIOUS
  <2>2. s \in [1..Len(s) -> DOMAIN note']
    BY <2>1
  <2> QED
    BY <2>1, <2>2, SeqDef
<1> QED
  BY <1>1 DEF BatchKnown

LEMMA OneBatchMoves ==
  ASSUME GateInv, BatchesKnown, NEW d \in Device, NEW f \in Flow, NEW c,
         flow' = [flow EXCEPT ![d] = [flow[d] EXCEPT ![f] = c]],
         c.batch \in Seq(DOMAIN note), c.pc \in {"item", "ack"} => c.batch # <<>>,
         DOMAIN note' = DOMAIN note
  PROVE  BatchesKnown'
<1>1. flow[d] \in [Flow -> FlowCall]
  BY DEF GateInv, DeviceInv, DeviceTyped
<1>2. flow'[d][f] = c /\ \A e \in Device, g \in Flow : <<e, g>> # <<d, f>> => flow'[e][g] = flow[e][g]
  BY <1>1 DEF GateInv
<1>3. BatchKnown(d, f)'
  BY <1>2 DEF BatchKnown
<1>4. \A e \in Device, g \in Flow : <<e, g>> # <<d, f>> => BatchKnown(e, g)'
  BY <1>2, BatchStays DEF BatchesKnown
<1> QED
  BY <1>3, <1>4 DEF BatchesKnown

LEMMA BatchesStay ==
  ASSUME BatchesKnown, flow' = flow, DOMAIN note \subseteq DOMAIN note'
  PROVE  BatchesKnown'
BY BatchStays DEF BatchesKnown

LEMMA AfterBatch ==
  ASSUME NEW c \in FlowCall
  PROVE  After(c).batch = c.batch /\ (After(c).pc \in {"item", "ack"} => After(c).batch # <<>>)
BY DEF After, Resting

LEMMA CreateBatch ==
  ASSUME GateInv, BatchesKnown, NEW d \in Device, NEW f \in Flow, NEW q \in FlowRequest,
         create(d, f, q), note' = note
  PROVE  BatchesKnown'
<1> DEFINE c == [flow[d][f] EXCEPT !.req = q, !.at = ScheduledAt(q)]
           r == [c EXCEPT !.pc = "insert"]
<1>1. flow[d][f] \in FlowCall /\ flow[d][f].batch \in Seq(DOMAIN note)
  BY CallTyped DEF BatchesKnown, BatchKnown
<1>2. ScheduledAt(q) \in 0..Never
  BY DueTime DEF GateInv, FlowRequest
<1>3. c \in FlowCall /\ c.batch = flow[d][f].batch /\ r.batch = flow[d][f].batch /\ r.pc = "insert"
  BY <1>1, <1>2 DEF FlowCall
<1>4. flow' = [flow EXCEPT ![d] = [flow[d] EXCEPT ![f] = IF Refused(d, q) THEN After(c) ELSE r]]
  BY DEF create
<1> HIDE DEF c, r
<1>5. CASE Refused(d, q)
  <2>1. flow' = [flow EXCEPT ![d] = [flow[d] EXCEPT ![f] = After(c)]]
    BY <1>4, <1>5
  <2> QED
    BY <1>1, <1>3, <2>1, AfterBatch, OneBatchMoves
<1>6. CASE ~Refused(d, q)
  <2>1. flow' = [flow EXCEPT ![d] = [flow[d] EXCEPT ![f] = r]]
    BY <1>4, <1>6
  <2> QED
    BY <1>1, <1>3, <2>1, OneBatchMoves
<1> QED
  BY <1>5, <1>6

LEMMA GateBatches ==
  ASSUME GateInv, BatchesKnown, GateNext, note' = note
  PROVE  BatchesKnown'
<1>1. CASE Tick
  BY <1>1, BatchesStay DEF Tick
<1>2. ASSUME NEW d \in Device, setPreference(d) PROVE BatchesKnown'
  BY <1>2, BatchesStay DEF setPreference
<1>3. ASSUME NEW d \in Device, Reload(d) PROVE BatchesKnown'
  <2>1. /\ \A f \in Flow : flow'[d][f] = Resting
        /\ \A e \in Device : e # d => flow'[e] = flow[e]
    BY <1>3 DEF Reload, GateInv
  <2>2. \A e \in Device, f \in Flow : e # d => BatchKnown(e, f)'
    BY <2>1, BatchStays DEF BatchesKnown
  <2>3. \A f \in Flow : BatchKnown(d, f)'
    <3>1. Resting.batch = <<>> /\ Resting.pc = "idle" /\ <<>> \in Seq(DOMAIN note')
      BY DEF Resting
    <3> QED
      BY <2>1, <3>1 DEF BatchKnown
  <2> QED
    BY <2>2, <2>3 DEF BatchesKnown
<1>4. ASSUME NEW d \in Device, NEW f \in Flow, scheduleFromPlan(d, f) PROVE BatchesKnown'
  <2>1. PICK k \in PlanKey, asked \in 0..MaxHour :
          create(d, f, [key |-> k, urgent |-> k \in UrgentPlan, asked |-> asked])
    BY <1>4 DEF scheduleFromPlan
  <2>2. [key |-> k, urgent |-> k \in UrgentPlan, asked |-> asked] \in FlowRequest
    BY DEF FlowRequest, Asked
  <2> QED
    BY <2>1, <2>2, CreateBatch
<1>5. ASSUME NEW d \in Device, NEW f \in Flow, Insert(d, f) PROVE BatchesKnown'
  <2>1. flow[d] \in [Flow -> FlowCall] /\ flow[d][f].batch \in Seq(DOMAIN note)
    BY DEF GateInv, DeviceInv, DeviceTyped, BatchesKnown, BatchKnown
  <2> DEFINE m == Len(inbox'[d])
  <2>2. flow' = [flow EXCEPT ![d][f].pc = "schedule", ![d][f].row = m] /\ flow = [e \in Device |-> flow[e]]
    BY <1>5 DEF Insert, GateInv
  <2> HIDE DEF m
  <2>3. flow' = [flow EXCEPT ![d] = [flow[d] EXCEPT ![f] = [flow[d][f] EXCEPT !.pc = "schedule", !.row = m]]]
    BY <2>1, <2>2
  <2>4. /\ [flow[d][f] EXCEPT !.pc = "schedule", !.row = m].batch = flow[d][f].batch
        /\ [flow[d][f] EXCEPT !.pc = "schedule", !.row = m].pc = "schedule"
    BY <2>1 DEF FlowCall
  <2> QED
    BY <2>1, <2>3, <2>4, OneBatchMoves
<1>6. ASSUME NEW d \in Device, NEW f \in Flow, pushToDevice(d, f) PROVE BatchesKnown'
  <2>1. flow' = [flow EXCEPT ![d] = [flow[d] EXCEPT ![f] = After(flow[d][f])]]
    BY <1>6 DEF pushToDevice
  <2>2. flow[d][f] \in FlowCall /\ flow[d][f].batch \in Seq(DOMAIN note)
    BY CallTyped DEF BatchesKnown, BatchKnown
  <2> QED
    BY <2>1, <2>2, AfterBatch, OneBatchMoves
<1>7. ASSUME NEW d \in Device, NEW i \in DOMAIN inbox[d], cancel(d, i) \/ Fire(d, i) PROVE BatchesKnown'
  BY <1>7, BatchesStay DEF cancel, Fire
<1> QED
  BY <1>1, <1>2, <1>3, <1>4, <1>5, <1>6, <1>7 DEF GateNext

-----------------------------------------------------------------------------
(* The server. *)

(* A notification adds at most its own row. *)
Adds(k, news) ==
    /\ note' \in Seq(Note) /\ Len(note') <= lost'.notes /\ lost'.notes \in 0..MaxNotes
    /\ DOMAIN lost' = DOMAIN lost
    /\ delivery' \in [1..MaxNotes -> Delivery]
    /\ DOMAIN note \subseteq DOMAIN note' /\ \A i \in DOMAIN note : note'[i] = note[i]
    /\ \/ note' = note
       \/ /\ DOMAIN note' = DOMAIN note \cup {Len(note) + 1}
          /\ note'[Len(note) + 1].news = news /\ note'[Len(note) + 1].created = now

LEMMA StoredTyped ==
  ASSUME OutboxInv, NEW k \in Message \cup Items, NEW news \in BOOLEAN
  PROVE  Stored(k, news) \in Note
<1>1. now \in 0..MaxHour /\ now + HoursPerDay \in 0..Never /\ Never \in 0..Never
  BY GateAssumption DEF OutboxInv, GateInv, Never
<1> QED
  BY <1>1 DEF Stored, Note, Items

LEMMA NotifyAdds ==
  ASSUME OutboxInv, NEW k \in Message \cup Items, NEW news \in BOOLEAN, Notify(k, news)
  PROVE  Adds(k, news)
<1>1. /\ note \in Seq(Note) /\ Len(note) \in Nat /\ Len(note) <= lost.notes /\ lost.notes \in 0..MaxNotes
      /\ DOMAIN lost = {"notes", "requests", "restarts", "subs", "polls", "throws"}
      /\ delivery \in [1..MaxNotes -> Delivery] /\ sub \subseteq Device /\ MaxNotes \in Nat
  BY OutboxAssumption DEF OutboxInv, ServerTyped
<1>2. CASE SameKey(k) # {}
  BY <1>1, <1>2 DEF Notify, Adds
<1>3. CASE SameKey(k) = {}
  <2> DEFINE s == Stored(k, news)
             begun == [NoDelivery EXCEPT !.pc = "next", !.todo = sub]
  <2>1. /\ lost.notes < MaxNotes
        /\ lost' = [lost EXCEPT !.notes = lost.notes + 1]
        /\ note' = Append(note, s)
        /\ delivery' = IF sub = {} THEN delivery ELSE [delivery EXCEPT ![Len(note) + 1] = begun]
    BY <1>3 DEF Notify
  <2>2. s \in Note /\ s.news = news /\ s.created = now
    BY StoredTyped DEF Stored
  <2>3. begun \in Delivery
    BY <1>1 DEF NoDelivery, Delivery
  <2> HIDE DEF s, begun
  <2>4. DOMAIN lost' = DOMAIN lost /\ lost'.notes = lost.notes + 1
    BY <1>1, <2>1
  <2>5. /\ note' \in Seq(Note) /\ Len(note') = Len(note) + 1
        /\ DOMAIN note' = DOMAIN note \cup {Len(note) + 1} /\ note'[Len(note) + 1] = s
        /\ \A i \in DOMAIN note : note'[i] = note[i]
    BY <1>1, <2>1, <2>2
  <2>6. delivery' \in [1..MaxNotes -> Delivery]
    BY <1>1, <2>1, <2>3
  <2> QED
    BY <1>1, <2>1, <2>2, <2>4, <2>5, <2>6 DEF Adds
<1> QED
  BY <1>2, <1>3

(* The rows that exist may be marked; their news and their day stay. *)
Marks ==
    /\ note' \in Seq(Note) /\ Len(note') = Len(note)
    /\ \A i \in DOMAIN note : note'[i].news = note[i].news /\ note'[i].created = note[i].created

LEMMA MarkRow ==
  ASSUME note \in Seq(Note), NEW i \in DOMAIN note, NEW r \in Note, note' = [note EXCEPT ![i] = r],
         r.news = note[i].news, r.created = note[i].created
  PROVE  Marks
BY DEF Marks

LEMMA NoteStays == ASSUME note \in Seq(Note), note' = note PROVE Marks
BY DEF Marks

LEMMA NewsRowsFinite ==
  ASSUME note \in Seq(Note), NEW day
  PROVE  IsFiniteSet(NewsRows(day)) /\ Cardinality(NewsRows(day)) \in Nat
<1>1. NewsRows(day) \subseteq 1..Len(note) /\ Len(note) \in Nat
  BY DEF NewsRows
<1>2. IsFiniteSet(1..Len(note))
  BY <1>1, FS_Interval
<1> QED
  BY <1>1, <1>2, FS_Subset, FS_CardinalityType

(* The first day, when rows are marked and the clock does not go back. *)
LEMMA FirstDayStays ==
  ASSUME OutboxInv, Marks, now' \in Nat, now <= now',
         \A l \in Loops : loop'[l].day = loop[l].day \/ (now' < HoursPerDay => loop'[l].day = 0)
  PROVE  FirstDay'
<1> USE GateAssumption
<1>1. note \in Seq(Note) /\ now \in 0..MaxHour /\ FirstDay
  BY DEF OutboxInv, ServerTyped, GateInv
<1>2. DOMAIN note' = DOMAIN note
  BY <1>1 DEF Marks
<1>3. \A i \in DOMAIN note : note[i].created \in Nat
  <2>1. \A i \in DOMAIN note : note[i] \in Note
    BY <1>1, ElementOfSeq
  <2> QED
    BY <2>1 DEF Note
<1>4. NewsRows(0)' = NewsRows(0)
  BY <1>2 DEF NewsRows, Marks
<1>5. \A i \in DOMAIN note' : note'[i].created <= now'
  BY <1>1, <1>2, <1>3 DEF FirstDay, Marks
<1>6. now' < HoursPerDay => now < HoursPerDay
  BY <1>1
<1> QED
  BY <1>1, <1>4, <1>5, <1>6 DEF FirstDay

(* A step of the server or of a device that marks rows and leaves the clock alone. *)
LEMMA MarkingStep ==
  ASSUME OutboxInv, Marks, now' = now,
         sub' \subseteq Device, alive' \subseteq Device, delivery' \in [1..MaxNotes -> Delivery],
         loop' \in [Loops -> Loop],
         \A l \in Loops : loop'[l].day = loop[l].day \/ (now < HoursPerDay => loop'[l].day = 0),
         air' \subseteq (DOMAIN note) \X Device, popped' \subseteq (DOMAIN note) \X Device,
         given' \subseteq (DOMAIN note) \X Device,
         lost'.notes = lost.notes, DOMAIN lost' = DOMAIN lost
  PROVE  ServerTyped' /\ FirstDay'
<1>1. note \in Seq(Note) /\ now \in 0..MaxHour
  BY DEF OutboxInv, ServerTyped, GateInv
<1>2. DOMAIN note' = DOMAIN note
  BY <1>1 DEF Marks
<1>3. ServerTyped'
  BY <1>2 DEF OutboxInv, ServerTyped, Marks
<1>4. now' \in Nat /\ now <= now'
  BY <1>1, GateAssumption
<1>5. FirstDay'
  BY <1>4, FirstDayStays
<1> QED
  BY <1>3, <1>5

(* A step in which the calls of the devices do not move. *)
LEMMA GateStepsAside ==
  ASSUME OutboxInv, UNCHANGED gateVars, Marks
  PROVE  GateInv' /\ BatchesKnown'
<1>1. note \in Seq(Note)
  BY DEF OutboxInv, ServerTyped
<1>2. DOMAIN note' = DOMAIN note
  BY <1>1 DEF Marks
<1>3. GateInv'
  BY GateRests DEF OutboxInv, gateVars
<1>4. BatchesKnown'
  BY <1>2, BatchesStay DEF OutboxInv, gateVars
<1> QED
  BY <1>3, <1>4

-----------------------------------------------------------------------------
(* The steps of the server. *)

LEMMA Begun ==
  ASSUME OutboxInv
  PROVE  /\ note \in Seq(Note) /\ now \in 0..MaxHour /\ now \in Nat
         /\ DOMAIN lost = {"notes", "requests", "restarts", "subs", "polls", "throws"}
         /\ sub \subseteq Device /\ alive \subseteq Device
         /\ delivery \in [1..MaxNotes -> Delivery] /\ loop \in [Loops -> Loop]
         /\ air \subseteq (DOMAIN note) \X Device /\ popped \subseteq (DOMAIN note) \X Device
         /\ given \subseteq (DOMAIN note) \X Device
         /\ DOMAIN note \subseteq 1..MaxNotes
         /\ \A i \in DOMAIN note : note[i] \in Note
<1> USE OutboxAssumption, GateAssumption
<1>1. note \in Seq(Note) /\ Len(note) <= MaxNotes
  BY DEF OutboxInv, ServerTyped
<1>2. \A i \in DOMAIN note : note[i] \in Note
  BY <1>1, ElementOfSeq
<1>3. DOMAIN note \subseteq 1..MaxNotes
  BY <1>1
<1>4. now \in 0..MaxHour /\ now \in Nat
  BY DEF OutboxInv, GateInv
<1>5. /\ DOMAIN lost = {"notes", "requests", "restarts", "subs", "polls", "throws"}
      /\ sub \subseteq Device /\ alive \subseteq Device
      /\ delivery \in [1..MaxNotes -> Delivery] /\ loop \in [Loops -> Loop]
      /\ air \subseteq (DOMAIN note) \X Device /\ popped \subseteq (DOMAIN note) \X Device
      /\ given \subseteq (DOMAIN note) \X Device
  BY DEF OutboxInv, ServerTyped
<1> QED
  BY <1>1, <1>2, <1>3, <1>4, <1>5

LEMMA IdleTyped ==
  /\ NoDelivery \in Delivery /\ NoLoop \in Loop /\ NoLoop.day = 0 /\ Ended \in Loop /\ Ended.day = 0
<1>1. NoDelivery \in Delivery
  BY DEF NoDelivery, Delivery
<1>2. NoLoop \in Loop /\ NoLoop.day = 0
  <2>1. <<>> \in Seq(Items) /\ 0 \in Nat
    OBVIOUS
  <2> QED
    BY <2>1 DEF NoLoop, Loop
<1>3. Ended \in Loop /\ Ended.day = 0
  BY <1>2 DEF Ended, Loop
<1> QED
  BY <1>1, <1>2, <1>3

LEMMA OneMore ==
  ASSUME NEW S, IsFiniteSet(S), Cardinality(S) \in Nat, NEW x
  PROVE  IsFiniteSet(S \cup {x}) /\ Cardinality(S \cup {x}) <= Cardinality(S) + 1
BY FS_AddElement

(* A row that is added. *)
LEMMA AddingStep ==
  ASSUME OutboxInv, NEW k, NEW news \in BOOLEAN, Adds(k, news), UNCHANGED gateVars,
         news => (now < HoursPerDay => Cardinality(NewsRows(0)) < newsDailyCap),
         UNCHANGED <<sub, alive, air, popped, given>>, loop' \in [Loops -> Loop],
         \A l \in Loops : loop'[l].day = loop[l].day
  PROVE  OutboxInv'
<1> USE GateAssumption
<1>1. note \in Seq(Note) /\ now \in Nat /\ FirstDay /\ newsDailyCap \in Nat
  BY Begun, OutboxAssumption DEF OutboxInv
<1>2. UNCHANGED <<now, enabled, inbox, flow, os, shown>>
  BY DEF gateVars
<1>3. GateInv'
  BY <1>2, GateRests DEF OutboxInv
<1>4. BatchesKnown'
  BY <1>2, BatchesStay DEF OutboxInv, Adds
<1>5. ServerTyped'
  BY Begun DEF OutboxInv, ServerTyped, Adds
<1>6. \A i \in DOMAIN note' : note'[i].created <= now
  BY <1>1 DEF FirstDay, Adds
<1>7. now < HoursPerDay => Cardinality(NewsRows(0)') <= newsDailyCap
  <2> SUFFICES ASSUME now < HoursPerDay PROVE Cardinality(NewsRows(0)') <= newsDailyCap
    OBVIOUS
  <2>1. /\ IsFiniteSet(NewsRows(0)) /\ Cardinality(NewsRows(0)) \in Nat /\ Cardinality(NewsRows(0)) <= newsDailyCap
    BY <1>1, NewsRowsFinite DEF FirstDay
  <2>2. CASE ~news \/ note' = note
    <3>1. NewsRows(0)' = NewsRows(0)
      BY <2>2 DEF NewsRows, Adds
    <3> QED
      BY <2>1, <3>1
  <2>3. CASE news /\ note' # note
    <3>1. NewsRows(0)' \subseteq NewsRows(0) \cup {Len(note) + 1}
      BY <2>3 DEF NewsRows, Adds
    <3>2. /\ IsFiniteSet(NewsRows(0) \cup {Len(note) + 1})
          /\ Cardinality(NewsRows(0) \cup {Len(note) + 1}) <= Cardinality(NewsRows(0)) + 1
      BY <2>1, OneMore
    <3>3. Cardinality(NewsRows(0)') <= Cardinality(NewsRows(0) \cup {Len(note) + 1})
      BY <3>1, <3>2, FS_Subset
    <3>4. /\ Cardinality(NewsRows(0)') \in Nat /\ Cardinality(NewsRows(0) \cup {Len(note) + 1}) \in Nat
      BY <3>1, <3>2, FS_Subset, FS_CardinalityType
    <3>5. Cardinality(NewsRows(0)) < newsDailyCap
      BY <2>3
    <3> QED
      BY <1>1, <2>1, <3>2, <3>3, <3>4, <3>5
  <2> QED
    BY <2>2, <2>3
<1>8. FirstDay'
  BY <1>1, <1>2, <1>6, <1>7 DEF FirstDay
<1> QED
  BY <1>3, <1>4, <1>5, <1>8 DEF OutboxInv

LEMMA StepNotify ==
  ASSUME OutboxInv, NEW k \in Message, notify(k)
  PROVE  OutboxInv'
<1>1. Adds(k, FALSE)
  BY NotifyAdds DEF notify
<1>2. UNCHANGED gateVars /\ UNCHANGED <<sub, alive, air, popped, given>> /\ loop' = loop
  BY DEF notify
<1>3. loop' \in [Loops -> Loop]
  BY <1>2, Begun
<1> QED
  BY <1>1, <1>2, <1>3, AddingStep

LEMMA StepNewsItem ==
  ASSUME OutboxInv, NEW l \in Loops, NewsItem(l)
  PROVE  OutboxInv'
<1>1. /\ UNCHANGED gateVars /\ UNCHANGED <<sub, alive, air, popped, given>>
      /\ loop[l].left # <<>>
  BY DEF NewsItem
<1>2. loop[l] \in Loop
  BY Begun
<1>3. CASE newsOf(loop[l].day) >= newsDailyCap
  <2>1. loop' = [loop EXCEPT ![l] = Ended] /\ UNCHANGED <<note, delivery, lost>>
    BY <1>3 DEF NewsItem
  <2>2. Ended \in Loop /\ Ended.day = 0
    BY IdleTyped
  <2>3. loop' \in [Loops -> Loop] /\ \A m \in Loops : loop'[m].day = loop[m].day \/ loop'[m].day = 0
    BY <2>1, <2>2, Begun
  <2>4. Marks
    BY <2>1, Begun, NoteStays
  <2>5. GateInv' /\ BatchesKnown'
    BY <1>1, <2>4, GateStepsAside
  <2>6. ServerTyped' /\ FirstDay'
    BY <1>1, <2>1, <2>3, <2>4, Begun, MarkingStep DEF gateVars
  <2> QED
    BY <2>5, <2>6 DEF OutboxInv
<1>4. CASE ~(newsOf(loop[l].day) >= newsDailyCap)
  <2> DEFINE k == Head(loop[l].left)
             w == IF note' = note THEN 0 ELSE Len(note')
             r == [loop[l] EXCEPT !.left = Tail(loop[l].left), !.waits = w]
  <2>1. Notify(k, TRUE) /\ loop' = [loop EXCEPT ![l] = r]
    <3>1. Notify(k, TRUE)
      BY <1>4 DEF NewsItem
    <3>2. loop' = [loop EXCEPT ![l] = r]
      BY <1>4 DEF NewsItem
    <3> QED
      BY <3>1, <3>2
  <2>2. loop[l].left \in Seq(Items)
    BY <1>2 DEF Loop
  <2>3. k \in Items /\ Tail(loop[l].left) \in Seq(Items)
    BY <1>1, <2>2
  <2>4. Adds(k, TRUE)
    BY <2>1, <2>3, NotifyAdds
  <2>5. Len(note') \in Nat
    BY <2>4 DEF Adds
  <2>6. r \in Loop /\ r.day = loop[l].day
    BY <1>2, <2>3, <2>5 DEF Loop
  <2> HIDE DEF r
  <2>7. loop' \in [Loops -> Loop] /\ \A m \in Loops : loop'[m].day = loop[m].day
    BY <2>1, <2>6, Begun
  <2>8. now < HoursPerDay => Cardinality(NewsRows(0)) < newsDailyCap
    <3> SUFFICES ASSUME now < HoursPerDay PROVE Cardinality(NewsRows(0)) < newsDailyCap
      OBVIOUS
    <3>1. loop[l].day = 0
      BY DEF OutboxInv, FirstDay
    <3>2. Cardinality(NewsRows(0)) \in Nat /\ newsDailyCap \in Nat
      BY Begun, NewsRowsFinite, OutboxAssumption
    <3> QED
      BY <1>4, <3>1, <3>2 DEF newsOf, NewsRows
  <2> QED
    BY <1>1, <2>4, <2>7, <2>8, AddingStep
<1> QED
  BY <1>3, <1>4

LEMMA StepNotifyUrgentNews ==
  ASSUME OutboxInv, NEW l \in Loops, notifyUrgentNews(l)
  PROVE  OutboxInv'
<1> DEFINE r == [begun |-> TRUE, left |-> News, day |-> Day(now), waits |-> 0]
<1>1. /\ loop' = [loop EXCEPT ![l] = r] /\ UNCHANGED gateVars
      /\ UNCHANGED <<note, sub, alive, delivery, air, popped, lost, given>>
  BY DEF notifyUrgentNews
<1>2. now \in Nat /\ HoursPerDay \in Nat \ {0} /\ News \in Seq(Items)
  BY Begun, GateAssumption, OutboxAssumption DEF Items
<1>3. r \in Loop /\ (now < HoursPerDay => r.day = 0)
  BY <1>2, Division, FirstDayIsZero DEF Loop, Day
<1> HIDE DEF r
<1>4. loop' \in [Loops -> Loop] /\ \A m \in Loops : loop'[m].day = loop[m].day \/ (now < HoursPerDay => loop'[m].day = 0)
  BY <1>1, <1>3, Begun
<1>5. Marks
  BY <1>1, Begun, NoteStays
<1>6. GateInv' /\ BatchesKnown'
  BY <1>1, <1>5, GateStepsAside
<1>7. ServerTyped' /\ FirstDay'
  BY <1>1, <1>4, <1>5, Begun, MarkingStep DEF gateVars
<1> QED
  BY <1>6, <1>7 DEF OutboxInv

(* A step of the server that marks rows and has no part in the loops. *)
LEMMA DeliveringStep ==
  ASSUME OutboxInv, Marks, UNCHANGED gateVars, UNCHANGED <<loop, given>>,
         sub' \subseteq Device, alive' \subseteq Device, delivery' \in [1..MaxNotes -> Delivery],
         air' \subseteq (DOMAIN note) \X Device, popped' \subseteq (DOMAIN note) \X Device,
         lost'.notes = lost.notes, DOMAIN lost' = DOMAIN lost
  PROVE  OutboxInv'
<1>1. GateInv' /\ BatchesKnown'
  BY GateStepsAside
<1>2. ServerTyped' /\ FirstDay'
  BY Begun, MarkingStep DEF gateVars
<1> QED
  BY <1>1, <1>2 DEF OutboxInv

LEMMA StepSend ==
  ASSUME OutboxInv, NEW i \in DOMAIN note, NEW d \in Device, Send(i, d)
  PROVE  OutboxInv'
<1>1. PICK answer \in {"ok", "gone", "fail"} :
        /\ air' \in {air, air \cup {<<i, d>>}}
        /\ lost' \in {lost, [lost EXCEPT !.requests = @ + 1]}
        /\ delivery' = [delivery EXCEPT ![i].pc = "wait", ![i].todo = @ \ {d}, ![i].to = {d}, ![i].answer = answer]
  BY DEF Send
<1>2. UNCHANGED gateVars /\ UNCHANGED <<note, sub, alive, popped, loop, given>>
  BY DEF Send
<1>3. delivery' \in [1..MaxNotes -> Delivery]
  <2>1. delivery[i] \in Delivery /\ delivery \in [1..MaxNotes -> Delivery] /\ i \in 1..MaxNotes
    BY Begun
  <2>2. delivery' = [delivery EXCEPT ![i] = [delivery[i] EXCEPT !.pc = "wait", !.todo = @ \ {d},
                                                              !.to = {d}, !.answer = answer]]
    BY <1>1, <2>1
  <2>3. [delivery[i] EXCEPT !.pc = "wait", !.todo = @ \ {d}, !.to = {d}, !.answer = answer] \in Delivery
    BY <2>1 DEF Delivery
  <2> QED
    BY <2>1, <2>2, <2>3
<1>4. lost'.notes = lost.notes /\ DOMAIN lost' = DOMAIN lost
  BY <1>1, Begun
<1>5. air' \subseteq (DOMAIN note) \X Device
  BY <1>1, Begun
<1>6. Marks
  BY <1>2, Begun, NoteStays
<1> QED
  BY <1>2, <1>3, <1>4, <1>5, <1>6, Begun, DeliveringStep

LEMMA StepAnswered ==
  ASSUME OutboxInv, NEW i \in DOMAIN note, Answered(i)
  PROVE  OutboxInv'
<1>1. /\ sub' \subseteq sub
      /\ note' = note \/ note' = [note EXCEPT ![i] = [note[i] EXCEPT !.delivered = TRUE]]
      /\ delivery' = [delivery EXCEPT ![i].pc = "next", ![i].to = {}, ![i].answer = "",
                                      ![i].delivered = @ \/ delivery[i].answer = "ok"]
      /\ UNCHANGED gateVars /\ UNCHANGED <<alive, air, popped, loop, lost, given>>
  BY DEF Answered
<1>2. delivery' \in [1..MaxNotes -> Delivery]
  <2> DEFINE heard == delivery[i].delivered \/ delivery[i].answer = "ok"
  <2>1. delivery[i] \in Delivery /\ delivery \in [1..MaxNotes -> Delivery] /\ i \in 1..MaxNotes
    BY Begun
  <2>2. delivery' = [delivery EXCEPT ![i] = [delivery[i] EXCEPT !.pc = "next", !.to = {}, !.answer = "",
                                                              !.delivered = heard]]
    BY <1>1, <2>1
  <2>3. heard \in BOOLEAN
    BY <2>1 DEF Delivery
  <2> HIDE DEF heard
  <2>4. [delivery[i] EXCEPT !.pc = "next", !.to = {}, !.answer = "", !.delivered = heard] \in Delivery
    BY <2>1, <2>3 DEF Delivery
  <2> QED
    BY <2>1, <2>2, <2>4
<1>3. Marks
  <2>1. note[i] \in Note
    BY Begun
  <2>2. [note[i] EXCEPT !.delivered = TRUE] \in Note
    BY <2>1 DEF Note
  <2>3. /\ [note[i] EXCEPT !.delivered = TRUE].news = note[i].news
        /\ [note[i] EXCEPT !.delivered = TRUE].created = note[i].created
    BY <2>1 DEF Note
  <2> QED
    BY <1>1, <2>2, <2>3, Begun, NoteStays, MarkRow
<1> QED
  BY <1>1, <1>2, <1>3, Begun, DeliveringStep

LEMMA StepDelivered ==
  ASSUME OutboxInv, NEW i \in DOMAIN note, Delivered(i)
  PROVE  OutboxInv'
<1> DEFINE p == IF delivery[i].delivered THEN "sent" ELSE "failed"
<1>1. /\ note' = [note EXCEPT ![i] = [note[i] EXCEPT !.push = p]]
      /\ delivery' = [delivery EXCEPT ![i] = NoDelivery]
      /\ UNCHANGED gateVars /\ UNCHANGED <<sub, alive, air, popped, loop, lost, given>>
  BY DEF Delivered
<1>2. NoDelivery \in Delivery
  BY IdleTyped
<1>3. delivery' \in [1..MaxNotes -> Delivery]
  BY <1>1, <1>2, Begun
<1>4. Marks
  <2>1. note[i] \in Note /\ p \in {"none", "sent", "failed"}
    BY Begun
  <2> HIDE DEF p
  <2>2. [note[i] EXCEPT !.push = p] \in Note
    BY <2>1 DEF Note
  <2>3. [note[i] EXCEPT !.push = p].news = note[i].news /\ [note[i] EXCEPT !.push = p].created = note[i].created
    BY <2>1 DEF Note
  <2> QED
    BY <1>1, <2>2, <2>3, Begun, MarkRow
<1> QED
  BY <1>1, <1>3, <1>4, Begun, DeliveringStep

LEMMA StepArrive ==
  ASSUME OutboxInv, NEW i \in DOMAIN note, NEW d \in Device, Arrive(i, d)
  PROVE  OutboxInv'
<1>1. /\ <<i, d>> \in air /\ air' = air \ {<<i, d>>} /\ popped' \subseteq popped \cup {<<i, d>>}
      /\ UNCHANGED gateVars /\ UNCHANGED <<note, sub, alive, delivery, loop, lost, given>>
  BY DEF Arrive
<1>2. air' \subseteq (DOMAIN note) \X Device /\ popped' \subseteq (DOMAIN note) \X Device
  BY <1>1, Begun
<1>3. Marks
  BY <1>1, Begun, NoteStays
<1> QED
  BY <1>1, <1>2, <1>3, Begun, DeliveringStep

LEMMA StepServerRestart ==
  ASSUME OutboxInv, ServerRestart
  PROVE  OutboxInv'
<1>1. /\ lost' = [lost EXCEPT !.restarts = @ + 1]
      /\ delivery' = [i \in 1..MaxNotes |-> NoDelivery]
      /\ loop' = [l \in Loops |-> IF loop[l].begun THEN Ended ELSE NoLoop]
      /\ UNCHANGED gateVars /\ UNCHANGED <<note, sub, alive, air, popped, given>>
  BY DEF ServerRestart
<1>2. NoDelivery \in Delivery /\ Ended \in Loop /\ NoLoop \in Loop /\ Ended.day = 0 /\ NoLoop.day = 0
  BY IdleTyped
<1>3. /\ delivery' \in [1..MaxNotes -> Delivery] /\ loop' \in [Loops -> Loop]
      /\ \A l \in Loops : loop'[l].day = 0
  BY <1>1, <1>2
<1>4. lost'.notes = lost.notes /\ DOMAIN lost' = DOMAIN lost
  BY <1>1, Begun
<1>5. Marks
  BY <1>1, Begun, NoteStays
<1>6. GateInv' /\ BatchesKnown'
  BY <1>1, <1>5, GateStepsAside
<1>7. ServerTyped' /\ FirstDay'
  BY <1>1, <1>3, <1>4, <1>5, Begun, MarkingStep DEF gateVars
<1> QED
  BY <1>6, <1>7 DEF OutboxInv

-----------------------------------------------------------------------------
(* The steps of the polls. *)

LEMMA StepSubscriptions ==
  ASSUME OutboxInv, NEW d \in Device, addSubscription(d) \/ disablePush(d) \/ EndpointDies(d)
  PROVE  OutboxInv'
<1>1. /\ lost' = [lost EXCEPT !.subs = @ + 1]
      /\ sub' \subseteq sub \cup {d} /\ alive' \subseteq alive \cup {d}
      /\ UNCHANGED gateVars /\ UNCHANGED <<note, delivery, air, popped, loop, given>>
  BY DEF addSubscription, disablePush, EndpointDies
<1>2. lost'.notes = lost.notes /\ DOMAIN lost' = DOMAIN lost
  BY <1>1, Begun
<1>3. sub' \subseteq Device /\ alive' \subseteq Device
  BY <1>1, Begun
<1>4. Marks
  BY <1>1, Begun, NoteStays
<1> QED
  BY <1>1, <1>2, <1>3, <1>4, Begun, DeliveringStep

(* A step of a poll: the gate has its own invariant. *)
LEMMA PollingStep ==
  ASSUME OutboxInv, GateInv', BatchesKnown', Marks, now' = now,
         UNCHANGED <<sub, alive, delivery, air, popped, loop>>,
         given' \subseteq (DOMAIN note) \X Device,
         lost'.notes = lost.notes, DOMAIN lost' = DOMAIN lost
  PROVE  OutboxInv'
<1>1. ServerTyped' /\ FirstDay'
  BY Begun, MarkingStep
<1> QED
  BY <1>1 DEF OutboxInv

LEMMA StepPollFetch ==
  ASSUME OutboxInv, NEW d \in Device, NEW f \in Flow, PollFetch(d, f)
  PROVE  OutboxInv'
<1>1. PICK batch \in InOrder(pending) : flow' = [flow EXCEPT ![d][f].pc = "item", ![d][f].batch = batch]
  BY DEF PollFetch
<1>2. pending # {} /\ UNCHANGED <<now, enabled, inbox, os, shown, serverVars>>
  BY DEF PollFetch
<1>3. GateInv /\ BatchesKnown /\ flow[d] \in [Flow -> FlowCall] /\ flow = [e \in Device |-> flow[e]]
  BY DEF OutboxInv, GateInv, DeviceInv, DeviceTyped
<1>4. pending \subseteq DOMAIN note /\ pending \subseteq 1..Len(note) /\ Len(note) \in Nat /\ DOMAIN note \subseteq Nat
  BY Begun DEF pending
<1>5. IsFiniteSet(pending)
  BY <1>4, FS_Interval, FS_Subset
<1>6. Cardinality(pending) \in Nat /\ Cardinality(pending) # 0
  BY <1>2, <1>5, FS_CardinalityType, FS_EmptySet
<1>7. batch \in [1..Cardinality(pending) -> pending]
  BY DEF InOrder
<1>8. /\ batch \in Seq(DOMAIN note) /\ batch \in Seq(Nat) /\ batch # <<>>
  <2>1. batch \in [1..Cardinality(pending) -> DOMAIN note] /\ batch \in [1..Cardinality(pending) -> Nat]
    BY <1>4, <1>7
  <2>2. batch \in Seq(DOMAIN note) /\ batch \in Seq(Nat)
    BY <1>6, <2>1, SeqDef
  <2>3. 1 \in DOMAIN batch
    BY <1>6, <1>7
  <2> QED
    BY <2>2, <2>3
<1> DEFINE r == [flow[d][f] EXCEPT !.pc = "item", !.batch = batch]
<1>9. flow' = [flow EXCEPT ![d] = [flow[d] EXCEPT ![f] = r]]
  BY <1>1, <1>3
<1>10. r \in FlowCall /\ r.pc = "item" /\ r.batch = batch
  BY <1>3, <1>8 DEF FlowCall
<1> HIDE DEF r
<1>11. GateInv'
  BY <1>2, <1>3, <1>9, <1>10, CallMoves
<1>12. BatchesKnown'
  BY <1>2, <1>3, <1>8, <1>9, <1>10, OneBatchMoves DEF serverVars
<1>13. Marks
  BY <1>2, Begun, NoteStays DEF serverVars
<1> QED
  BY <1>2, <1>11, <1>12, <1>13, Begun, PollingStep DEF serverVars

LEMMA StepPollItem ==
  ASSUME OutboxInv, NEW d \in Device, NEW f \in Flow, PollItem(d, f)
  PROVE  OutboxInv'
<1> DEFINE i == Head(flow[d][f].batch)
           q == [key |-> i, urgent |-> UrgentNote(i), asked |-> Never]
<1>1. /\ GateInv /\ BatchesKnown /\ flow[d][f] \in FlowCall /\ flow[d][f].pc = "item"
      /\ UNCHANGED <<note, sub, alive, delivery, air, popped, loop>>
  BY CallTyped DEF OutboxInv, PollItem
<1>2. flow[d][f].batch \in Seq(DOMAIN note) /\ flow[d][f].batch # <<>>
  BY <1>1 DEF BatchesKnown, BatchKnown
<1>3. i \in DOMAIN note /\ i \in Nat
  <2>1. i \in DOMAIN note
    BY <1>2
  <2> QED
    BY <2>1, Begun
<1> HIDE DEF i
<1>4. Marks
  BY <1>1, Begun, NoteStays
<1>5. CASE create(d, f, q) /\ given' = given \cup {<<i, d>>} /\ UNCHANGED <<spent, lost>>
  <2>1. q \in FlowRequest
    <3>1. note[i] \in Note
      BY <1>3, Begun
    <3>2. UrgentNote(i) \in BOOLEAN
      BY <3>1 DEF UrgentNote, Note
    <3> QED
      BY <1>3, <3>2 DEF FlowRequest, Asked
  <2> HIDE DEF q
  <2>2. GateInv' /\ BatchesKnown'
    BY <1>1, <1>5, <2>1, StepCreate, CreateBatch
  <2>3. now' = now
    BY <1>5 DEF create
  <2>4. given' \subseteq (DOMAIN note) \X Device
    BY <1>3, <1>5, Begun
  <2> QED
    BY <1>1, <1>4, <1>5, <2>2, <2>3, <2>4, PollingStep
<1>6. CASE /\ lost' = [lost EXCEPT !.throws = @ + 1]
           /\ flow' = [flow EXCEPT ![d][f].pc = "ack"]
           /\ UNCHANGED <<now, enabled, inbox, os, shown, spent, given>>
  <2> DEFINE r == [flow[d][f] EXCEPT !.pc = "ack"]
  <2>1. flow' = [flow EXCEPT ![d] = [flow[d] EXCEPT ![f] = r]]
    BY <1>6
  <2>2. r \in FlowCall /\ r.pc = "ack" /\ r.batch = flow[d][f].batch
    BY <1>1 DEF FlowCall
  <2> HIDE DEF r
  <2>3. GateInv'
    <3>1. UNCHANGED <<now, enabled, inbox, os, shown>>
      BY <1>6
    <3>2. r.pc \in {"idle", "item", "ack"}
      BY <2>2
    <3> QED
      BY <1>1, <2>1, <2>2, <3>1, <3>2, CallMoves
  <2>4. BatchesKnown'
    BY <1>1, <1>2, <2>1, <2>2, OneBatchMoves
  <2>5. lost'.notes = lost.notes /\ DOMAIN lost' = DOMAIN lost
    BY <1>6, Begun
  <2> QED
    BY <1>1, <1>4, <1>6, <2>3, <2>4, <2>5, Begun, PollingStep
<1> QED
  BY <1>5, <1>6 DEF PollItem, i, q

LEMMA StepMarkDelivered ==
  ASSUME OutboxInv, NEW d \in Device, NEW f \in Flow, markDelivered(d, f)
  PROVE  OutboxInv'
<1> DEFINE i == Head(flow[d][f].batch)
           rest == Tail(flow[d][f].batch)
           r == IF rest = <<>> THEN Resting ELSE [Resting EXCEPT !.pc = "item", !.batch = rest]
<1>1. /\ GateInv /\ BatchesKnown /\ flow[d][f] \in FlowCall /\ flow[d][f].pc = "ack"
      /\ flow' = [flow EXCEPT ![d] = [flow[d] EXCEPT ![f] = r]]
      /\ UNCHANGED <<now, enabled, inbox, os, shown, spent, sub, alive, delivery, air, popped, loop, given>>
  BY CallTyped DEF OutboxInv, markDelivered
<1>2. /\ flow[d][f].batch \in Seq(DOMAIN note) /\ flow[d][f].batch # <<>> /\ flow[d][f].batch \in Seq(Nat)
  BY <1>1 DEF BatchesKnown, BatchKnown, FlowCall
<1>3. i \in DOMAIN note /\ rest \in Seq(DOMAIN note) /\ rest \in Seq(Nat)
  <2>1. \A S : flow[d][f].batch \in Seq(S) => Head(flow[d][f].batch) \in S /\ Tail(flow[d][f].batch) \in Seq(S)
    BY <1>2
  <2> QED
    BY <1>2, <2>1
<1>4. /\ note' = note \/ note' = [note EXCEPT ![i] = [note[i] EXCEPT !.delivered = TRUE]]
      /\ lost' = lost \/ lost' = [lost EXCEPT !.polls = @ + 1]
  BY DEF markDelivered
<1> HIDE DEF i, rest
<1>5. /\ r \in FlowCall /\ r.pc \in {"idle", "item"} /\ r.batch = rest /\ (r.pc = "item" => rest # <<>>)
  BY <1>3, RestingTyped DEF FlowCall, Resting
<1> HIDE DEF r
<1>6. note[i] \in Note
  BY <1>3, Begun
<1>7. [note[i] EXCEPT !.delivered = TRUE] \in Note
  BY <1>6 DEF Note
<1>8. /\ [note[i] EXCEPT !.delivered = TRUE].news = note[i].news
      /\ [note[i] EXCEPT !.delivered = TRUE].created = note[i].created
  BY <1>6 DEF Note
<1>9. Marks
  BY <1>3, <1>4, <1>7, <1>8, Begun, NoteStays, MarkRow
<1>10. DOMAIN note' = DOMAIN note
  BY <1>9, Begun DEF Marks
<1>11. GateInv'
  BY <1>1, <1>5, CallMoves
<1>12. BatchesKnown'
  BY <1>1, <1>3, <1>5, <1>10, OneBatchMoves
<1>13. lost'.notes = lost.notes /\ DOMAIN lost' = DOMAIN lost
  BY <1>4, Begun
<1> QED
  BY <1>1, <1>9, <1>11, <1>12, <1>13, Begun, PollingStep

(* A step of the gate alone; the clock may go on. *)
LEMMA StepGate ==
  ASSUME OutboxInv, GateNext, UNCHANGED serverVars
  PROVE  OutboxInv'
<1> USE GateAssumption
<1>1. /\ GateInv /\ BatchesKnown /\ note' = note
      /\ UNCHANGED <<sub, alive, delivery, air, popped, loop, lost, given>>
  BY DEF OutboxInv, serverVars
<1>2. GateInv' /\ BatchesKnown'
  BY <1>1, GateKept, GateBatches
<1>3. now' \in Nat /\ now <= now'
  <2>1. now' = now \/ now' = now + 1
    <3>1. ASSUME NEW d \in Device, NEW f \in Flow, scheduleFromPlan(d, f) PROVE now' = now
      BY <3>1 DEF scheduleFromPlan, create
    <3>2. ASSUME NEW d \in Device, NEW f \in Flow, Insert(d, f) \/ pushToDevice(d, f) PROVE now' = now
      BY <3>2 DEF Insert, pushToDevice
    <3>3. ASSUME NEW d \in Device, NEW i \in DOMAIN inbox[d], cancel(d, i) \/ Fire(d, i) PROVE now' = now
      BY <3>3 DEF cancel, Fire
    <3>4. ASSUME NEW d \in Device, setPreference(d) \/ Reload(d) PROVE now' = now
      BY <3>4 DEF setPreference, Reload
    <3> QED
      BY <3>1, <3>2, <3>3, <3>4 DEF GateNext, Tick
  <2> QED
    BY <2>1, Begun
<1>4. Marks
  BY <1>1, Begun, NoteStays
<1>5. FirstDay'
  BY <1>1, <1>3, <1>4, FirstDayStays
<1>6. ServerTyped'
  BY <1>1 DEF OutboxInv, ServerTyped
<1> QED
  BY <1>2, <1>5, <1>6 DEF OutboxInv

-----------------------------------------------------------------------------
(* The theorem. *)

LEMMA OutboxInit == Init => OutboxInv
<1> SUFFICES ASSUME Init PROVE OutboxInv
  OBVIOUS
<1> USE GateAssumption, OutboxAssumption
<1>1. /\ now = 0 /\ enabled = [d \in Device |-> TRUE] /\ inbox = [d \in Device |-> <<>>]
      /\ flow = [d \in Device |-> [f \in Flow |-> Resting]] /\ os = [d \in Device |-> {}]
      /\ shown = [d \in Device |-> {}]
  BY DEF Init, GateInit
<1>2. ASSUME NEW d \in Device PROVE DeviceInv(d)
  <2>1. /\ inbox[d] = <<>> /\ os[d] = {} /\ shown[d] = {} /\ flow[d] = [f \in Flow |-> Resting]
    BY <1>1
  <2>2. DeviceTyped(d)
    BY <2>1, RestingTyped DEF DeviceTyped
  <2>3. BudgetLeft(d)
    <3> SUFFICES ASSUME NEW day \in Nat
                 PROVE  Cardinality(Plain(d, day)) + Cardinality(Coming(d, day)) <= DailyBudget + Cardinality(Flow) - 1
      BY DEF BudgetLeft
    <3>1. Plain(d, day) = {} /\ Coming(d, day) = {}
      BY <2>1, RestingTyped DEF Plain, Coming
    <3>2. Cardinality({}) = 0 /\ Cardinality(Flow) \in Nat /\ Cardinality(Flow) # 0
      BY FS_EmptySet, FS_CardinalityType
    <3>3. Cardinality(Plain(d, day)) = 0 /\ Cardinality(Coming(d, day)) = 0
      BY <3>1, <3>2
    <3>4. DailyBudget \in Nat
      OBVIOUS
    <3> QED
      BY <3>2, <3>3, <3>4
  <2>4. TimersAhead(d) /\ RowsDue(d) /\ ShownLate(d)
    BY <2>1 DEF TimersAhead, RowsDue, ShownLate
  <2>5. CallsDue(d)
    BY <2>1, RestingTyped DEF CallsDue
  <2> QED
    BY <2>2, <2>3, <2>4, <2>5 DEF DeviceInv
<1>3. GateInv
  BY <1>1, <1>2 DEF GateInv
<1>4. BatchesKnown
  <2>1. Resting.batch = <<>> /\ Resting.pc = "idle" /\ <<>> \in Seq(DOMAIN note)
    BY DEF Resting
  <2>2. \A d \in Device, f \in Flow : flow[d][f] = Resting
    BY <1>1
  <2> QED
    BY <2>1, <2>2 DEF BatchesKnown, BatchKnown
<1>5. ServerTyped
  <2>1. /\ note = <<>> /\ sub = {} /\ alive = Device /\ air = {} /\ popped = {} /\ given = {}
        /\ delivery \in [1..MaxNotes -> Delivery] /\ loop \in [Loops -> Loop]
    BY IdleTyped DEF Init
  <2>2. lost.notes = 0 /\ DOMAIN lost = {"notes", "requests", "restarts", "subs", "polls", "throws"}
    BY DEF Init
  <2>3. note \in Seq(Note) /\ Len(note) = 0
    BY <2>1
  <2> QED
    BY <2>1, <2>2, <2>3 DEF ServerTyped
<1>6. FirstDay
  <2>1. note = <<>> /\ \A l \in Loops : loop[l] = NoLoop
    BY DEF Init
  <2>2. NewsRows(0) = {}
    BY <2>1 DEF NewsRows
  <2>3. Cardinality(NewsRows(0)) = 0
    BY <2>2, FS_EmptySet
  <2> QED
    BY <2>1, <2>3, IdleTyped DEF FirstDay
<1> QED
  BY <1>3, <1>4, <1>5, <1>6 DEF OutboxInv

LEMMA OutboxKept == OutboxInv /\ [Next]_vars => OutboxInv'
<1> SUFFICES ASSUME OutboxInv, [Next]_vars PROVE OutboxInv'
  OBVIOUS
<1>1. CASE GateNext /\ UNCHANGED serverVars
  BY <1>1, StepGate
<1>2. ASSUME NEW k \in Message, notify(k) PROVE OutboxInv'
  BY <1>2, StepNotify
<1>3. ASSUME NEW l \in Loops, notifyUrgentNews(l) \/ NewsItem(l) PROVE OutboxInv'
  BY <1>3, StepNotifyUrgentNews, StepNewsItem
<1>4. ASSUME NEW i \in DOMAIN note, Answered(i) \/ Delivered(i) PROVE OutboxInv'
  BY <1>4, StepAnswered, StepDelivered
<1>5. ASSUME NEW i \in DOMAIN note, NEW d \in Device, Send(i, d) \/ Arrive(i, d) PROVE OutboxInv'
  BY <1>5, StepSend, StepArrive
<1>6. CASE ServerRestart
  BY <1>6, StepServerRestart
<1>7. CASE Server
  BY <1>2, <1>3, <1>4, <1>5, <1>6, <1>7 DEF Server
<1>8. ASSUME NEW d \in Device, Client(d) PROVE OutboxInv'
  <2>1. CASE addSubscription(d) \/ disablePush(d) \/ EndpointDies(d)
    BY <2>1, StepSubscriptions
  <2>2. ASSUME NEW f \in Flow, PollFetch(d, f) \/ PollItem(d, f) \/ markDelivered(d, f) PROVE OutboxInv'
    BY <2>2, StepPollFetch, StepPollItem, StepMarkDelivered
  <2> QED
    BY <1>8, <2>1, <2>2 DEF Client
<1>9. CASE UNCHANGED vars
  <2>1. UNCHANGED gateVars /\ UNCHANGED <<note, sub, alive, delivery, air, popped, loop, lost, given>>
    BY <1>9 DEF vars, serverVars
  <2>2. Marks
    BY <2>1, Begun, NoteStays
  <2> QED
    BY <2>1, <2>2, Begun, DeliveringStep
<1> QED
  BY <1>1, <1>7, <1>8, <1>9 DEF Next

LEMMA OutboxSuffices == OutboxInv => WithinBudget
<1> SUFFICES ASSUME OutboxInv PROVE WithinBudget
  OBVIOUS
<1>1. GateInv /\ ServerTyped /\ FirstDay /\ \A d \in Device : DeviceInv(d)
  BY DEF OutboxInv, GateInv
<1>2. TypeOK
  <2>1. GateTypeOK
    <3>1. \A d \in Device, f \in Flow : flow[d][f].pc \in {"idle", "item", "insert", "schedule", "ack"}
      BY <1>1, CallTyped DEF FlowCall
    <3> QED
      BY <1>1, <3>1 DEF GateTypeOK, GateInv, DeviceInv, DeviceTyped
  <2>2. note \in Seq(Note) /\ Len(note) <= MaxNotes
    BY <1>1, OutboxAssumption DEF ServerTyped
  <2>3. \A i \in DOMAIN delivery : delivery[i].todo \subseteq Device /\ delivery[i].pc \in {"none", "next", "wait"}
    BY <1>1 DEF ServerTyped, Delivery
  <2>4. \A p \in air \cup popped \cup given : p[1] \in DOMAIN note /\ p[2] \in Device
    BY <1>1 DEF ServerTyped
  <2> QED
    BY <1>1, <2>1, <2>2, <2>3, <2>4 DEF TypeOK, ServerTyped
<1>3. BudgetKept
  <2> SUFFICES ASSUME NEW d \in Device, NEW day \in {inbox[d][i].day : i \in DOMAIN inbox[d]}
               PROVE  Cardinality(Plain(d, day)) <= DailyBudget + Cardinality(Flow) - 1
    BY DEF BudgetKept, Plain
  <2>1. inbox[d] \in Seq(Row) /\ BudgetLeft(d)
    BY <1>1 DEF DeviceInv, DeviceTyped
  <2>2. \A i \in DOMAIN inbox[d] : inbox[d][i] \in Row
    BY <2>1, ElementOfSeq
  <2>3. day \in Nat
    BY <2>2 DEF Row
  <2>4. Cardinality(Plain(d, day)) + Cardinality(Coming(d, day)) <= DailyBudget + Cardinality(Flow) - 1
    BY <2>1, <2>3 DEF BudgetLeft
  <2>5. /\ Cardinality(Plain(d, day)) \in Nat /\ Cardinality(Coming(d, day)) \in Nat
        /\ Cardinality(Flow) \in Nat /\ DailyBudget \in Nat
    BY <2>1, PlainFinite, ComingFinite, GateAssumption
  <2> QED
    BY <2>4, <2>5
<1>4. CapWithinDay
  BY <1>1 DEF CapWithinDay, FirstDay, newsOf, NewsRows
<1>5. QuietUnlessLate
  BY <1>1 DEF QuietUnlessLate, DeviceInv, ShownLate
<1> QED
  BY <1>2, <1>3, <1>4, <1>5 DEF WithinBudget

(* Neither a device nor the server interrupts more often, or at other hours,  *)
(* than it was told to: whatever calls, polls, restarts and lost requests      *)
(* come between, the budget of a day is exceeded by no more than the other     *)
(* calls that ran at once, the cap of news holds on the first day, and in the  *)
(* quiet hours only what was late already is shown                             *)
(* (notifications.ts 79-150, push.ts 125-160).                                 *)
THEOREM BudgetSafety == Spec => []WithinBudget
<1>1. OutboxInv /\ [Next]_vars => OutboxInv'
  BY OutboxKept
<1> QED
  BY <1>1, OutboxInit, OutboxSuffices, PTL DEF Spec

-----------------------------------------------------------------------------
(* What a device has of a key, and the calls that found nothing of it.     *)

Within(d, k, first) ==
    {j \in PolledRows(d, k) :
       inbox[d][j].created \in inbox[d][first].created..inbox[d][first].created + DEDUPE_WINDOW_HOURS}
Entering(d, k) == {f \in Flow : flow[d][f].pc = "insert" /\ flow[d][f].req.key = k}

(* As long as the window of a row is open, no call is added to those that  *)
(* had found nothing before it was there.                                  *)
RowKept(d, k, first) ==
    /\ Cardinality(Within(d, k, first)) <= Cardinality(Flow)
    /\ now <= inbox[d][first].created + DEDUPE_WINDOW_HOURS =>
         Cardinality(Within(d, k, first)) + Cardinality(Entering(d, k)) <= Cardinality(Flow)

WindowKept(d) == \A k : \A first \in PolledRows(d, k) : RowKept(d, k, first)

(* What a call of a poll is at the end of went to the gate.                *)
CallGiven(d, f) ==
    /\ flow[d][f].pc = "idle" => flow[d][f].batch = <<>>
    /\ flow[d][f].pc \in {"insert", "schedule", "ack"} /\ flow[d][f].batch # <<>> /\ lost.throws = 0 =>
         <<Head(flow[d][f].batch), d>> \in given

(* What a push service took was sent to one device.                        *)
AnswerIsTrue(i) ==
    delivery[i].pc = "wait" =>
        /\ i \in DOMAIN note
        /\ delivery[i].answer = "ok" =>
              \E d \in Device : delivery[i].to = {d} /\ (note[i].news => <<i, d>> \in air \union popped)

Taken(i) == \E d \in Device : <<i, d>> \in given \/ (note[i].news /\ <<i, d>> \in air \union popped)

NoticeInv ==
    /\ lost.throws \in Nat
    /\ OncePerWindow
    /\ \A d \in Device : WindowKept(d)
    /\ \A d \in Device, f \in Flow : CallGiven(d, f)
    /\ \A i \in 1..MaxNotes : AnswerIsTrue(i)
    /\ \A i \in DOMAIN note : note[i].delivered /\ lost.throws = 0 => Taken(i)

LEMMA Earlier ==
  /\ \A a, b, c \in Nat : a <= b /\ b <= c => a <= c
  /\ \A a, b, w \in Nat : a < b => a \notin b..b + w
OBVIOUS

LEMMA WithinFinite ==
  ASSUME NEW d \in Device, inbox[d] \in Seq(Row), NEW k, NEW first
  PROVE  IsFiniteSet(Within(d, k, first)) /\ Cardinality(Within(d, k, first)) \in Nat
<1>1. Within(d, k, first) \subseteq 1..Len(inbox[d]) /\ Len(inbox[d]) \in Nat
  BY DEF Within, PolledRows
<1>2. IsFiniteSet(1..Len(inbox[d]))
  BY <1>1, FS_Interval
<1> QED
  BY <1>1, <1>2, FS_Subset, FS_CardinalityType

LEMMA EnteringFinite ==
  ASSUME NEW d, NEW k
  PROVE  /\ IsFiniteSet(Entering(d, k)) /\ Cardinality(Entering(d, k)) \in Nat
         /\ Cardinality(Entering(d, k)) <= Cardinality(Flow) /\ Cardinality(Flow) \in Nat
<1>1. Entering(d, k) \subseteq Flow /\ IsFiniteSet(Flow)
  BY OutboxAssumption DEF Entering
<1> QED
  BY <1>1, FS_Subset, FS_CardinalityType

LEMMA RowTimes ==
  ASSUME NEW d \in Device, DeviceInv(d), now \in 0..MaxHour, NEW j \in DOMAIN inbox[d]
  PROVE  inbox[d][j] \in Row /\ inbox[d][j].created \in Nat /\ inbox[d][j].created <= now /\ now \in Nat
<1>1. inbox[d] \in Seq(Row) /\ RowsDue(d)
  BY DEF DeviceInv, DeviceTyped
<1>2. inbox[d][j] \in Row
  BY <1>1, ElementOfSeq
<1>3. inbox[d][j].created \in Nat /\ now \in Nat
  BY <1>2, GateAssumption DEF Row
<1> QED
  BY <1>1, <1>2, <1>3 DEF RowsDue

(* Rows may be withdrawn, calls leave, and the clock goes on.              *)
LEMMA WindowShrinks ==
  ASSUME NEW d \in Device, inbox[d] \in Seq(Row), now \in Nat, now' \in Nat, now <= now', WindowKept(d),
         DOMAIN inbox'[d] = DOMAIN inbox[d],
         \A j \in DOMAIN inbox[d] : /\ inbox'[d][j].key = inbox[d][j].key
                                    /\ inbox'[d][j].created = inbox[d][j].created
                                    /\ inbox[d][j].cancelled => inbox'[d][j].cancelled,
         \A g \in Flow : flow'[d][g].pc = "insert" =>
              flow[d][g].pc = "insert" /\ flow'[d][g].req.key = flow[d][g].req.key
  PROVE  WindowKept(d)'
<1> SUFFICES ASSUME NEW k, NEW first \in PolledRows(d, k)' PROVE RowKept(d, k, first)'
  BY DEF WindowKept
<1>1. PolledRows(d, k)' \subseteq PolledRows(d, k)
  BY DEF PolledRows
<1>2. RowKept(d, k, first) /\ first \in DOMAIN inbox[d] /\ inbox'[d][first].created = inbox[d][first].created
  BY <1>1 DEF WindowKept, PolledRows
<1>3. Within(d, k, first)' \subseteq Within(d, k, first)
  <2>1. \A j \in PolledRows(d, k)' : j \in PolledRows(d, k) /\ inbox'[d][j].created = inbox[d][j].created
    BY <1>1 DEF PolledRows
  <2> QED
    BY <1>2, <2>1 DEF Within
<1>4. Entering(d, k)' \subseteq Entering(d, k)
  BY DEF Entering
<1>5. /\ IsFiniteSet(Within(d, k, first)) /\ Cardinality(Within(d, k, first)) \in Nat
      /\ IsFiniteSet(Entering(d, k)) /\ Cardinality(Entering(d, k)) \in Nat /\ Cardinality(Flow) \in Nat
  BY WithinFinite, EnteringFinite
<1>6. /\ Cardinality(Within(d, k, first)') <= Cardinality(Within(d, k, first))
      /\ Cardinality(Entering(d, k)') <= Cardinality(Entering(d, k))
  BY <1>3, <1>4, <1>5, FS_Subset
<1>7. Cardinality(Within(d, k, first)') \in Nat /\ Cardinality(Entering(d, k)') \in Nat
  BY <1>3, <1>4, <1>5, FS_Subset, FS_CardinalityType
<1>8. inbox[d][first].created \in Nat /\ DEDUPE_WINDOW_HOURS \in Nat
  <2>1. inbox[d][first] \in Row
    BY <1>2, ElementOfSeq
  <2> QED
    BY <2>1, GateAssumption DEF Row
<1>9. Cardinality(Within(d, k, first)') <= Cardinality(Flow)
  BY <1>2, <1>5, <1>6, <1>7 DEF RowKept
<1>10. ASSUME now' <= inbox'[d][first].created + DEDUPE_WINDOW_HOURS
       PROVE  Cardinality(Within(d, k, first)') + Cardinality(Entering(d, k)') <= Cardinality(Flow)
  <2>1. now <= inbox[d][first].created + DEDUPE_WINDOW_HOURS
    <3>1. now' <= inbox[d][first].created + DEDUPE_WINDOW_HOURS
      BY <1>2, <1>10
    <3>2. inbox[d][first].created + DEDUPE_WINDOW_HOURS \in Nat
      BY <1>8
    <3> QED
      BY <3>1, <3>2, Earlier
  <2>2. Cardinality(Within(d, k, first)) + Cardinality(Entering(d, k)) <= Cardinality(Flow)
    BY <1>2, <2>1 DEF RowKept
  <2> QED
    BY <1>5, <1>6, <1>7, <2>2
<1> QED
  BY <1>9, <1>10 DEF RowKept

(* A call that found no row of its key: every window of the key is over.   *)
LEMMA WindowEntered ==
  ASSUME NEW d \in Device, DeviceInv(d), now \in 0..MaxHour, WindowKept(d), NEW f \in Flow, NEW c,
         now' = now, inbox'[d] = inbox[d],
         flow[d] \in [Flow -> FlowCall], flow'[d] = [flow[d] EXCEPT ![f] = c],
         Duplicates(d, c.req.key, DEDUPE_WINDOW_HOURS) = {}
  PROVE  WindowKept(d)'
<1> SUFFICES ASSUME NEW k, NEW first \in PolledRows(d, k)' PROVE RowKept(d, k, first)'
  BY DEF WindowKept
<1>1. /\ PolledRows(d, k)' = PolledRows(d, k) /\ Within(d, k, first)' = Within(d, k, first)
      /\ first \in DOMAIN inbox[d] /\ RowKept(d, k, first)
  BY DEF PolledRows, Within, WindowKept
<1>2. inbox[d][first].created \in Nat /\ now \in Nat /\ DEDUPE_WINDOW_HOURS \in Nat /\ inbox[d] \in Seq(Row)
  BY <1>1, RowTimes, GateAssumption DEF DeviceInv, DeviceTyped
<1>3. CASE k = c.req.key
  <2>1. ~(inbox[d][first].created + DEDUPE_WINDOW_HOURS >= now)
    BY <1>1, <1>3 DEF Duplicates, PolledRows
  <2>2. ~(now <= inbox[d][first].created + DEDUPE_WINDOW_HOURS)
    BY <1>2, <2>1
  <2> QED
    BY <1>1, <2>2 DEF RowKept
<1>4. CASE k # c.req.key
  <2>1. Entering(d, k)' \subseteq Entering(d, k)
    BY <1>4 DEF Entering
  <2>2. IsFiniteSet(Entering(d, k)) /\ Cardinality(Entering(d, k)) \in Nat /\ Cardinality(Flow) \in Nat
    BY EnteringFinite
  <2>3. Cardinality(Entering(d, k)') <= Cardinality(Entering(d, k)) /\ Cardinality(Entering(d, k)') \in Nat
    BY <2>1, <2>2, FS_Subset, FS_CardinalityType
  <2>4. Cardinality(Within(d, k, first)) \in Nat
    BY <1>2, WithinFinite
  <2> QED
    BY <1>1, <2>2, <2>3, <2>4 DEF RowKept
<1> QED
  BY <1>3, <1>4

(* A call inserts its row: it is counted as one or as the other.           *)
LEMMA WindowInserted ==
  ASSUME NEW d \in Device, DeviceInv(d), now \in 0..MaxHour, WindowKept(d), NEW f \in Flow, NEW c, NEW new,
         now' = now, inbox'[d] = Append(inbox[d], new), new \in Row, new.created = now, ~new.cancelled,
         flow[d] \in [Flow -> FlowCall], flow[d][f].pc = "insert", new.key = flow[d][f].req.key,
         flow'[d] = [flow[d] EXCEPT ![f] = c], c.pc = "schedule"
  PROVE  WindowKept(d)'
<1>1. inbox[d] \in Seq(Row) /\ DEDUPE_WINDOW_HOURS \in Nat /\ now \in Nat
  BY GateAssumption DEF DeviceInv, DeviceTyped
<1> PICK n \in Nat : n = Len(inbox[d]) + 1
  BY <1>1
<1>2. /\ inbox'[d][n] = new /\ \A j \in DOMAIN inbox[d] : inbox'[d][j] = inbox[d][j]
      /\ DOMAIN inbox'[d] = DOMAIN inbox[d] \union {n} /\ n \notin DOMAIN inbox[d]
  BY <1>1
<1>3. \A j \in DOMAIN inbox[d] : inbox[d][j].created \in Nat /\ inbox[d][j].created <= now
  BY RowTimes
<1> SUFFICES ASSUME NEW k, NEW first \in PolledRows(d, k)' PROVE RowKept(d, k, first)'
  BY DEF WindowKept
<1>4. /\ IsFiniteSet(Entering(d, k)) /\ Cardinality(Entering(d, k)) \in Nat
      /\ Cardinality(Entering(d, k)) <= Cardinality(Flow) /\ Cardinality(Flow) \in Nat
      /\ \A j : IsFiniteSet(Within(d, k, j)) /\ Cardinality(Within(d, k, j)) \in Nat
  BY <1>1, EnteringFinite, WithinFinite
<1>5. CASE k # new.key
  <2>1. PolledRows(d, k)' = PolledRows(d, k)
    BY <1>2, <1>5 DEF PolledRows
  <2>2. first \in DOMAIN inbox[d] /\ RowKept(d, k, first)
    BY <2>1 DEF PolledRows, WindowKept
  <2>3. Within(d, k, first)' = Within(d, k, first)
    <3>1. \A j \in PolledRows(d, k) : inbox'[d][j].created = inbox[d][j].created
      BY <1>2 DEF PolledRows
    <3>2. inbox'[d][first].created = inbox[d][first].created
      BY <1>2, <2>2
    <3> QED
      BY <2>1, <3>1, <3>2 DEF Within
  <2>4. Entering(d, k)' = Entering(d, k)
    BY <1>5 DEF Entering
  <2> QED
    BY <1>2, <2>2, <2>3, <2>4 DEF RowKept
<1>6. CASE k = new.key
  <2>1. PolledRows(d, k)' = PolledRows(d, k) \union {n} /\ n \notin PolledRows(d, k)
    BY <1>2, <1>6 DEF PolledRows
  <2>2. Entering(d, k)' = Entering(d, k) \ {f} /\ f \in Entering(d, k)
    BY <1>6 DEF Entering
  <2>3. Cardinality(Entering(d, k)') = Cardinality(Entering(d, k)) - 1 /\ Cardinality(Entering(d, k)) > 0
    <3>1. Cardinality(Entering(d, k)') = Cardinality(Entering(d, k)) - 1
      BY <1>4, <2>2, FS_RemoveElement
    <3>2. Cardinality(Entering(d, k)) # 0
      BY <1>4, <2>2, FS_EmptySet
    <3> QED
      BY <1>4, <3>1, <3>2
  <2>4. ASSUME NEW old \in PolledRows(d, k)
        PROVE  /\ RowKept(d, k, old)'
               /\ inbox[d][old].created = now => RowKept(d, k, n)'
    <3>1. RowKept(d, k, old) /\ old \in DOMAIN inbox[d] /\ inbox[d][old].created \in Nat /\ inbox[d][old].created <= now
      BY <1>3 DEF WindowKept, PolledRows
    <3>2. inbox'[d][old].created = inbox[d][old].created /\ inbox'[d][n].created = now
      BY <1>2, <3>1
    <3>3. \A j \in PolledRows(d, k) : inbox'[d][j].created = inbox[d][j].created
      BY <1>2 DEF PolledRows
    <3>4. CASE now <= inbox[d][old].created + DEDUPE_WINDOW_HOURS
      <4>1. Within(d, k, old)' = Within(d, k, old) \union {n} /\ n \notin Within(d, k, old)
        <5>1. now \in inbox[d][old].created..inbox[d][old].created + DEDUPE_WINDOW_HOURS
          BY <1>1, <3>1, <3>4
        <5> QED
          BY <2>1, <3>2, <3>3, <5>1 DEF Within
      <4>2. Cardinality(Within(d, k, old)') = Cardinality(Within(d, k, old)) + 1
        <5>1. IsFiniteSet(Within(d, k, old))
          BY <1>4
        <5>2. Cardinality(Within(d, k, old) \union {n}) = Cardinality(Within(d, k, old)) + 1
          BY <4>1, <5>1, FS_AddElement
        <5> QED
          BY <4>1, <5>2
      <4>3. Cardinality(Within(d, k, old)) + Cardinality(Entering(d, k)) <= Cardinality(Flow)
        BY <3>1, <3>4 DEF RowKept
      <4>4. Cardinality(Within(d, k, old)') + Cardinality(Entering(d, k)') <= Cardinality(Flow)
        BY <1>4, <2>3, <4>2, <4>3
      <4>5. Cardinality(Within(d, k, old)') <= Cardinality(Flow)
        BY <1>4, <2>3, <4>2, <4>3
      <4>6. inbox[d][old].created = now => Within(d, k, n)' = Within(d, k, old)'
        BY <3>2 DEF Within
      <4> QED
        BY <4>4, <4>5, <4>6 DEF RowKept
    <3>5. CASE ~(now <= inbox[d][old].created + DEDUPE_WINDOW_HOURS)
      <4>1. Within(d, k, old)' = Within(d, k, old)
        <5>1. now \notin inbox[d][old].created..inbox[d][old].created + DEDUPE_WINDOW_HOURS
          BY <1>1, <3>1, <3>5
        <5> QED
          BY <2>1, <3>2, <3>3, <5>1 DEF Within
      <4>2. inbox[d][old].created # now
        BY <1>1, <3>1, <3>5
      <4> QED
        BY <3>1, <3>2, <3>5, <4>1, <4>2 DEF RowKept
    <3> QED
      BY <3>4, <3>5
  <2>5. CASE first \in PolledRows(d, k)
    BY <2>4, <2>5
  <2>6. CASE first = n
    <3>1. CASE \E old \in PolledRows(d, k) : inbox[d][old].created = now
      BY <2>4, <2>6, <3>1
    <3>2. CASE \A old \in PolledRows(d, k) : inbox[d][old].created # now
      <4>1. \A j \in PolledRows(d, k) : inbox'[d][j].created \in Nat /\ inbox'[d][j].created < now
        BY <1>1, <1>2, <1>3, <3>2 DEF PolledRows
      <4>2. inbox'[d][n].created = now
        BY <1>2
      <4>3. Within(d, k, n)' = {n}
        <5>1. \A j \in PolledRows(d, k) : inbox'[d][j].created \notin now..now + DEDUPE_WINDOW_HOURS
          <6> TAKE j \in PolledRows(d, k)
          <6>1. inbox'[d][j].created \in Nat /\ inbox'[d][j].created < now
            BY <4>1
          <6> QED
            BY <1>1, <6>1, Earlier
        <5>2. now \in now..now + DEDUPE_WINDOW_HOURS
          BY <1>1
        <5> QED
          BY <2>1, <4>2, <5>1, <5>2 DEF Within
      <4>4. Cardinality(Within(d, k, n)') = 1
        <5>1. Cardinality({n}) = 1
          BY FS_Singleton
        <5> QED
          BY <4>3, <5>1
      <4>5. /\ Cardinality(Within(d, k, n)') <= Cardinality(Flow)
            /\ Cardinality(Within(d, k, n)') + Cardinality(Entering(d, k)') <= Cardinality(Flow)
        BY <1>4, <2>3, <4>4
      <4> QED
        BY <2>6, <4>5 DEF RowKept
    <3> QED
      BY <3>1, <3>2
  <2> QED
    BY <2>1, <2>5, <2>6
<1> QED
  BY <1>5, <1>6

-----------------------------------------------------------------------------
(* The parts of NoticeInv that a step leaves alone. *)

Windows == \A d \in Device : WindowKept(d)
Calls == \A d \in Device, f \in Flow : CallGiven(d, f)
Notes ==
    /\ OncePerWindow
    /\ \A i \in 1..MaxNotes : AnswerIsTrue(i)
    /\ \A i \in DOMAIN note : note[i].delivered /\ lost.throws = 0 => Taken(i)

LEMMA Inboxes ==
  ASSUME GateInv, NEW d \in Device
  PROVE  DeviceInv(d) /\ inbox[d] \in Seq(Row) /\ flow[d] \in [Flow -> FlowCall] /\ now \in 0..MaxHour /\ now \in Nat
BY GateAssumption DEF GateInv, DeviceInv, DeviceTyped

LEMMA DeviceWindowStays ==
  ASSUME GateInv, NEW d \in Device, WindowKept(d), now' \in Nat, now <= now', inbox'[d] = inbox[d],
         \A g \in Flow : flow'[d][g].pc = "insert" =>
              flow[d][g].pc = "insert" /\ flow'[d][g].req.key = flow[d][g].req.key
  PROVE  WindowKept(d)'
BY Inboxes, WindowShrinks

LEMMA WindowsStay ==
  ASSUME GateInv, Windows, now' = now, inbox' = inbox, flow' = flow
  PROVE  Windows'
BY Inboxes, DeviceWindowStays DEF Windows

(* One call moves on, without a row. *)
LEMMA WindowsCall ==
  ASSUME GateInv, Windows, NEW d \in Device, NEW f \in Flow, NEW c,
         flow' = [flow EXCEPT ![d] = [flow[d] EXCEPT ![f] = c]], c.pc # "insert",
         now' = now, inbox' = inbox
  PROVE  Windows'
<1> SUFFICES ASSUME NEW e \in Device PROVE WindowKept(e)'
  BY DEF Windows
<1>1. WindowKept(e) /\ flow[e] \in [Flow -> FlowCall] /\ now' \in Nat /\ now <= now'
  BY Inboxes DEF Windows
<1>2. \A g \in Flow : flow'[e][g] = flow[e][g] \/ flow'[e][g].pc # "insert"
  BY <1>1 DEF GateInv
<1> QED
  BY <1>1, <1>2, DeviceWindowStays

LEMMA CallsStay ==
  ASSUME Calls, flow' = flow, given \subseteq given', lost'.throws = 0 => lost.throws = 0
  PROVE  Calls'
BY DEF Calls, CallGiven

LEMMA CallsMove ==
  ASSUME GateInv, Calls, NEW d \in Device, NEW f \in Flow, NEW c,
         flow' = [flow EXCEPT ![d] = [flow[d] EXCEPT ![f] = c]],
         given \subseteq given', lost'.throws = 0 => lost.throws = 0,
         c.pc = "idle" => c.batch = <<>>,
         c.pc \in {"insert", "schedule", "ack"} /\ c.batch # <<>> /\ lost'.throws = 0 =>
            <<Head(c.batch), d>> \in given'
  PROVE  Calls'
<1> SUFFICES ASSUME NEW e \in Device, NEW g \in Flow PROVE CallGiven(e, g)'
  BY DEF Calls
<1>1. flow[d] \in [Flow -> FlowCall]
  BY Inboxes
<1>2. CASE e = d /\ g = f
  <2>1. flow'[e][g] = c
    BY <1>1, <1>2 DEF GateInv
  <2> QED
    BY <1>2, <2>1 DEF CallGiven
<1>3. CASE ~(e = d /\ g = f)
  <2>1. flow'[e][g] = flow[e][g]
    BY <1>1, <1>3 DEF GateInv
  <2>2. CallGiven(e, g)
    BY DEF Calls
  <2> QED
    BY <2>1, <2>2 DEF CallGiven
<1> QED
  BY <1>2, <1>3

LEMMA NotesStay ==
  ASSUME Notes, delivery' = delivery, note' = note, air \union popped \subseteq air' \union popped',
         given \subseteq given', lost'.throws = 0 => lost.throws = 0
  PROVE  Notes'
<1>1. OncePerWindow'
  BY DEF Notes, OncePerWindow
<1>2. \A i \in 1..MaxNotes : AnswerIsTrue(i)'
  BY DEF Notes, AnswerIsTrue
<1>3. \A i \in DOMAIN note' : note'[i].delivered /\ lost'.throws = 0 => Taken(i)'
  BY DEF Notes, Taken
<1> QED
  BY <1>1, <1>2, <1>3 DEF Notes

(* The rows of the server keep what identifies them. *)
Keeps ==
    /\ DOMAIN note' = DOMAIN note
    /\ \A i \in DOMAIN note : /\ note'[i].key = note[i].key /\ note'[i].created = note[i].created
                              /\ note'[i].news = note[i].news

LEMMA KeepsOnce ==
  ASSUME OncePerWindow, Keeps
  PROVE  OncePerWindow'
BY DEF OncePerWindow, Keeps

LEMMA KeepsRow ==
  ASSUME note \in Seq(Note), NEW i \in DOMAIN note, NEW r,
         note' = [note EXCEPT ![i] = r], r.key = note[i].key, r.created = note[i].created, r.news = note[i].news
  PROVE  Keeps /\ note'[i] = r /\ \A j \in DOMAIN note : j # i => note'[j] = note[j]
BY DEF Keeps

-----------------------------------------------------------------------------
(* The steps of the gate. *)

LEMMA AfterGiven ==
  ASSUME NEW c \in FlowCall
  PROVE  /\ After(c).pc = "idle" => After(c).batch = <<>>
         /\ After(c).batch = c.batch /\ After(c).pc \in {"idle", "ack"}
<1>1. After(c).batch = c.batch /\ After(c).pc \in {"idle", "ack"}
  BY AfterTyped, AfterBatch
<1>2. c.batch # <<>> => After(c).pc = "ack"
  BY DEF After, Resting
<1> QED
  BY <1>1, <1>2

(* A call enters create() or is over at once. *)
LEMMA CreateKeeps ==
  ASSUME OutboxInv, Windows, Calls, NEW d \in Device, NEW f \in Flow, NEW q \in FlowRequest, create(d, f, q),
         given \subseteq given', lost'.throws = lost.throws,
         flow[d][f].batch # <<>> => <<Head(flow[d][f].batch), d>> \in given'
  PROVE  Windows' /\ Calls'
<1>1. GateInv /\ flow[d][f] \in FlowCall /\ flow[d] \in [Flow -> FlowCall]
  BY Inboxes, CallTyped DEF OutboxInv
<1>2. ScheduledAt(q) \in 0..Never
  BY <1>1, DueTime DEF GateInv, FlowRequest
<1>3. PICK s \in 0..Never : s = ScheduledAt(q)
  BY <1>2
<1>4. PICK old \in FlowCall : old = flow[d][f]
  BY <1>1
<1> DEFINE c == [old EXCEPT !.req = q, !.at = s]
           r == [c EXCEPT !.pc = "insert"]
<1>5. c \in FlowCall /\ c.batch = old.batch /\ r.batch = old.batch /\ r.pc = "insert" /\ r.req = q
  BY <1>2, <1>3 DEF FlowCall
<1>6. /\ flow' = [flow EXCEPT ![d] = [flow[d] EXCEPT ![f] = IF Refused(d, q) THEN After(c) ELSE r]]
      /\ UNCHANGED <<now, enabled, inbox, os, shown>>
  BY <1>3, <1>4 DEF create
<1> HIDE DEF c, r
<1>7. CASE Refused(d, q)
  <2>1. flow' = [flow EXCEPT ![d] = [flow[d] EXCEPT ![f] = After(c)]]
    BY <1>6, <1>7
  <2>2. /\ After(c).pc = "idle" => After(c).batch = <<>>
        /\ After(c).batch = old.batch /\ After(c).pc # "insert"
    BY <1>5, AfterGiven
  <2>3. PICK over : over = After(c)
    OBVIOUS
  <2>4. /\ flow' = [flow EXCEPT ![d] = [flow[d] EXCEPT ![f] = over]] /\ now' = now /\ inbox' = inbox
        /\ over.pc = "idle" => over.batch = <<>>
        /\ over.batch = old.batch /\ over.pc # "insert"
    BY <1>6, <2>1, <2>2, <2>3
  <2>5. Windows'
    BY <1>1, <2>4, WindowsCall
  <2>6. Calls'
    BY <1>1, <1>4, <2>4, CallsMove
  <2> QED
    BY <2>5, <2>6
<1>8. CASE ~Refused(d, q)
  <2>1. flow' = [flow EXCEPT ![d] = [flow[d] EXCEPT ![f] = r]]
    BY <1>6, <1>8
  <2>2. Calls'
    BY <1>1, <1>4, <1>5, <2>1, CallsMove
  <2>3. Duplicates(d, r.req.key, DEDUPE_WINDOW_HOURS) = {}
    BY <1>5, <1>8 DEF Refused
  <2>4. ASSUME NEW e \in Device PROVE WindowKept(e)'
    <3>1. CASE e = d
      <4>1. flow'[d] = [flow[d] EXCEPT ![f] = r]
        BY <1>1, <2>1 DEF GateInv
      <4> QED
        BY <1>1, <1>6, <2>3, <3>1, <4>1, Inboxes, WindowEntered DEF Windows
    <3>2. CASE e # d
      <4>1. flow'[e] = flow[e] /\ inbox'[e] = inbox[e] /\ now' = now
        BY <1>1, <1>6, <2>1, <3>2 DEF GateInv
      <4> QED
        BY <1>1, <4>1, Inboxes, DeviceWindowStays DEF Windows
    <3> QED
      BY <3>1, <3>2
  <2> QED
    BY <2>2, <2>4 DEF Windows
<1> QED
  BY <1>7, <1>8

LEMMA InsertKeeps ==
  ASSUME OutboxInv, Windows, Calls, NEW d \in Device, NEW f \in Flow, Insert(d, f), UNCHANGED serverVars
  PROVE  Windows' /\ Calls'
<1>1. GateInv /\ DeviceInv(d) /\ flow[d][f] \in FlowCall /\ flow[d] \in [Flow -> FlowCall] /\ now \in 0..MaxHour
      /\ inbox[d] \in Seq(Row) /\ flow[d][f].pc = "insert" /\ now' = now
  BY Inboxes, CallTyped DEF OutboxInv, Insert
<1>2. PICK c \in FlowCall : c = flow[d][f]
  BY <1>1
<1>3. PICK new : new = [key |-> c.req.key, urgent |-> c.req.urgent, at |-> c.at,
                        day |-> Day(c.at), created |-> now, cancelled |-> FALSE]
  OBVIOUS
<1>4. PICK m : m = Len(inbox'[d])
  OBVIOUS
<1>5. new \in Row /\ new.created = now /\ ~new.cancelled /\ new.key = c.req.key
  <2>1. c.at \in Nat /\ HoursPerDay \in Nat \ {0}
    BY GateAssumption DEF FlowCall, Never
  <2>2. Day(c.at) \in Nat
    BY <2>1, Division DEF Day
  <2> QED
    BY <1>1, <1>3, <2>2 DEF FlowCall, FlowRequest, Row
<1>6. inbox' = [inbox EXCEPT ![d] = Append(inbox[d], new)]
  BY <1>2, <1>3 DEF Insert
<1> DEFINE r == [c EXCEPT !.pc = "schedule", !.row = m]
<1>7. flow' = [flow EXCEPT ![d] = [flow[d] EXCEPT ![f] = r]]
  <2>1. flow' = [flow EXCEPT ![d][f].pc = "schedule", ![d][f].row = m]
    BY <1>4 DEF Insert
  <2>2. flow = [e \in Device |-> flow[e]]
    BY <1>1 DEF GateInv
  <2> QED
    BY <1>1, <1>2, <2>1, <2>2
<1>8. r.pc = "schedule" /\ r.batch = c.batch
  BY DEF FlowCall
<1> HIDE DEF r
<1>9. Calls'
  <2>1. CallGiven(d, f)
    BY DEF Calls
  <2>2. r.batch # <<>> /\ lost'.throws = 0 => <<Head(r.batch), d>> \in given'
    BY <1>1, <1>2, <1>8, <2>1 DEF CallGiven, serverVars
  <2> QED
    BY <1>1, <1>7, <1>8, <2>2, CallsMove DEF serverVars
<1>10. ASSUME NEW e \in Device PROVE WindowKept(e)'
  <2>1. CASE e = d
    <3>1. flow'[d] = [flow[d] EXCEPT ![f] = r] /\ inbox'[d] = Append(inbox[d], new)
      BY <1>1, <1>6, <1>7 DEF GateInv
    <3>2. WindowKept(d)
      BY DEF Windows
    <3> QED
      BY <1>1, <1>2, <1>5, <1>8, <2>1, <3>1, <3>2, WindowInserted
  <2>2. CASE e # d
    <3>1. flow'[e] = flow[e] /\ inbox'[e] = inbox[e]
      BY <1>1, <1>6, <1>7, <2>2 DEF GateInv
    <3> QED
      BY <1>1, <3>1, Inboxes, DeviceWindowStays DEF Windows
  <2> QED
    BY <2>1, <2>2
<1> QED
  BY <1>9, <1>10 DEF Windows

LEMMA GateKeeps ==
  ASSUME OutboxInv, Windows, Calls, GateNext, UNCHANGED serverVars
  PROVE  Windows' /\ Calls'
<1>1. GateInv /\ lost' = lost /\ given' = given
  BY DEF OutboxInv, serverVars
<1>2. CASE Tick
  <2>1. flow' = flow /\ inbox' = inbox /\ now' = now + 1
    BY <1>2 DEF Tick
  <2>2. \A d \in Device : WindowKept(d)'
    BY <1>1, <2>1, Inboxes, DeviceWindowStays DEF Windows
  <2> QED
    BY <1>1, <2>1, <2>2, CallsStay DEF Windows
<1>3. ASSUME NEW d \in Device, setPreference(d) PROVE Windows' /\ Calls'
  BY <1>1, <1>3, WindowsStay, CallsStay DEF setPreference
<1>4. ASSUME NEW d \in Device, Reload(d) PROVE Windows' /\ Calls'
  <2>1. /\ \A f \in Flow : flow'[d][f] = Resting
        /\ \A e \in Device : e # d => flow'[e] = flow[e]
        /\ inbox' = inbox /\ now' = now
    BY <1>1, <1>4 DEF Reload, GateInv
  <2>2. Resting.pc = "idle" /\ Resting.batch = <<>>
    BY DEF Resting
  <2>3. \A e \in Device, g \in Flow : flow'[e][g] = flow[e][g] \/ flow'[e][g] = Resting
    BY <2>1
  <2>4. \A e \in Device : WindowKept(e)'
    BY <1>1, <2>1, <2>2, <2>3, Inboxes, DeviceWindowStays DEF Windows
  <2>5. \A e \in Device, g \in Flow : CallGiven(e, g)'
    BY <1>1, <2>2, <2>3 DEF Calls, CallGiven
  <2> QED
    BY <2>4, <2>5 DEF Windows, Calls
<1>5. ASSUME NEW d \in Device, NEW f \in Flow, scheduleFromPlan(d, f) PROVE Windows' /\ Calls'
  <2>1. PICK k \in PlanKey, asked \in 0..MaxHour :
          create(d, f, [key |-> k, urgent |-> k \in UrgentPlan, asked |-> asked])
    BY <1>5 DEF scheduleFromPlan
  <2>2. [key |-> k, urgent |-> k \in UrgentPlan, asked |-> asked] \in FlowRequest
    BY DEF FlowRequest, Asked
  <2>3. flow[d][f].batch = <<>>
    BY <1>5 DEF scheduleFromPlan, Calls, CallGiven
  <2> QED
    BY <1>1, <2>1, <2>2, <2>3, CreateKeeps
<1>6. ASSUME NEW d \in Device, NEW f \in Flow, Insert(d, f) PROVE Windows' /\ Calls'
  BY <1>6, InsertKeeps
<1>7. ASSUME NEW d \in Device, NEW f \in Flow, pushToDevice(d, f) PROVE Windows' /\ Calls'
  <2>1. PICK c \in FlowCall : c = flow[d][f]
    BY <1>1, CallTyped
  <2>2. /\ flow' = [flow EXCEPT ![d] = [flow[d] EXCEPT ![f] = After(c)]] /\ c.pc = "schedule"
        /\ now' = now /\ inbox' = inbox
    BY <1>7, <2>1 DEF pushToDevice
  <2>3. /\ After(c).pc = "idle" => After(c).batch = <<>>
        /\ After(c).batch = c.batch /\ After(c).pc # "insert"
    BY AfterGiven
  <2>4. CallGiven(d, f)
    BY DEF Calls
  <2>5. After(c).batch # <<>> /\ lost'.throws = 0 => <<Head(After(c).batch), d>> \in given'
    BY <1>1, <2>1, <2>2, <2>3, <2>4 DEF CallGiven
  <2>6. PICK r : r = After(c)
    OBVIOUS
  <2>7. Windows'
    BY <1>1, <2>2, <2>3, <2>6, WindowsCall
  <2>8. Calls'
    BY <1>1, <2>2, <2>3, <2>5, <2>6, CallsMove
  <2> QED
    BY <2>7, <2>8
<1>8. ASSUME NEW d \in Device, NEW i \in DOMAIN inbox[d], cancel(d, i) PROVE Windows' /\ Calls'
  <2>1. inbox' = [inbox EXCEPT ![d][i].cancelled = TRUE] /\ flow' = flow /\ now' = now
    BY <1>8 DEF cancel
  <2>2. \A e \in Device : inbox[e] \in Seq(Row) /\ now \in Nat
    BY <1>1, Inboxes
  <2>3. inbox'[d] = [inbox[d] EXCEPT ![i] = [inbox[d][i] EXCEPT !.cancelled = TRUE]]
        /\ \A e \in Device : e # d => inbox'[e] = inbox[e]
    BY <1>1, <2>1 DEF GateInv
  <2>4. inbox[d][i] \in Row
    BY <2>2, ElementOfSeq
  <2>5. PICK r : r = [inbox[d][i] EXCEPT !.cancelled = TRUE]
    OBVIOUS
  <2>6. r.key = inbox[d][i].key /\ r.created = inbox[d][i].created /\ r.cancelled
    BY <2>4, <2>5 DEF Row
  <2>7. inbox'[d] = [inbox[d] EXCEPT ![i] = r]
    BY <2>3, <2>5
  <2>8. WindowKept(d)'
    <3>1. DOMAIN inbox'[d] = DOMAIN inbox[d] /\ inbox'[d][i] = r
          /\ \A j \in DOMAIN inbox[d] : j # i => inbox'[d][j] = inbox[d][j]
      BY <2>7
    <3>2. now <= now' /\ now' \in Nat /\ WindowKept(d)
      BY <2>1, <2>2 DEF Windows
    <3>3. \A j \in DOMAIN inbox[d] : /\ inbox'[d][j].key = inbox[d][j].key
                                     /\ inbox'[d][j].created = inbox[d][j].created
                                     /\ inbox[d][j].cancelled => inbox'[d][j].cancelled
      BY <2>6, <3>1
    <3> QED
      BY <2>1, <2>2, <3>1, <3>2, <3>3, WindowShrinks
  <2>9. \A e \in Device : e # d => WindowKept(e)'
    BY <1>1, <2>1, <2>2, <2>3, DeviceWindowStays DEF Windows
  <2> QED
    BY <1>1, <2>1, <2>8, <2>9, CallsStay DEF Windows
<1>9. ASSUME NEW d \in Device, NEW i \in DOMAIN inbox[d], Fire(d, i) PROVE Windows' /\ Calls'
  BY <1>1, <1>9, WindowsStay, CallsStay DEF Fire
<1> QED
  BY <1>2, <1>3, <1>4, <1>5, <1>6, <1>7, <1>8, <1>9 DEF GateNext

-----------------------------------------------------------------------------
(* The steps of the server. *)

LEMMA CallFields ==
  ASSUME NEW x \in Delivery, NEW pc, NEW todo, NEW to, NEW answer, NEW heard
  PROVE  /\ [x EXCEPT !.pc = pc, !.todo = todo, !.to = to, !.answer = answer].answer = answer
         /\ [x EXCEPT !.pc = pc, !.todo = todo, !.to = to, !.answer = answer].to = to
         /\ [x EXCEPT !.pc = pc, !.to = to, !.answer = answer, !.delivered = heard].pc = pc
<1>1. x = [pc |-> x.pc, todo |-> x.todo, to |-> x.to, answer |-> x.answer, delivered |-> x.delivered]
  BY DEF Delivery
<1> QED
  BY <1>1

(* A note is added: its key has none in the window of a day, and nothing   *)
(* of it has been answered or taken yet.                                   *)
LEMMA NotifyKeeps ==
  ASSUME OutboxInv, Notes, NEW k \in Message \union Items, NEW news \in BOOLEAN, Notify(k, news),
         air' = air, popped' = popped, given' = given, lost.throws \in Nat
  PROVE  Notes' /\ lost'.throws = lost.throws
<1>1. /\ note \in Seq(Note) /\ Len(note) \in Nat
      /\ DOMAIN lost = {"notes", "requests", "restarts", "subs", "polls", "throws"}
      /\ delivery \in [1..MaxNotes -> Delivery] /\ DOMAIN note \subseteq 1..MaxNotes
  BY Begun
<1>2. CASE SameKey(k) # {}
  <2>1. UNCHANGED <<note, delivery, lost>>
    BY <1>2 DEF Notify
  <2> QED
    BY <2>1, NotesStay
<1>3. CASE SameKey(k) = {}
  <2>1. PICK s : s = Stored(k, news)
    OBVIOUS
  <2>2. PICK begun : begun = [NoDelivery EXCEPT !.pc = "next", !.todo = sub]
    OBVIOUS
  <2>3. PICK n \in Nat : n = Len(note) + 1
    BY <1>1
  <2>4. /\ lost' = [lost EXCEPT !.notes = lost.notes + 1]
        /\ note' = Append(note, s)
        /\ delivery' = delivery \/ delivery' = [delivery EXCEPT ![n] = begun]
    BY <1>3, <2>1, <2>2, <2>3 DEF Notify
  <2>5. s \in Note /\ s.key = k /\ s.created = now /\ ~s.delivered /\ begun.pc = "next"
    BY <2>1, <2>2, StoredTyped DEF Stored, NoDelivery
  <2>6. /\ DOMAIN note' = DOMAIN note \union {n} /\ n \notin DOMAIN note /\ note'[n] = s
        /\ \A i \in DOMAIN note : note'[i] = note[i] /\ i < n
    BY <1>1, <2>3, <2>4, <2>5
  <2>7. lost'.throws = lost.throws
    BY <1>1, <2>4
  <2>8. OncePerWindow'
    <3>1. ASSUME NEW i \in DOMAIN note', NEW j \in DOMAIN note', i < j, note'[i].key = note'[j].key
          PROVE  note'[j].created > note'[i].created + HoursPerDay
      <4>1. CASE j \in DOMAIN note
        <5>1. i # n /\ i \in DOMAIN note
          <6>1. j < n /\ j \in Nat /\ i \in Nat
            BY <1>1, <2>6, <4>1
          <6>2. i # n
            BY <2>3, <3>1, <6>1
          <6> QED
            BY <2>6, <6>2
        <5> QED
          BY <2>6, <3>1, <4>1, <5>1 DEF Notes, OncePerWindow
      <4>2. CASE j = n
        <5>1. i \in DOMAIN note
          BY <2>3, <2>6, <3>1, <4>2
        <5>2. note[i].key = k
          BY <2>5, <2>6, <3>1, <4>2, <5>1
        <5>3. ~(note[i].created + HoursPerDay >= now)
          BY <1>3, <5>1, <5>2 DEF SameKey
        <5>4. note[i].created \in Nat /\ HoursPerDay \in Nat /\ now \in Nat
          <6>1. note[i] \in Note
            BY <5>1, Begun
          <6> QED
            BY <6>1, Begun, GateAssumption DEF Note
        <5> QED
          BY <2>5, <2>6, <4>2, <5>1, <5>3, <5>4
      <4> QED
        BY <2>6, <4>1, <4>2
    <3> QED
      BY <3>1 DEF OncePerWindow
  <2>9. ASSUME NEW i \in 1..MaxNotes PROVE AnswerIsTrue(i)'
    <3>1. AnswerIsTrue(i)
      BY DEF Notes
    <3>2. CASE i = n
      <4>1. delivery[i].pc # "wait"
        BY <2>6, <3>1, <3>2 DEF AnswerIsTrue
      <4>2. delivery'[i] = delivery[i] \/ delivery'[i] = begun
        BY <1>1, <2>4, <3>2
      <4> QED
        BY <2>5, <4>1, <4>2 DEF AnswerIsTrue
    <3>3. CASE i # n
      <4>1. delivery'[i] = delivery[i]
        BY <1>1, <2>4, <3>3
      <4> QED
        BY <2>6, <3>1, <4>1 DEF AnswerIsTrue
    <3> QED
      BY <3>2, <3>3
  <2>10. ASSUME NEW i \in DOMAIN note', note'[i].delivered, lost'.throws = 0 PROVE Taken(i)'
    <3>1. i \in DOMAIN note /\ note'[i] = note[i]
      BY <2>5, <2>6, <2>10
    <3>2. Taken(i)
      BY <2>7, <2>10, <3>1 DEF Notes
    <3> QED
      BY <3>1, <3>2 DEF Taken
  <2> QED
    BY <2>7, <2>8, <2>9, <2>10 DEF Notes
<1> QED
  BY <1>2, <1>3

LEMMA SendKeeps ==
  ASSUME OutboxInv, Notes, lost.throws \in Nat, NEW i \in DOMAIN note, NEW d \in Device, Send(i, d)
  PROVE  Notes' /\ lost'.throws = lost.throws
<1>1. PICK answer \in {"ok", "gone", "fail"} :
        /\ air' \in {air, air \union {<<i, d>>}} /\ (answer = "ok" => <<i, d>> \in air')
        /\ lost' = lost \/ lost' = [lost EXCEPT !.requests = lost.requests + 1]
        /\ delivery' = [delivery EXCEPT ![i].pc = "wait", ![i].todo = @ \ {d}, ![i].to = {d}, ![i].answer = answer]
  BY DEF Send
<1>2. UNCHANGED <<note, popped, given>>
  BY DEF Send
<1>3. /\ delivery[i] \in Delivery /\ delivery \in [1..MaxNotes -> Delivery] /\ i \in 1..MaxNotes
      /\ DOMAIN lost = {"notes", "requests", "restarts", "subs", "polls", "throws"}
  BY Begun
<1>4. lost'.throws = lost.throws
  BY <1>1, <1>3
<1>5. PICK r : r = [delivery[i] EXCEPT !.pc = "wait", !.todo = delivery[i].todo \ {d}, !.to = {d}, !.answer = answer]
  OBVIOUS
<1>6. r.answer = answer /\ r.to = {d}
  BY <1>3, <1>5, CallFields
<1>7. delivery' = [delivery EXCEPT ![i] = r]
  BY <1>1, <1>3, <1>5
<1>8. OncePerWindow'
  BY <1>2 DEF Notes, OncePerWindow
<1>9. ASSUME NEW j \in 1..MaxNotes PROVE AnswerIsTrue(j)'
  <2>1. CASE j = i
    <3>1. delivery'[j] = r
      BY <1>3, <1>7, <2>1
    <3> QED
      BY <1>1, <1>2, <1>6, <2>1, <3>1 DEF AnswerIsTrue
  <2>2. CASE j # i
    <3>1. delivery'[j] = delivery[j] /\ AnswerIsTrue(j)
      BY <1>3, <1>7, <2>2 DEF Notes
    <3> QED
      BY <1>1, <1>2, <3>1 DEF AnswerIsTrue
  <2> QED
    BY <2>1, <2>2
<1>10. \A j \in DOMAIN note' : note'[j].delivered /\ lost'.throws = 0 => Taken(j)'
  BY <1>1, <1>2, <1>4 DEF Notes, Taken
<1> QED
  BY <1>4, <1>8, <1>9, <1>10 DEF Notes

(* Of the notes only one is marked, which somebody has taken.              *)
LEMMA MarkedKeeps ==
  ASSUME Notes, note \in Seq(Note), NEW i \in DOMAIN note,
         note' = note \/ (note' = [note EXCEPT ![i] = [note[i] EXCEPT !.delivered = TRUE]] /\ (lost.throws = 0 => Taken(i))),
         UNCHANGED <<air, popped, given>>, lost'.throws = lost.throws
  PROVE  /\ OncePerWindow' /\ Keeps
         /\ \A j \in DOMAIN note' : note'[j].delivered /\ lost'.throws = 0 => Taken(j)'
<1>1. CASE note' = note
  BY <1>1 DEF Notes, OncePerWindow, Keeps, Taken
<1>2. CASE note' = [note EXCEPT ![i] = [note[i] EXCEPT !.delivered = TRUE]] /\ (lost.throws = 0 => Taken(i))
  <2>1. note[i] \in Note
    BY ElementOfSeq
  <2>2. PICK r : r = [note[i] EXCEPT !.delivered = TRUE]
    OBVIOUS
  <2>3. r.key = note[i].key /\ r.created = note[i].created /\ r.news = note[i].news
    BY <2>1, <2>2 DEF Note
  <2>4. Keeps /\ note'[i] = r /\ \A j \in DOMAIN note : j # i => note'[j] = note[j]
    BY <1>2, <2>2, <2>3, KeepsRow
  <2>5. OncePerWindow'
    BY <2>4, KeepsOnce DEF Notes
  <2>6. ASSUME NEW j \in DOMAIN note', note'[j].delivered, lost'.throws = 0 PROVE Taken(j)'
    <3>1. j \in DOMAIN note /\ note'[j].news = note[j].news
      BY <2>4 DEF Keeps
    <3>2. Taken(j)
      BY <1>2, <2>4, <2>6, <3>1 DEF Notes
    <3> QED
      BY <3>1, <3>2 DEF Taken
  <2> QED
    BY <2>4, <2>5, <2>6
<1> QED
  BY <1>1, <1>2

LEMMA AnsweredKeeps ==
  ASSUME OutboxInv, Notes, NEW i \in DOMAIN note, Answered(i)
  PROVE  Notes' /\ lost'.throws = lost.throws
<1>1. /\ note' = (IF delivery[i].answer = "ok" /\ delivery[i].to \subseteq Fcm /\ UrgentNote(i)
                  THEN [note EXCEPT ![i] = [note[i] EXCEPT !.delivered = TRUE]] ELSE note)
      /\ delivery[i].pc = "wait"
      /\ UNCHANGED <<air, popped, lost, given>>
  <2>1. delivery[i].pc = "wait"
    BY DEF Answered
  <2>2. UNCHANGED <<air, popped, lost, given>>
    BY DEF Answered
  <2>3. note' = IF delivery[i].answer = "ok" /\ delivery[i].to \subseteq Fcm /\ UrgentNote(i)
                THEN [note EXCEPT ![i].delivered = TRUE] ELSE note
    BY DEF Answered
  <2> QED
    BY <2>1, <2>2, <2>3
<1>2. delivery[i] \in Delivery /\ delivery \in [1..MaxNotes -> Delivery] /\ i \in 1..MaxNotes /\ note \in Seq(Note)
  BY Begun
<1>3. note' # note => Taken(i)
  BY <1>1, <1>2 DEF Notes, AnswerIsTrue, Taken, UrgentNote
<1>4. /\ OncePerWindow' /\ Keeps
      /\ \A j \in DOMAIN note' : note'[j].delivered /\ lost'.throws = 0 => Taken(j)'
  BY <1>1, <1>2, <1>3, MarkedKeeps
<1>5. PICK heard : heard = (delivery[i].delivered \/ delivery[i].answer = "ok")
  OBVIOUS
<1>6. PICK r : r = [delivery[i] EXCEPT !.pc = "next", !.to = {}, !.answer = "", !.delivered = heard]
  OBVIOUS
<1>7. r.pc = "next"
  BY <1>2, <1>6, CallFields
<1>8. delivery' = [delivery EXCEPT ![i] = r]
  <2> DEFINE spoke == delivery[i].delivered \/ delivery[i].answer = "ok"
  <2>1. delivery' = [delivery EXCEPT ![i] = [delivery[i] EXCEPT !.pc = "next", !.to = {}, !.answer = "",
                                                                !.delivered = spoke]]
    BY <1>2 DEF Answered
  <2> HIDE DEF spoke
  <2>2. spoke = heard
    BY <1>5 DEF spoke
  <2> QED
    BY <1>6, <2>1, <2>2
<1>9. ASSUME NEW j \in 1..MaxNotes PROVE AnswerIsTrue(j)'
  <2>1. CASE j = i
    <3>1. delivery'[j] = r
      BY <1>2, <1>8, <2>1
    <3> QED
      BY <1>7, <3>1 DEF AnswerIsTrue
  <2>2. CASE j # i
    <3>1. delivery'[j] = delivery[j] /\ AnswerIsTrue(j)
      BY <1>2, <1>8, <2>2 DEF Notes
    <3> QED
      BY <1>1, <1>4, <3>1 DEF AnswerIsTrue, Keeps
  <2> QED
    BY <2>1, <2>2
<1> QED
  BY <1>1, <1>4, <1>9 DEF Notes

LEMMA DeliveredKeeps ==
  ASSUME OutboxInv, Notes, NEW i \in DOMAIN note, Delivered(i)
  PROVE  Notes' /\ lost'.throws = lost.throws
<1>1. /\ delivery' = [delivery EXCEPT ![i] = NoDelivery]
      /\ UNCHANGED <<air, popped, lost, given>>
  BY DEF Delivered
<1>2. PICK p : p = IF delivery[i].delivered THEN "sent" ELSE "failed"
  OBVIOUS
<1>3. PICK r : r = [note[i] EXCEPT !.push = p]
  OBVIOUS
<1>4. note' = [note EXCEPT ![i] = r]
  BY <1>2, <1>3 DEF Delivered
<1>5. delivery \in [1..MaxNotes -> Delivery] /\ note \in Seq(Note) /\ note[i] \in Note
  BY Begun
<1>6. r.key = note[i].key /\ r.created = note[i].created /\ r.news = note[i].news /\ r.delivered = note[i].delivered
  BY <1>3, <1>5 DEF Note
<1>7. Keeps /\ note'[i] = r /\ \A j \in DOMAIN note : j # i => note'[j] = note[j]
  BY <1>4, <1>5, <1>6, KeepsRow
<1>8. OncePerWindow'
  BY <1>7, KeepsOnce DEF Notes
<1>9. ASSUME NEW j \in 1..MaxNotes PROVE AnswerIsTrue(j)'
  <2>1. delivery'[j] = delivery[j] \/ delivery'[j] = NoDelivery
    BY <1>1, <1>5
  <2>2. NoDelivery.pc = "none"
    BY DEF NoDelivery
  <2> QED
    BY <1>1, <1>7, <2>1, <2>2 DEF Notes, AnswerIsTrue, Keeps
<1>10. ASSUME NEW j \in DOMAIN note', note'[j].delivered, lost'.throws = 0 PROVE Taken(j)'
  <2>1. j \in DOMAIN note /\ note'[j].news = note[j].news /\ note'[j].delivered = note[j].delivered
    BY <1>6, <1>7 DEF Keeps
  <2>2. Taken(j)
    BY <1>1, <1>10, <2>1 DEF Notes
  <2> QED
    BY <1>1, <2>1, <2>2 DEF Taken
<1> QED
  BY <1>1, <1>8, <1>9, <1>10 DEF Notes

(* What arrives at a device is shown there, or was no urgent message.      *)
LEMMA ArriveKeeps ==
  ASSUME OutboxInv, Notes, NEW i \in DOMAIN note, NEW d \in Device, Arrive(i, d)
  PROVE  Notes' /\ lost'.throws = lost.throws
<1>1. /\ air' = air \ {<<i, d>>} /\ popped \subseteq popped' /\ (note[i].news => <<i, d>> \in popped')
      /\ UNCHANGED <<note, delivery, lost, given>>
  BY DEF Arrive, UrgentNote
<1>2. \A j \in DOMAIN note, e \in Device : note[j].news /\ <<j, e>> \in air \union popped => <<j, e>> \in air' \union popped'
  BY <1>1
<1>3. OncePerWindow'
  BY <1>1 DEF Notes, OncePerWindow
<1>4. \A j \in 1..MaxNotes : AnswerIsTrue(j)'
  BY <1>1, <1>2 DEF Notes, AnswerIsTrue
<1>5. \A j \in DOMAIN note' : note'[j].delivered /\ lost'.throws = 0 => Taken(j)'
  BY <1>1, <1>2 DEF Notes, Taken
<1> QED
  BY <1>1, <1>3, <1>4, <1>5 DEF Notes

LEMMA RestartKeeps ==
  ASSUME OutboxInv, Notes, ServerRestart
  PROVE  Notes' /\ lost'.throws = lost.throws
<1>1. /\ lost' = [lost EXCEPT !.restarts = lost.restarts + 1]
      /\ delivery' = [i \in 1..MaxNotes |-> NoDelivery]
      /\ UNCHANGED <<note, air, popped, given>>
  BY DEF ServerRestart
<1>2. lost'.throws = lost.throws
  BY <1>1, Begun
<1>3. OncePerWindow' /\ \A j \in DOMAIN note' : note'[j].delivered /\ lost'.throws = 0 => Taken(j)'
  BY <1>1, <1>2 DEF Notes, OncePerWindow, Taken
<1>4. \A j \in 1..MaxNotes : AnswerIsTrue(j)'
  <2> TAKE j \in 1..MaxNotes
  <2>1. delivery'[j] = NoDelivery /\ NoDelivery.pc = "none"
    BY <1>1 DEF NoDelivery
  <2> QED
    BY <2>1 DEF AnswerIsTrue
<1> QED
  BY <1>2, <1>3, <1>4 DEF Notes

LEMMA ServerKeeps ==
  ASSUME OutboxInv, Notes, lost.throws \in Nat, Server
  PROVE  Notes' /\ lost'.throws = lost.throws /\ UNCHANGED gateVars /\ given' = given
<1>1. ASSUME NEW k \in Message, notify(k)
      PROVE  Notes' /\ lost'.throws = lost.throws /\ UNCHANGED gateVars /\ given' = given
  BY <1>1, NotifyKeeps DEF notify
<1>2. ASSUME NEW l \in Loops, notifyUrgentNews(l)
      PROVE  Notes' /\ lost'.throws = lost.throws /\ UNCHANGED gateVars /\ given' = given
  BY <1>2, NotesStay DEF notifyUrgentNews
<1>3. ASSUME NEW l \in Loops, NewsItem(l)
      PROVE  Notes' /\ lost'.throws = lost.throws /\ UNCHANGED gateVars /\ given' = given
  <2>1. UNCHANGED <<gateVars, air, popped, given>>
    BY <1>3 DEF NewsItem
  <2>2. CASE UNCHANGED <<note, delivery, lost>>
    BY <2>1, <2>2, NotesStay
  <2>3. CASE Notify(Head(loop[l].left), TRUE)
    <3>1. loop[l].left \in Seq(Items) /\ loop[l].left # <<>>
      BY <1>3, Begun DEF Loop, NewsItem
    <3>2. Head(loop[l].left) \in Items
      BY <3>1
    <3> QED
      BY <2>1, <2>3, <3>2, NotifyKeeps
  <2> QED
    BY <1>3, <2>2, <2>3 DEF NewsItem
<1>4. ASSUME NEW i \in DOMAIN note, Answered(i)
      PROVE  Notes' /\ lost'.throws = lost.throws /\ UNCHANGED gateVars /\ given' = given
  <2>1. UNCHANGED gateVars /\ given' = given
    BY <1>4 DEF Answered
  <2> QED
    BY <1>4, <2>1, AnsweredKeeps
<1>5. ASSUME NEW i \in DOMAIN note, Delivered(i)
      PROVE  Notes' /\ lost'.throws = lost.throws /\ UNCHANGED gateVars /\ given' = given
  BY <1>5, DeliveredKeeps DEF Delivered
<1>6. ASSUME NEW i \in DOMAIN note, NEW d \in Device, Send(i, d)
      PROVE  Notes' /\ lost'.throws = lost.throws /\ UNCHANGED gateVars /\ given' = given
  <2>1. UNCHANGED gateVars /\ given' = given
    BY <1>6 DEF Send
  <2> QED
    BY <1>6, <2>1, SendKeeps
<1>7. ASSUME NEW i \in DOMAIN note, NEW d \in Device, Arrive(i, d)
      PROVE  Notes' /\ lost'.throws = lost.throws /\ UNCHANGED gateVars /\ given' = given
  BY <1>7, ArriveKeeps DEF Arrive
<1>8. CASE ServerRestart
  BY <1>8, RestartKeeps DEF ServerRestart
<1> QED
  BY <1>1, <1>2, <1>3, <1>4, <1>5, <1>6, <1>7, <1>8 DEF Server

-----------------------------------------------------------------------------
(* The steps of the polls. *)

LEMMA SubscriptionsKeep ==
  ASSUME OutboxInv, Windows, Calls, Notes, NEW d \in Device,
         addSubscription(d) \/ disablePush(d) \/ EndpointDies(d)
  PROVE  Windows' /\ Calls' /\ Notes' /\ lost'.throws = lost.throws
<1>1. /\ lost' = [lost EXCEPT !.subs = lost.subs + 1]
      /\ UNCHANGED gateVars /\ UNCHANGED <<note, delivery, air, popped, given>>
  BY DEF addSubscription, disablePush, EndpointDies
<1>2. lost'.throws = lost.throws
  BY <1>1, Begun
<1>3. GateInv /\ now' = now /\ inbox' = inbox /\ flow' = flow
  BY <1>1 DEF OutboxInv, gateVars
<1> QED
  BY <1>1, <1>2, <1>3, WindowsStay, CallsStay, NotesStay

LEMMA PollFetchKeeps ==
  ASSUME OutboxInv, Windows, Calls, Notes, NEW d \in Device, NEW f \in Flow, PollFetch(d, f)
  PROVE  Windows' /\ Calls' /\ Notes' /\ lost'.throws = lost.throws
<1>1. PICK batch : flow' = [flow EXCEPT ![d][f].pc = "item", ![d][f].batch = batch]
  BY DEF PollFetch
<1>2. now' = now /\ inbox' = inbox /\ UNCHANGED <<note, delivery, air, popped, given, lost>>
  BY DEF PollFetch, serverVars
<1>3. GateInv /\ flow[d][f] \in FlowCall /\ flow[d] \in [Flow -> FlowCall] /\ flow = [e \in Device |-> flow[e]]
  BY CallTyped DEF OutboxInv, GateInv, DeviceInv, DeviceTyped
<1>4. PICK r : r = [flow[d][f] EXCEPT !.pc = "item", !.batch = batch]
  OBVIOUS
<1>5. r.pc = "item"
  BY <1>3, <1>4 DEF FlowCall
<1>6. flow' = [flow EXCEPT ![d] = [flow[d] EXCEPT ![f] = r]]
  BY <1>1, <1>3, <1>4
<1>7. Windows'
  BY <1>2, <1>3, <1>5, <1>6, WindowsCall
<1>8. Calls'
  BY <1>2, <1>3, <1>5, <1>6, CallsMove
<1> QED
  BY <1>2, <1>7, <1>8, NotesStay

(* A notification that the gate refuses or takes is given; a gate that     *)
(* fails is counted.                                                       *)
LEMMA PollItemKeeps ==
  ASSUME OutboxInv, Windows, Calls, Notes, lost.throws \in Nat, NEW d \in Device, NEW f \in Flow, PollItem(d, f)
  PROVE  Windows' /\ Calls' /\ Notes' /\ lost'.throws \in Nat
<1>1. PICK i : i = Head(flow[d][f].batch)
  OBVIOUS
<1>2. PICK q : q = [key |-> i, urgent |-> UrgentNote(i), asked |-> Never]
  OBVIOUS
<1>3. /\ GateInv /\ BatchesKnown /\ flow[d][f] \in FlowCall /\ flow[d][f].pc = "item"
      /\ UNCHANGED <<note, delivery, air, popped>>
  BY CallTyped DEF OutboxInv, PollItem
<1>4. flow[d][f].batch \in Seq(DOMAIN note) /\ flow[d][f].batch # <<>>
  BY <1>3 DEF BatchesKnown, BatchKnown
<1>5. i \in DOMAIN note
  BY <1>1, <1>4
<1>6. CASE create(d, f, q) /\ given' = given \cup {<<i, d>>} /\ UNCHANGED <<spent, lost>>
  <2>1. q \in FlowRequest
    <3>1. note[i] \in Note /\ i \in Nat
      BY <1>5, Begun
    <3>2. UrgentNote(i) \in BOOLEAN
      BY <3>1 DEF UrgentNote, Note
    <3> QED
      BY <1>2, <3>1, <3>2 DEF FlowRequest, Asked
  <2>2. given \subseteq given' /\ <<i, d>> \in given' /\ lost' = lost
    BY <1>6
  <2>3. Windows' /\ Calls'
    BY <1>1, <1>6, <2>1, <2>2, CreateKeeps
  <2> QED
    BY <1>3, <2>2, <2>3, NotesStay
<1>7. CASE /\ lost' = [lost EXCEPT !.throws = @ + 1]
           /\ flow' = [flow EXCEPT ![d][f].pc = "ack"]
           /\ UNCHANGED <<now, enabled, inbox, os, shown, spent, given>>
  <2>1. lost'.throws = lost.throws + 1
    BY <1>7, Begun
  <2>2. lost'.throws \in Nat /\ lost'.throws # 0
    BY <2>1
  <2>3. PICK r : r = [flow[d][f] EXCEPT !.pc = "ack"]
    OBVIOUS
  <2>4. r.pc = "ack"
    BY <1>3, <2>3 DEF FlowCall
  <2>5. flow' = [flow EXCEPT ![d] = [flow[d] EXCEPT ![f] = r]]
    BY <1>7, <2>3
  <2>6. now' = now /\ inbox' = inbox /\ given' = given
    BY <1>7
  <2>7. Windows'
    BY <1>3, <2>4, <2>5, <2>6, WindowsCall
  <2>8. Calls'
    BY <1>3, <2>2, <2>4, <2>5, <2>6, CallsMove
  <2> QED
    BY <1>3, <2>2, <2>6, <2>7, <2>8, NotesStay
<1> QED
  BY <1>1, <1>2, <1>6, <1>7 DEF PollItem

(* What is taken out of the queue went to the gate of the device.          *)
LEMMA MarkDeliveredKeeps ==
  ASSUME OutboxInv, Windows, Calls, Notes, NEW d \in Device, NEW f \in Flow, markDelivered(d, f)
  PROVE  Windows' /\ Calls' /\ Notes' /\ lost'.throws = lost.throws
<1>1. PICK i : i = Head(flow[d][f].batch)
  OBVIOUS
<1>2. PICK rest : rest = Tail(flow[d][f].batch)
  OBVIOUS
<1>3. PICK r : r = IF rest = <<>> THEN Resting ELSE [Resting EXCEPT !.pc = "item", !.batch = rest]
  OBVIOUS
<1>4. /\ GateInv /\ BatchesKnown /\ flow[d][f] \in FlowCall /\ flow[d][f].pc = "ack"
      /\ flow' = [flow EXCEPT ![d] = [flow[d] EXCEPT ![f] = r]]
      /\ now' = now /\ inbox' = inbox /\ UNCHANGED <<delivery, air, popped, given>>
  BY <1>2, <1>3, CallTyped DEF OutboxInv, markDelivered
<1>5. /\ note' = note \/ note' = [note EXCEPT ![i] = [note[i] EXCEPT !.delivered = TRUE]]
      /\ lost' = lost \/ lost' = [lost EXCEPT !.polls = lost.polls + 1]
  BY <1>1 DEF markDelivered
<1>6. lost'.throws = lost.throws
  BY <1>5, Begun
<1>7. flow[d][f].batch \in Seq(DOMAIN note) /\ flow[d][f].batch # <<>> /\ note \in Seq(Note)
  BY <1>4, Begun DEF BatchesKnown, BatchKnown
<1>8. i \in DOMAIN note
  BY <1>1, <1>7
<1>9. lost.throws = 0 => Taken(i)
  <2>1. CallGiven(d, f)
    BY DEF Calls
  <2> QED
    BY <1>1, <1>4, <1>7, <2>1 DEF CallGiven, Taken
<1>10. r.pc \in {"idle", "item"} /\ (r.pc = "idle" => r.batch = <<>>)
  BY <1>3, RestingTyped DEF Resting
<1>11. Windows'
  BY <1>4, <1>10, WindowsCall
<1>12. Calls'
  BY <1>4, <1>6, <1>10, CallsMove
<1>13. /\ OncePerWindow' /\ Keeps
       /\ \A j \in DOMAIN note' : note'[j].delivered /\ lost'.throws = 0 => Taken(j)'
  BY <1>4, <1>5, <1>6, <1>7, <1>8, <1>9, MarkedKeeps
<1>14. \A j \in 1..MaxNotes : AnswerIsTrue(j)'
  BY <1>4, <1>13 DEF Notes, AnswerIsTrue, Keeps
<1> QED
  BY <1>6, <1>11, <1>12, <1>13, <1>14 DEF Notes

-----------------------------------------------------------------------------

LEMMA NoticeInit == Init => NoticeInv
<1> SUFFICES ASSUME Init PROVE NoticeInv
  OBVIOUS
<1>1. /\ inbox = [d \in Device |-> <<>>] /\ flow = [d \in Device |-> [f \in Flow |-> Resting]]
      /\ note = <<>>
  BY DEF Init, GateInit
<1>2. lost.throws \in Nat
  BY DEF Init
<1>3. delivery = [i \in 1..MaxNotes |-> NoDelivery] /\ NoDelivery.pc = "none"
  BY DEF Init, NoDelivery
<1>4. OncePerWindow /\ \A i \in DOMAIN note : note[i].delivered /\ lost.throws = 0 => Taken(i)
  BY <1>1 DEF OncePerWindow
<1>5. \A d \in Device : WindowKept(d)
  <2>1. \A d \in Device : \A k : PolledRows(d, k) = {}
    BY <1>1 DEF PolledRows
  <2> QED
    BY <2>1 DEF WindowKept
<1>6. \A d \in Device, f \in Flow : CallGiven(d, f)
  <2>1. Resting.batch = <<>> /\ Resting.pc = "idle"
    BY DEF Resting
  <2>2. \A d \in Device, f \in Flow : flow[d][f] = Resting
    BY <1>1
  <2> QED
    BY <2>1, <2>2 DEF CallGiven
<1>7. \A i \in 1..MaxNotes : AnswerIsTrue(i)
  <2>1. \A i \in 1..MaxNotes : delivery[i].pc = "none"
    BY <1>3
  <2> QED
    BY <2>1 DEF AnswerIsTrue
<1> QED
  BY <1>2, <1>4, <1>5, <1>6, <1>7 DEF NoticeInv

LEMMA NoticeKept == OutboxInv /\ NoticeInv /\ [Next]_vars => NoticeInv'
<1> SUFFICES ASSUME OutboxInv, NoticeInv, [Next]_vars PROVE NoticeInv'
  OBVIOUS
<1>1. Windows /\ Calls /\ Notes /\ lost.throws \in Nat /\ GateInv
  BY DEF NoticeInv, Windows, Calls, Notes, OutboxInv
<1> SUFFICES Windows' /\ Calls' /\ Notes' /\ lost'.throws \in Nat
  BY DEF NoticeInv, Windows, Calls, Notes
<1>2. CASE GateNext /\ UNCHANGED serverVars
  <2>1. UNCHANGED <<note, delivery, air, popped, given, lost>>
    BY <1>2 DEF serverVars
  <2> QED
    BY <1>1, <1>2, <2>1, GateKeeps, NotesStay
<1>3. CASE Server
  <2>1. Notes' /\ lost'.throws = lost.throws /\ UNCHANGED gateVars /\ given' = given
    BY <1>1, <1>3, ServerKeeps
  <2>2. now' = now /\ inbox' = inbox /\ flow' = flow
    BY <2>1 DEF gateVars
  <2> QED
    BY <1>1, <2>1, <2>2, WindowsStay, CallsStay
<1>4. ASSUME NEW d \in Device, Client(d) PROVE Windows' /\ Calls' /\ Notes' /\ lost'.throws \in Nat
  <2>1. CASE addSubscription(d) \/ disablePush(d) \/ EndpointDies(d)
    BY <1>1, <2>1, SubscriptionsKeep
  <2>2. ASSUME NEW f \in Flow, PollFetch(d, f) \/ PollItem(d, f) \/ markDelivered(d, f)
        PROVE  Windows' /\ Calls' /\ Notes' /\ lost'.throws \in Nat
    BY <1>1, <2>2, PollFetchKeeps, PollItemKeeps, MarkDeliveredKeeps
  <2> QED
    BY <1>4, <2>1, <2>2 DEF Client
<1>5. CASE UNCHANGED vars
  <2>1. now' = now /\ inbox' = inbox /\ flow' = flow /\ UNCHANGED <<note, delivery, air, popped, given, lost>>
    BY <1>5 DEF vars, serverVars, gateVars
  <2> QED
    BY <1>1, <2>1, WindowsStay, CallsStay, NotesStay
<1> QED
  BY <1>2, <1>3, <1>4, <1>5 DEF Next

LEMMA NoticeSuffices == NoticeInv => NoticesArrive
<1> SUFFICES ASSUME NoticeInv PROVE NoticesArrive
  OBVIOUS
<1>1. PolledOnce
  BY DEF NoticeInv, WindowKept, RowKept, Within, PolledOnce
<1>2. NothingVanishes
  BY DEF NoticeInv, NothingVanishes, Taken
<1> QED
  BY <1>1, <1>2 DEF NoticeInv, NoticesArrive

(* A notification gets one row of the queue in the window of its key; however  *)
(* often and by however many calls it is fetched, a device has no more rows of  *)
(* it in a window than calls that ran at once; and the queue does not stop to   *)
(* offer it before a gate has decided about it or a push service has it, as     *)
(* long as no gate fails (push.ts 137-181, push.ts of the web application       *)
(* 160-173, notifications.ts 79-84).                                            *)
THEOREM NoticeSafety == Spec => []NoticesArrive
<1>1. OutboxInv /\ [Next]_vars => OutboxInv'
  BY OutboxKept
<1>2. OutboxInv /\ NoticeInv /\ [Next]_vars => NoticeInv'
  BY NoticeKept
<1> QED
  BY <1>1, <1>2, OutboxInit, NoticeInit, NoticeSuffices, PTL DEF Spec
=============================================================================
