------------------------- MODULE SyncEngineProofs -------------------------
(***************************************************************************)
(* No operation of SyncEngine is stuck in flight and nothing behind the    *)
(* cursor of a device is missing; no change that is to be sent is without  *)
(* an operation in the queue and no operation waits for the user without a *)
(* conflict to decide.  For any devices, entities, page size and limit of  *)
(* attempts.                                                               *)
(*                                                                         *)
(* The inductive invariant speaks about one device at a time: Sound(d, r,  *)
(* q, b, c, cur, x, fd) relates its rows r, queue q, base b, conflicts c,  *)
(* cursor cur and engine x to the feed fd.  A step of a device is taken    *)
(* apart into what happens to the rows and the queue (LocalStep), what     *)
(* happens to the engine (Resuming, Resting, Starting) and, for the other  *)
(* devices, what happens to the feed (FeedGrows).                          *)
(*                                                                         *)
(* QueueInv relates the rows, the queue, the open conflicts and what the   *)
(* engine holds between two awaits.  KeptInv, at the end of the module, is *)
(* about a single device: it follows what the user said from the row       *)
(* through the queue and the acks to the server.                           *)
(***************************************************************************)
EXTENDS SyncEngine, FiniteSetTheorems, WellFoundedInduction

(* The engine is busy with the acks of a push, or with the changes of a    *)
(* pull.                                                                   *)
Deciding(x) == x.pc \in {"decided", "requeue"}
Answering(x) == x.pc = "answer" \/ (Deciding(x) /\ x.plan.from = "answer")
Applying(x) == x.pc = "apply" \/ (Deciding(x) /\ x.plan.from = "apply")

LocalTyped(r, q, b, c, cur, x) ==
    /\ r \in Rows
    /\ q \in Seq(QueuedOp)
    /\ b \in [Entity -> Values \cup {NoBase}]
    /\ c \in [Entity -> OpenConflict \cup {NoConflict}]
    /\ cur \in Nat
    /\ x \in EngineState

(* What is queued and what is in conflict has a row. *)
HasRows(r, q, c) ==
    /\ \A i \in DOMAIN q : r[q[i].ent] # NoRow
    /\ \A e \in Entity : c[e] # NoConflict => r[e] # NoRow

(* The batch and its acks name operations of the queue, which have         *)
(* attempts left while the answer may still get lost.                      *)
BatchSound(q, x) ==
    /\ \A k \in DOMAIN x.batch : x.batch[k] \in DOMAIN q
    /\ \A k \in DOMAIN x.acks : \E j \in DOMAIN x.batch : x.batch[j] = x.acks[k].id
    /\ x.pc = "push" \/ Answering(x) =>
          \A k \in DOMAIN x.batch : q[x.batch[k]].attempts < MAX_ATTEMPTS
    /\ ~Answering(x) => x.acks = <<>>

(* InFlightIsAwaited, of one device. *)
Awaited(q, x) ==
    \A i \in DOMAIN q : q[i].status = "in_flight" =>
        \/ x.pc = "push" /\ \E k \in DOMAIN x.batch : x.batch[k] = i
        \/ \E k \in DOMAIN x.acks : x.acks[k].id = i

(* A decision is about the first ack or the first change that is left, and *)
(* about a row that is there unless it is to be inserted.                  *)
PlanSound(r, x, fd) ==
    Deciding(x) =>
        /\ x.plan \in PlanOf
        /\ x.plan.from = "answer" =>
              x.plan.step.do # "insert" /\ x.acks # <<>> /\ Head(x.acks).id = x.plan.id
        /\ x.plan.from = "apply" =>
              x.changes # {} /\ fd[Earliest(x.changes)].ent = x.plan.ent
        /\ x.plan.step.do # "insert" => r[x.plan.ent] # NoRow
        /\ x.pc = "requeue" => x.plan.step.do = "merge"

(* An entry of the feed the device needs nothing of any more. *)
Known(r, entry) == Parent[entry.ent] = entry.ent => r[entry.ent] # NoRow

(* What the device has put behind its cursor, and what it is about to, is  *)
(* known or among the changes still to apply.                              *)
CursorSound(d, r, cur, x, fd) ==
    /\ cur <= Len(fd) /\ x.next <= Len(fd)
    /\ x.changes \subseteq DOMAIN fd
    /\ \A i \in DOMAIN fd : i <= cur \/ fd[i].dev = d => Known(r, fd[i])
    /\ Applying(x) =>
          \A i \in DOMAIN fd : i <= x.next => i \in x.changes \/ Known(r, fd[i])

Sound(d, r, q, b, c, cur, x, fd) ==
    /\ LocalTyped(r, q, b, c, cur, x)
    /\ HasRows(r, q, c)
    /\ BatchSound(q, x)
    /\ Awaited(q, x)
    /\ PlanSound(r, x, fd)
    /\ CursorSound(d, r, cur, x, fd)

Spent == [edits : 0..MaxEdits, faults : Nat, crashes : Nat, torn : Nat, choices : Nat]

EngineInv ==
    /\ TypeOK
    /\ spent \in Spent
    /\ \A d \in Device : Sound(d, row[d], queue[d], base[d], conf[d], cursor[d], eng[d], feed)

-----------------------------------------------------------------------------
(* Numbers, finite sets and orders *)

(* A set of naturals that is not empty has a least element. *)
LEMMA HasEarliest ==
  ASSUME NEW S \in SUBSET Nat, S # {}
  PROVE  Earliest(S) \in S /\ \A j \in S : Earliest(S) <= j
<1>1. IsWellFoundedOn(OpToRel(<, Nat), Nat)
  BY NatLessThanWellFounded
<1>2. PICK i \in S : \A j \in S : ~(<<j, i>> \in OpToRel(<, Nat))
  BY <1>1, WFMin
<1>3. \A j \in S : ~(j < i)
  BY <1>2 DEF OpToRel
<1>4. \A j \in S : i <= j
  BY <1>3
<1> QED
  BY <1>4 DEF Earliest

(* Induction up to a bound, for a set of naturals. *)
LEMMA Climb ==
  ASSUME NEW n \in Nat, NEW T, 0 \in T, \A k \in 1..n : k - 1 \in T => k \in T
  PROVE  0..n \subseteq T
<1> DEFINE S == {k \in 0..n : k \notin T}
<1> SUFFICES ASSUME S # {} PROVE FALSE
  OBVIOUS
<1>1. Earliest(S) \in S /\ \A j \in S : Earliest(S) <= j
  BY HasEarliest, S \subseteq Nat
<1>2. Earliest(S) \in 1..n /\ Earliest(S) - 1 \in 0..n
  BY <1>1
<1>3. Earliest(S) - 1 \in T
  BY <1>1, <1>2
<1> HIDE DEF S
<1>4. Earliest(S) \in T
  BY <1>2, <1>3
<1> QED
  BY <1>1, <1>4 DEF S

(* A set of naturals with a bound has a greatest element. *)
LEMMA HasLatest ==
  ASSUME NEW n \in Nat, NEW S \in SUBSET (0..n), S # {}
  PROVE  Latest(S) \in S /\ \A j \in S : j <= Latest(S)
<1> DEFINE T == {n - i : i \in S}
<1>1. T \in SUBSET Nat /\ T # {}
  <2>1. \A i \in S : n - i \in Nat
    OBVIOUS
  <2>2. PICK i \in S : TRUE
    OBVIOUS
  <2>3. n - i \in T
    OBVIOUS
  <2> QED
    BY <2>1, <2>3
<1>2. Earliest(T) \in T /\ \A j \in T : Earliest(T) <= j
  BY <1>1, HasEarliest
<1>3. PICK i \in S : Earliest(T) = n - i
  BY <1>2
<1>4. \A j \in S : n - i <= n - j
  BY <1>2, <1>3
<1>5. \A j \in S : j <= i
  BY <1>4
<1> QED
  BY <1>5 DEF Latest

(* The function a LET declares by what it is after one step less. *)
Iterates(f, n, s, step) == f = [k \in 0..n |-> IF k = 0 THEN s ELSE step[k][f[k - 1]]]

LEMMA StepByStep ==
  ASSUME NEW n \in Nat, NEW S, NEW s \in S, NEW step \in [1..n -> [S -> S]]
  PROVE  \E f \in [0..n -> S] : Iterates(f, n, s, step)
<1> DEFINE Runs(m, f) == /\ f \in [0..m -> S]
                         /\ f[0] = s
                         /\ \A k \in 1..m : f[k] = step[k][f[k - 1]]
           T == {m \in 0..n : \E f : Runs(m, f)}
<1>1. 0 \in T
  <2>1. Runs(0, [k \in 0..0 |-> s])
    OBVIOUS
  <2> HIDE DEF Runs
  <2>2. \E f : Runs(0, f)
    BY <2>1
  <2> QED
    BY <2>2
<1>2. ASSUME NEW m \in 1..n, m - 1 \in T PROVE m \in T
  <2>1. PICK f : Runs(m - 1, f)
    BY <1>2
  <2> DEFINE g == [k \in 0..m |-> IF k = m THEN step[m][f[m - 1]] ELSE f[k]]
  <2>2. f[m - 1] \in S /\ step[m][f[m - 1]] \in S
    BY <2>1
  <2>3. g \in [0..m -> S]
    BY <2>1, <2>2
  <2>4. g[0] = s
    BY <2>1
  <2>5. ASSUME NEW k \in 1..m PROVE g[k] = step[k][g[k - 1]]
    <3>1. CASE k = m
      BY <3>1
    <3>2. CASE k # m
      <4>1. k \in 1..m - 1 /\ k - 1 \in 0..m - 1
        BY <3>2
      <4> QED
        BY <2>1, <4>1
    <3> QED
      BY <3>1, <3>2
  <2> HIDE DEF g
  <2>6. Runs(m, g)
    BY <2>3, <2>4, <2>5
  <2> HIDE DEF Runs
  <2>7. \E h : Runs(m, h)
    BY <2>6
  <2> QED
    BY <2>7
<1> HIDE DEF T
<1>3. n \in T
  <2>1. 0..n \subseteq T
    BY <1>1, <1>2, Climb
  <2> QED
    BY <2>1
<1>4. PICK f : Runs(n, f)
  BY <1>3 DEF T
<1>5. Iterates(f, n, s, step)
  BY <1>4 DEF Iterates
<1> QED
  BY <1>4, <1>5

(* A subset of a sequence's positions is finite. *)
LEMMA PositionsFinite ==
  ASSUME NEW n \in Nat, NEW S \in SUBSET (1..n)
  PROVE  /\ IsFiniteSet(S) /\ Cardinality(S) \in Nat
         /\ \A T \in SUBSET S : /\ IsFiniteSet(T) /\ Cardinality(T) \in Nat
                                /\ Cardinality(T) <= Cardinality(S)
                                /\ T # S => Cardinality(T) < Cardinality(S)
<1>1. IsFiniteSet(1..n)
  BY FS_Interval
<1>2. IsFiniteSet(S) /\ Cardinality(S) \in Nat
  BY <1>1, FS_Subset, FS_CardinalityType
<1>3. ASSUME NEW T \in SUBSET S
      PROVE  /\ IsFiniteSet(T) /\ Cardinality(T) \in Nat
             /\ Cardinality(T) <= Cardinality(S)
             /\ T # S => Cardinality(T) < Cardinality(S)
  <2>1. IsFiniteSet(T) /\ Cardinality(T) <= Cardinality(S) /\ (Cardinality(S) = Cardinality(T) => S = T)
    BY <1>2, FS_Subset
  <2>2. Cardinality(T) \in Nat
    BY <2>1, FS_CardinalityType
  <2> QED
    BY <1>2, <2>1, <2>2
<1> QED
  BY <1>2, <1>3

-----------------------------------------------------------------------------
(* The batch and the page *)

LEMMA MarkedOps ==
  ASSUME NEW q \in Seq(QueuedOp), NEW S, NEW status \in Live \cup {"synchronized", "failed"}
  PROVE  /\ Marked(q, S, status) \in Seq(QueuedOp)
         /\ Len(Marked(q, S, status)) = Len(q)
         /\ \A i \in DOMAIN q :
               /\ Marked(q, S, status)[i].ent = q[i].ent
               /\ Marked(q, S, status)[i].attempts = q[i].attempts
               /\ Marked(q, S, status)[i].status = IF i \in S THEN status ELSE q[i].status
<1> DEFINE m == Marked(q, S, status)
<1>1. DOMAIN q = 1..Len(q) /\ Len(q) \in Nat
  OBVIOUS
<1>2. \A i \in 1..Len(q) : q[i] \in QueuedOp
  BY <1>1
<1>3. m = [i \in 1..Len(q) |-> IF i \in S THEN [q[i] EXCEPT !.status = status] ELSE q[i]]
  BY <1>1 DEF Marked
<1>4. ASSUME NEW i \in 1..Len(q)
      PROVE  /\ m[i] \in QueuedOp /\ m[i].ent = q[i].ent /\ m[i].attempts = q[i].attempts
             /\ m[i].status = IF i \in S THEN status ELSE q[i].status
  <2> DEFINE s == [q[i] EXCEPT !.status = status]
  <2>1. q[i] \in QueuedOp
    BY <1>2
  <2>2. status \in Live \cup {"synchronized", "failed"}
    OBVIOUS
  <2>3. s \in QueuedOp /\ s.ent = q[i].ent /\ s.attempts = q[i].attempts /\ s.status = status
    BY <2>1, <2>2 DEF QueuedOp
  <2>4. m[i] = IF i \in S THEN s ELSE q[i]
    BY <1>3
  <2> HIDE DEF s, m
  <2> QED
    BY <2>1, <2>3, <2>4
<1> HIDE DEF m
<1>5. m \in [1..Len(q) -> QueuedOp]
  BY <1>3, <1>4
<1>6. m \in Seq(QueuedOp) /\ Len(m) = Len(q)
  BY <1>1, <1>5
<1> QED
  BY <1>1, <1>4, <1>6 DEF m

LEMMA BeforeOrders ==
  ASSUME NEW q \in Seq(QueuedOp)
  PROVE  /\ \A i, j, k \in DOMAIN q : Before(q, i, j) /\ Before(q, j, k) => Before(q, i, k)
         /\ \A i \in DOMAIN q : ~Before(q, i, i)
         /\ \A i, j \in DOMAIN q : i = j \/ Before(q, i, j) \/ Before(q, j, i)
<1> DEFINE rank(i) == IF q[i].urgent THEN 10 ELSE Priority[q[i].ent]
<1>1. ASSUME NEW i \in DOMAIN q PROVE rank(i) \in Nat /\ i \in Nat
  <2>1. q[i] \in QueuedOp
    OBVIOUS
  <2>2. q[i].ent \in Entity
    BY <2>1 DEF QueuedOp
  <2> QED
    BY <2>2, EngineAssumption
<1>2. \A i, j : Before(q, i, j) <=> rank(i) > rank(j) \/ (rank(i) = rank(j) /\ i < j)
  BY DEF Before, Position
<1> HIDE DEF rank
<1> QED
  BY <1>1, <1>2

(* Batch lists the operations that wait: no CHOOSE of it is empty. *)
LEMMA BatchIsWaiting ==
  ASSUME NEW q \in Seq(QueuedOp)
  PROVE  /\ Batch(q) \in Seq(Nat)
         /\ \A k \in DOMAIN Batch(q) : Batch(q)[k] \in Waiting(q) /\ Ahead(q, Batch(q)[k]) = k - 1
         /\ \A i \in Waiting(q) : \E k \in DOMAIN Batch(q) : Batch(q)[k] = i
         /\ \A i, j \in Waiting(q) : Before(q, i, j) => Ahead(q, i) < Ahead(q, j)
<1> DEFINE W == Waiting(q)
           n == Cardinality(W)
           ahead(i) == {j \in W : Before(q, j, i)}
<1>1. DOMAIN q = 1..Len(q) /\ Len(q) \in Nat /\ W \subseteq 1..Len(q)
  BY DEF Waiting
<1>2. IsFiniteSet(W) /\ n \in Nat
  BY <1>1, PositionsFinite
<1>3. ASSUME NEW i \in W PROVE Ahead(q, i) \in 0..(n - 1)
  <2>1. ahead(i) \subseteq W /\ i \notin ahead(i)
    BY <1>1, BeforeOrders
  <2>2. Cardinality(ahead(i)) \in Nat /\ Cardinality(ahead(i)) < n
    BY <1>1, <1>3, <2>1, PositionsFinite
  <2> QED
    BY <1>2, <2>2 DEF Ahead
<1>4. ASSUME NEW i \in W, NEW j \in W, Before(q, i, j) PROVE Ahead(q, i) < Ahead(q, j)
  <2>1. ahead(i) \subseteq ahead(j) /\ i \in ahead(j) /\ i \notin ahead(i)
    BY <1>1, <1>4, BeforeOrders
  <2>2. ahead(j) \subseteq 1..Len(q)
    BY <1>1
  <2> HIDE DEF ahead
  <2>3. Cardinality(ahead(i)) < Cardinality(ahead(j))
    BY <1>1, <2>1, <2>2, PositionsFinite
  <2> QED
    BY <2>3 DEF Ahead, ahead
<1> DEFINE f == [i \in W |-> Ahead(q, i)]
<1>5. f \in Injection(W, 0..(n - 1))
  <2>1. f \in [W -> 0..(n - 1)]
    BY <1>3
  <2>2. ASSUME NEW i \in W, NEW j \in W, f[i] = f[j] PROVE i = j
    <3>1. Ahead(q, i) = Ahead(q, j)
      BY <2>2
    <3>2. Ahead(q, i) \in Nat /\ Ahead(q, j) \in Nat
      BY <1>3
    <3>3. ~Before(q, i, j) /\ ~Before(q, j, i)
      BY <1>4, <3>1, <3>2
    <3> QED
      BY <1>1, <3>3, BeforeOrders
  <2> QED
    BY <2>1, <2>2 DEF Injection, IsInjective
<1>6. IsFiniteSet(0..(n - 1)) /\ Cardinality(0..(n - 1)) = n
  <2>1. n - 1 \in Int /\ (0 > n - 1 => n = 0) /\ (n - 1) - 0 + 1 = n
    BY <1>2
  <2>2. /\ IsFiniteSet(0..(n - 1))
        /\ Cardinality(0..(n - 1)) = IF 0 > n - 1 THEN 0 ELSE (n - 1) - 0 + 1
    BY <2>1, FS_Interval
  <2> QED
    BY <2>1, <2>2
<1>7. f \in Surjection(W, 0..(n - 1))
  BY <1>5, <1>6, FS_Injection
<1>8. ASSUME NEW k \in 1..n PROVE \E i \in W : Ahead(q, i) = k - 1
  <2>1. k - 1 \in 0..(n - 1)
    BY <1>2
  <2>2. \A t \in 0..(n - 1) : \E i \in W : f[i] = t
    BY <1>7 DEF Surjection
  <2>3. PICK i \in W : f[i] = k - 1
    BY <2>1, <2>2
  <2> QED
    BY <2>3
<1>9. Batch(q) = [k \in 1..n |-> CHOOSE i \in W : Ahead(q, i) = k - 1]
  BY DEF Batch
<1>10. \A k \in 1..n : Batch(q)[k] \in W /\ Ahead(q, Batch(q)[k]) = k - 1
  BY <1>8, <1>9
<1>11. Batch(q) \in [1..n -> Nat]
  <2>1. \A k \in 1..n : Batch(q)[k] \in Nat
    BY <1>1, <1>10
  <2> QED
    BY <1>9, <2>1
<1>12. ASSUME NEW i \in W PROVE \E k \in 1..n : Batch(q)[k] = i
  <2> DEFINE k == Ahead(q, i) + 1
  <2>1. k \in 1..n /\ k - 1 = Ahead(q, i)
    BY <1>2, <1>3
  <2>2. Batch(q)[k] \in W /\ f[Batch(q)[k]] = f[i]
    BY <1>10, <2>1
  <2>3. Batch(q)[k] = i
    BY <1>5, <2>2 DEF Injection, IsInjective
  <2> QED
    BY <2>1, <2>3
<1> HIDE DEF n
<1>13. Batch(q) \in Seq(Nat) /\ DOMAIN Batch(q) = 1..n
  BY <1>2, <1>11
<1> QED
  BY <1>4, <1>10, <1>12, <1>13

(* Nothing the device has to apply lies before the new cursor and outside  *)
(* the page.                                                               *)
LEMMA PageIsWhole ==
  ASSUME TypeOK, NEW d \in Device, cursor[d] <= Len(feed)
  PROVE  /\ Page(d) \subseteq DOMAIN feed
         /\ PageCursor(d, Page(d)) \in 0..Len(feed)
         /\ \A i \in Foreign(d) : i <= PageCursor(d, Page(d)) => i \in Page(d)
<1> DEFINE F == Foreign(d)
           before(i) == {j \in F : j < i}
<1>1. cursor[d] \in Nat /\ Len(feed) \in Nat /\ DOMAIN feed = 1..Len(feed)
  BY DEF TypeOK
<1>2. F \subseteq 1..Len(feed) /\ PageLimit \in Nat \ {0}
  BY <1>1, EngineAssumption DEF Foreign
<1>3. Page(d) \subseteq F /\ \A i \in F : i \in Page(d) <=> Cardinality(before(i)) < PageLimit
  BY DEF Page
<1>4. CASE Page(d) = {}
  <2>1. PageCursor(d, Page(d)) = MaxOf(Len(feed), cursor[d])
    BY <1>4 DEF PageCursor
  <2>2. F = {}
    <3> SUFFICES ASSUME F # {} PROVE FALSE
      OBVIOUS
    <3>1. Earliest(F) \in F /\ \A j \in F : Earliest(F) <= j
      BY <1>2, HasEarliest
    <3>2. before(Earliest(F)) = {}
      BY <1>2, <3>1
    <3>3. Cardinality(before(Earliest(F))) = 0
      BY <3>2, FS_EmptySet
    <3> QED
      BY <1>2, <1>3, <1>4, <3>1, <3>3
  <2> QED
    BY <1>1, <1>4, <2>1, <2>2 DEF MaxOf
<1>5. CASE Page(d) # {}
  <2>1. PageCursor(d, Page(d)) = Latest(Page(d))
    BY <1>5 DEF PageCursor
  <2>2. Latest(Page(d)) \in Page(d)
    <3>1. Page(d) \subseteq 0..Len(feed)
      BY <1>1, <1>2, <1>3
    <3> QED
      BY <1>1, <1>5, <3>1, HasLatest
  <2>3. ASSUME NEW i \in F, i <= Latest(Page(d)) PROVE i \in Page(d)
    <3>1. before(i) \subseteq before(Latest(Page(d)))
      BY <1>2, <1>3, <2>2, <2>3
    <3>2. before(Latest(Page(d))) \subseteq 1..Len(feed)
      BY <1>2
    <3>3. Cardinality(before(Latest(Page(d)))) < PageLimit
      BY <1>3, <2>2
    <3> HIDE DEF before
    <3>4. /\ Cardinality(before(i)) <= Cardinality(before(Latest(Page(d))))
          /\ Cardinality(before(i)) \in Nat /\ Cardinality(before(Latest(Page(d)))) \in Nat
      BY <1>1, <3>1, <3>2, PositionsFinite
    <3>5. Cardinality(before(i)) < PageLimit
      BY <1>2, <3>3, <3>4
    <3> QED
      BY <1>3, <3>5 DEF before
  <2> QED
    BY <1>1, <1>2, <1>3, <2>1, <2>2, <2>3
<1> QED
  BY <1>4, <1>5

-----------------------------------------------------------------------------
(* The parts of a step *)

(* What a step of a device may do to its rows and its queue while the      *)
(* engine keeps its place.                                                 *)
RowsKept(r, r2) == r2 \in Rows /\ \A e \in Entity : r[e] # NoRow => r2[e] # NoRow

QueueKept(r2, q, q2) ==
    /\ q2 \in Seq(QueuedOp) /\ Len(q) <= Len(q2)
    /\ \A i \in DOMAIN q :
          /\ q2[i].ent = q[i].ent /\ q2[i].attempts = q[i].attempts
          /\ q2[i].status = "in_flight" => q[i].status = "in_flight"
    /\ \A i \in DOMAIN q2 \ DOMAIN q : q2[i].status # "in_flight" /\ r2[q2[i].ent] # NoRow

ConfKept(r2, c, c2) ==
    /\ c2 \in [Entity -> OpenConflict \cup {NoConflict}]
    /\ \A e \in Entity : c2[e] # NoConflict => c[e] # NoConflict \/ r2[e] # NoRow

LEMMA LocalStep ==
  ASSUME NEW d, NEW r, NEW q, NEW b, NEW c, NEW cur, NEW x, NEW fd,
         NEW r2, NEW q2, NEW b2, NEW c2,
         Sound(d, r, q, b, c, cur, x, fd), fd \in Seq(FeedEntry),
         RowsKept(r, r2), QueueKept(r2, q, q2), ConfKept(r2, c, c2),
         b2 \in [Entity -> Values \cup {NoBase}]
  PROVE  Sound(d, r2, q2, b2, c2, cur, x, fd)
<1>1. LocalTyped(r, q, b, c, cur, x) /\ LocalTyped(r2, q2, b2, c2, cur, x)
  BY DEF Sound, LocalTyped, RowsKept, QueueKept, ConfKept
<1>2. /\ DOMAIN q = 1..Len(q) /\ DOMAIN q2 = 1..Len(q2) /\ Len(q) \in Nat /\ Len(q2) \in Nat
      /\ \A i \in DOMAIN q : q[i] \in QueuedOp
      /\ \A i \in DOMAIN q2 : q2[i] \in QueuedOp
  BY <1>1 DEF LocalTyped
<1>3. DOMAIN q \subseteq DOMAIN q2
  BY <1>2 DEF QueueKept
<1>4. HasRows(r2, q2, c2)
  <2>1. ASSUME NEW i \in DOMAIN q2 PROVE r2[q2[i].ent] # NoRow
    <3>1. CASE i \in DOMAIN q
      <4>1. q[i].ent \in Entity /\ r[q[i].ent] # NoRow /\ q2[i].ent = q[i].ent
        BY <1>2, <3>1 DEF Sound, HasRows, QueuedOp, QueueKept
      <4> QED
        BY <4>1 DEF RowsKept
    <3>2. CASE i \notin DOMAIN q
      BY <3>2 DEF QueueKept
    <3> QED
      BY <3>1, <3>2
  <2>2. \A e \in Entity : c2[e] # NoConflict => r2[e] # NoRow
    BY DEF Sound, HasRows, ConfKept, RowsKept
  <2> QED
    BY <2>1, <2>2 DEF HasRows
<1>5. BatchSound(q2, x)
  BY <1>3 DEF Sound, BatchSound, QueueKept
<1>6. Awaited(q2, x)
  BY <1>3 DEF Sound, Awaited, QueueKept
<1>7. PlanSound(r2, x, fd)
  <2>1. x.plan \in PlanOf => x.plan.ent \in Entity
    BY DEF PlanOf
  <2> QED
    BY <2>1 DEF Sound, PlanSound, RowsKept
<1>8. CursorSound(d, r2, cur, x, fd)
  <2>1. \A i \in DOMAIN fd : fd[i].ent \in Entity
    <3>1. \A i \in DOMAIN fd : fd[i] \in FeedEntry
      OBVIOUS
    <3> QED
      BY <3>1 DEF FeedEntry
  <2>2. \A i \in DOMAIN fd : Known(r, fd[i]) => Known(r2, fd[i])
    BY <2>1 DEF Known, RowsKept
  <2> QED
    BY <2>2 DEF Sound, CursorSound
<1> QED
  BY <1>1, <1>4, <1>5, <1>6, <1>7, <1>8 DEF Sound

LEMMA FeedGrows ==
  ASSUME NEW d, NEW r, NEW q, NEW b, NEW c, NEW cur, NEW x, NEW fd, NEW fd2,
         Sound(d, r, q, b, c, cur, x, fd), fd \in Seq(FeedEntry), fd2 \in Seq(FeedEntry),
         Len(fd) <= Len(fd2), \A i \in 1..Len(fd) : fd2[i] = fd[i],
         \A i \in (Len(fd) + 1)..Len(fd2) : fd2[i].dev = d => r[fd2[i].ent] # NoRow
  PROVE  Sound(d, r, q, b, c, cur, x, fd2)
<1>1. /\ Len(fd) \in Nat /\ Len(fd2) \in Nat
      /\ DOMAIN fd = 1..Len(fd) /\ DOMAIN fd2 = 1..Len(fd2)
  OBVIOUS
<1>2. cur \in Nat /\ x \in EngineState /\ x.next \in Nat
  BY DEF Sound, LocalTyped, EngineState
<1>3. PlanSound(r, x, fd2)
  <2>1. ASSUME Deciding(x), x.plan.from = "apply"
        PROVE  fd2[Earliest(x.changes)].ent = x.plan.ent
    <3>1. x.changes # {} /\ x.changes \subseteq 1..Len(fd)
      BY <1>1, <2>1 DEF Sound, PlanSound, CursorSound
    <3>2. Earliest(x.changes) \in 1..Len(fd)
      BY <1>1, <3>1, HasEarliest
    <3> QED
      BY <2>1, <3>2 DEF Sound, PlanSound
  <2> QED
    BY <2>1 DEF Sound, PlanSound
<1>4. CursorSound(d, r, cur, x, fd2)
  <2>1. cur <= Len(fd2) /\ x.next <= Len(fd2) /\ x.changes \subseteq DOMAIN fd2
    BY <1>1, <1>2 DEF Sound, CursorSound
  <2>2. ASSUME NEW i \in DOMAIN fd2, i <= cur \/ fd2[i].dev = d PROVE Known(r, fd2[i])
    <3>1. CASE i \in DOMAIN fd
      BY <1>1, <2>2, <3>1 DEF Sound, CursorSound
    <3>2. CASE i \notin DOMAIN fd
      <4>1. i \in (Len(fd) + 1)..Len(fd2)
        BY <1>1, <3>2
      <4>2. cur <= Len(fd)
        BY DEF Sound, CursorSound
      <4>3. fd2[i].dev = d
        BY <1>1, <1>2, <2>2, <4>1, <4>2
      <4> QED
        BY <4>1, <4>3 DEF Known
    <3> QED
      BY <3>1, <3>2
  <2>3. ASSUME Applying(x), NEW i \in DOMAIN fd2, i <= x.next
        PROVE  i \in x.changes \/ Known(r, fd2[i])
    <3>1. x.next <= Len(fd)
      BY DEF Sound, CursorSound
    <3>2. i \in DOMAIN fd /\ fd2[i] = fd[i]
      BY <1>1, <1>2, <2>3, <3>1
    <3> QED
      BY <2>3, <3>2 DEF Sound, CursorSound
  <2> QED
    BY <2>1, <2>2, <2>3 DEF CursorSound
<1> QED
  BY <1>3, <1>4 DEF Sound

(* A device at rest whose queue has nothing in flight. *)
LEMMA Resting ==
  ASSUME NEW d, NEW r, NEW q, NEW b, NEW c, NEW cur, NEW x, NEW fd, fd \in Seq(FeedEntry),
         Sound(d, r, q, b, c, cur, x, fd), \A i \in DOMAIN q : q[i].status # "in_flight"
  PROVE  Sound(d, r, q, b, c, cur, IdleEngine, fd)
<1>1. IdleEngine \in EngineState
  BY DEF IdleEngine, EngineState
<1>2. ~Deciding(IdleEngine) /\ ~Answering(IdleEngine) /\ ~Applying(IdleEngine) /\ IdleEngine.pc # "push"
  BY DEF IdleEngine, Deciding, Answering, Applying
<1>3. LocalTyped(r, q, b, c, cur, IdleEngine)
  BY <1>1 DEF Sound, LocalTyped
<1>4. BatchSound(q, IdleEngine)
  BY <1>2 DEF BatchSound, IdleEngine
<1>5. CursorSound(d, r, cur, IdleEngine, fd)
  <2>1. IdleEngine.next = 0 /\ IdleEngine.changes = {} /\ Len(fd) \in Nat
    BY DEF IdleEngine
  <2> QED
    BY <1>2, <2>1 DEF Sound, CursorSound
<1> QED
  BY <1>2, <1>3, <1>4, <1>5 DEF Sound, Awaited, PlanSound

(* The engine goes on after a decision was carried out. *)
LEMMA Resuming ==
  ASSUME NEW d, NEW r, NEW q, NEW b, NEW c, NEW cur, NEW x, NEW fd, fd \in Seq(FeedEntry),
         Sound(d, r, q, b, c, cur, x, fd), Deciding(x),
         x.plan.from = "answer" => q[x.plan.id].status # "in_flight",
         Parent[x.plan.ent] = x.plan.ent => r[x.plan.ent] # NoRow
  PROVE  Sound(d, r, q, b, c, cur, Resumed(x), fd)
<1> DEFINE y == Resumed(x)
<1>1. x \in EngineState /\ x.plan \in PlanOf /\ x.plan.step \in Step
  BY DEF Sound, LocalTyped, PlanSound, PlanOf
<1>2. /\ y.pc = x.plan.from /\ y.batch = x.batch /\ y.next = x.next
      /\ y.acks = IF x.plan.from = "answer" THEN Tail(x.acks) ELSE x.acks
      /\ y.changes = IF x.plan.from = "answer" THEN x.changes
                     ELSE x.changes \ {Earliest(x.changes)}
  BY <1>1 DEF Resumed, EngineState
<1>3. x.plan.from \in {"answer", "apply"}
  BY <1>1 DEF PlanOf
<1>4. x.acks \in Seq(Ack) /\ x.changes \subseteq Nat
  BY <1>1 DEF EngineState
<1>5. x.plan.from = "answer" => x.acks # <<>> /\ Head(x.acks).id = x.plan.id
  BY DEF Sound, PlanSound
<1>6. y \in EngineState
  <2>1. x.plan.from = "answer" => Tail(x.acks) \in Seq(Ack)
    BY <1>4, <1>5
  <2>2. (x.merged \/ x.plan.step.merged) \in BOOLEAN
    BY <1>1 DEF Step, EngineState
  <2>3. (x.changes \ {Earliest(x.changes)}) \in SUBSET Nat
    BY <1>4
  <2> QED
    BY <1>1, <1>3, <2>1, <2>2, <2>3 DEF Resumed, EngineState
<1> HIDE DEF y
<1>7. LocalTyped(r, q, b, c, cur, y)
  BY <1>6 DEF Sound, LocalTyped
<1>8. ~Deciding(y) /\ (Answering(y) <=> x.plan.from = "answer") /\ (Applying(y) <=> x.plan.from = "apply")
  BY <1>2, <1>3 DEF Deciding, Answering, Applying
<1>9. Answering(x) <=> x.plan.from = "answer"
  BY DEF Answering, Deciding
<1>10. Applying(x) <=> x.plan.from = "apply"
  BY DEF Applying, Deciding
<1>11. ASSUME x.plan.from = "answer"
       PROVE  /\ \A k \in DOMAIN y.acks : k + 1 \in DOMAIN x.acks /\ y.acks[k] = x.acks[k + 1]
              /\ \A k \in DOMAIN x.acks : x.acks[k].id = x.plan.id \/ (k - 1 \in DOMAIN y.acks /\ y.acks[k - 1] = x.acks[k])
  BY <1>2, <1>4, <1>5, <1>11
<1>12. BatchSound(q, y)
  <2>1. ASSUME NEW k \in DOMAIN y.acks PROVE \E j \in DOMAIN y.batch : y.batch[j] = y.acks[k].id
    <3>1. \E m \in DOMAIN x.acks : y.acks[k] = x.acks[m]
      BY <1>2, <1>11, <2>1
    <3> QED
      BY <1>2, <3>1 DEF Sound, BatchSound
  <2>2. ~Answering(y) => y.acks = <<>>
    BY <1>2, <1>3, <1>8, <1>9 DEF Sound, BatchSound
  <2>3. y.pc # "push"
    BY <1>2, <1>3
  <2> QED
    BY <1>2, <1>8, <1>9, <2>1, <2>2, <2>3 DEF Sound, BatchSound
<1>13. Awaited(q, y)
  <2>1. ASSUME NEW i \in DOMAIN q, q[i].status = "in_flight"
        PROVE  \E k \in DOMAIN y.acks : y.acks[k].id = i
    <3>1. x.pc # "push"
      BY DEF Deciding
    <3>2. PICK k \in DOMAIN x.acks : x.acks[k].id = i
      BY <2>1, <3>1 DEF Sound, Awaited
    <3>3. x.plan.from = "answer"
      BY <1>9, <3>2 DEF Sound, BatchSound
    <3>4. x.acks[k].id # x.plan.id
      BY <2>1, <3>2, <3>3
    <3> QED
      BY <1>11, <3>2, <3>3, <3>4
  <2> QED
    BY <2>1 DEF Awaited
<1>14. CursorSound(d, r, cur, y, fd)
  <2>1. y.changes \subseteq DOMAIN fd
    BY <1>2 DEF Sound, CursorSound
  <2>2. ASSUME Applying(y), NEW i \in DOMAIN fd, i <= y.next
        PROVE  i \in y.changes \/ Known(r, fd[i])
    <3>1. i \in x.changes \/ Known(r, fd[i])
      BY <1>2, <1>8, <1>10, <2>2 DEF Sound, CursorSound
    <3>2. CASE i = Earliest(x.changes)
      <4>1. fd[i].ent = x.plan.ent
        BY <1>8, <2>2, <3>2 DEF Sound, PlanSound
      <4> QED
        BY <4>1 DEF Known
    <3>3. CASE i # Earliest(x.changes)
      BY <1>2, <1>8, <2>2, <3>1, <3>3
    <3> QED
      BY <3>2, <3>3
  <2> QED
    BY <1>2, <2>1, <2>2 DEF Sound, CursorSound
<1>15. PlanSound(r, y, fd)
  BY <1>8 DEF PlanSound
<1> QED
  BY <1>7, <1>12, <1>13, <1>14, <1>15 DEF Sound, y

-----------------------------------------------------------------------------
(* What the user and the engine do to the queue *)

LEMMA OpTyped ==
  ASSUME NEW e \in Entity, NEW kind \in {"create", "update"}, NEW v \in Nat, NEW r \in LocalRow,
         NEW urgent \in BOOLEAN
  PROVE  OpOf(e, kind, v, r, urgent) \in QueuedOp /\ OpOf(e, kind, v, r, urgent).ent = e
         /\ OpOf(e, kind, v, r, urgent).status = "pending"
<1>1. 0 \in 0..MAX_ATTEMPTS
  BY EngineAssumption
<1> QED
  BY <1>1 DEF OpOf, QueuedOp, LocalRow, Live

LEMMA QueueSame ==
  ASSUME NEW r2, NEW q \in Seq(QueuedOp)
  PROVE  QueueKept(r2, q, q)
BY DEF QueueKept

LEMMA QueueLonger ==
  ASSUME NEW r2, NEW q \in Seq(QueuedOp), NEW q2 \in Seq(QueuedOp), QueueKept(r2, q, q2),
         NEW op \in QueuedOp, op.status # "in_flight", r2[op.ent] # NoRow
  PROVE  QueueKept(r2, q, Append(q2, op))
<1> DEFINE q3 == Append(q2, op)
<1>1. /\ q3 \in Seq(QueuedOp) /\ Len(q3) = Len(q2) + 1
      /\ \A i \in 1..Len(q2) : q3[i] = q2[i]
      /\ q3[Len(q2) + 1] = op
  OBVIOUS
<1>2. /\ Len(q) \in Nat /\ Len(q2) \in Nat /\ Len(q) <= Len(q2)
      /\ DOMAIN q = 1..Len(q) /\ DOMAIN q2 = 1..Len(q2) /\ DOMAIN q3 = 1..(Len(q2) + 1)
  BY <1>1 DEF QueueKept
<1> HIDE DEF q3
<1>3. \A i \in DOMAIN q : q3[i] = q2[i]
  BY <1>1, <1>2
<1>4. \A i \in DOMAIN q3 \ DOMAIN q : \/ (i \in DOMAIN q2 \ DOMAIN q /\ q3[i] = q2[i])
                                       \/ q3[i] = op
  BY <1>1, <1>2
<1>5. \A i \in DOMAIN q3 \ DOMAIN q : q3[i].status # "in_flight" /\ r2[q3[i].ent] # NoRow
  BY <1>4 DEF QueueKept
<1>6. Len(q) <= Len(q3)
  BY <1>1, <1>2
<1> QED
  BY <1>1, <1>3, <1>5, <1>6 DEF QueueKept, q3

LEMMA QueueMarked ==
  ASSUME NEW r2, NEW q \in Seq(QueuedOp), NEW q2 \in Seq(QueuedOp), QueueKept(r2, q, q2),
         NEW S, NEW status \in (Live \cup {"synchronized", "failed"}) \ {"in_flight"}
  PROVE  QueueKept(r2, q, Marked(q2, S, status))
<1> DEFINE q3 == Marked(q2, S, status)
<1>1. /\ q3 \in Seq(QueuedOp) /\ Len(q3) = Len(q2)
      /\ \A i \in DOMAIN q2 : /\ q3[i].ent = q2[i].ent /\ q3[i].attempts = q2[i].attempts
                              /\ q3[i].status = IF i \in S THEN status ELSE q2[i].status
  BY MarkedOps
<1> HIDE DEF q3
<1>2. /\ DOMAIN q3 = DOMAIN q2 /\ DOMAIN q \subseteq DOMAIN q2
  BY <1>1 DEF QueueKept
<1>3. status # "in_flight"
  OBVIOUS
<1>4. /\ Len(q) <= Len(q3)
      /\ \A i \in DOMAIN q :
          /\ q3[i].ent = q[i].ent /\ q3[i].attempts = q[i].attempts
          /\ q3[i].status = "in_flight" => q[i].status = "in_flight"
  BY <1>1, <1>2, <1>3 DEF QueueKept
<1>5. \A i \in DOMAIN q3 \ DOMAIN q : q3[i].status # "in_flight" /\ r2[q3[i].ent] # NoRow
  BY <1>1, <1>2, <1>3 DEF QueueKept
<1> QED
  BY <1>1, <1>4, <1>5 DEF QueueKept, q3

LEMMA ResetOps ==
  ASSUME NEW r2, NEW q \in Seq(QueuedOp)
  PROVE  QueueKept(r2, q, Reset(q)) /\ \A i \in DOMAIN Reset(q) : Reset(q)[i].status # "in_flight"
<1>1. QueueKept(r2, q, Reset(q))
  BY QueueSame, QueueMarked DEF Reset, Live
<1> DEFINE S == {i \in DOMAIN q : q[i].status = "in_flight"}
           m == Marked(q, S, "pending")
<1>2. /\ Len(m) = Len(q) /\ m \in Seq(QueuedOp)
      /\ \A i \in DOMAIN q : m[i].status = IF i \in S THEN "pending" ELSE q[i].status
  BY MarkedOps DEF Live
<1> HIDE DEF m
<1>3. \A i \in DOMAIN q : m[i].status # "in_flight"
  BY <1>2
<1>4. /\ Len(Reset(q)) = Len(q) /\ Reset(q) \in Seq(QueuedOp)
      /\ \A i \in DOMAIN q : Reset(q)[i].status # "in_flight"
  BY <1>2, <1>3 DEF Reset, m
<1>5. DOMAIN Reset(q) = DOMAIN q
  BY <1>4
<1> QED
  BY <1>1, <1>4, <1>5

LEMMA AnsweredOps ==
  ASSUME NEW r2, NEW q \in Seq(QueuedOp), NEW q2 \in Seq(QueuedOp), QueueKept(r2, q, q2),
         NEW plan, plan.from = "answer" => plan.id \in DOMAIN q2
  PROVE  /\ QueueKept(r2, q, Answered(q2, plan))
         /\ plan.from = "answer" => Answered(q2, plan)[plan.id].status # "in_flight"
<1> DEFINE status == IF plan.step.ask THEN "conflict" ELSE "synchronized"
<1>1. status \in (Live \cup {"synchronized", "failed"}) \ {"in_flight"}
  BY DEF Live
<1>2. Answered(q2, plan) = IF plan.from = "answer" THEN Marked(q2, {plan.id}, status) ELSE q2
  BY DEF Answered
<1> HIDE DEF status
<1>3. QueueKept(r2, q, Marked(q2, {plan.id}, status))
  BY <1>1, QueueMarked
<1>4. plan.from = "answer" => Marked(q2, {plan.id}, status)[plan.id].status = status
  BY <1>1, MarkedOps
<1> QED
  BY <1>1, <1>2, <1>3, <1>4

(* The second half of a merge leaves one new operation that waits. *)
LEMMA RequeuedOps ==
  ASSUME NEW r2, NEW d \in Device, NEW e \in Entity, NEW v \in Nat, NEW r \in LocalRow,
         NEW q \in Seq(QueuedOp), r2[e] # NoRow
  PROVE  Requeued(q, d, e, v, r) \in Seq(QueuedOp) /\ QueueKept(r2, q, Requeued(q, d, e, v, r))
         /\ DOMAIN q \subseteq DOMAIN Requeued(q, d, e, v, r)
<1> DEFINE m == Marked(q, LiveOps(d, e), "synchronized")
           op == OpOf(e, "update", v, r, FALSE)
<1>1. m \in Seq(QueuedOp) /\ Len(m) = Len(q)
  BY MarkedOps
<1>2. QueueKept(r2, q, m)
  BY QueueSame, QueueMarked DEF Live
<1>3. op \in QueuedOp /\ op.ent = e /\ op.status # "in_flight"
  BY OpTyped
<1> HIDE DEF m, op
<1>4. QueueKept(r2, q, Append(m, op))
  BY <1>1, <1>2, <1>3, QueueLonger
<1>5. Append(m, op) \in Seq(QueuedOp) /\ Len(Append(m, op)) = Len(q) + 1
  BY <1>1, <1>3
<1>6. DOMAIN q \subseteq DOMAIN Append(m, op)
  BY <1>5
<1> QED
  BY <1>4, <1>5, <1>6 DEF Requeued, m, op

-----------------------------------------------------------------------------
(* A step of one device *)

(* One device's part of a variable is replaced. *)
Put(f, d, v) == [f EXCEPT ![d] = v]

LEMMA Locally ==
  ASSUME EngineInv, NEW d \in Device,
         NEW r, NEW q, NEW b, NEW c, NEW cur, NEW x, Sound(d, r, q, b, c, cur, x, feed),
         row' = Put(row, d, r), queue' = Put(queue, d, q), base' = Put(base, d, b),
         conf' = Put(conf, d, c), cursor' = Put(cursor, d, cur), eng' = Put(eng, d, x),
         feed' = feed, srv' = srv, said' \in [Entity -> Content], spent' \in Spent
  PROVE  EngineInv'
<1>1. LocalTyped(r, q, b, c, cur, x)
  BY DEF Sound
<1>2. TypeOK /\ feed' = feed /\ srv' = srv
  BY DEF EngineInv
<1>3. TypeOK'
  BY <1>1, <1>2 DEF TypeOK, LocalTyped, Put
<1>4. /\ row'[d] = r /\ queue'[d] = q /\ base'[d] = b /\ conf'[d] = c /\ cursor'[d] = cur /\ eng'[d] = x
      /\ \A d2 \in Device \ {d} :
            /\ row'[d2] = row[d2] /\ queue'[d2] = queue[d2] /\ base'[d2] = base[d2]
            /\ conf'[d2] = conf[d2] /\ cursor'[d2] = cursor[d2] /\ eng'[d2] = eng[d2]
  BY <1>2 DEF TypeOK, Put
<1>5. ASSUME NEW d2 \in Device
      PROVE  Sound(d2, row'[d2], queue'[d2], base'[d2], conf'[d2], cursor'[d2], eng'[d2], feed')
  <2>1. CASE d2 = d
    BY <1>2, <1>4, <2>1
  <2>2. CASE d2 # d
    BY <1>2, <1>4, <2>2 DEF EngineInv
  <2> QED
    BY <2>1, <2>2
<1> QED
  BY <1>3, <1>5 DEF EngineInv

LEMMA UserStep ==
  ASSUME EngineInv, NEW d \in Device, NEW r, NEW q, NEW b, NEW c,
         RowsKept(row[d], r), QueueKept(r, queue[d], q), ConfKept(r, conf[d], c),
         b \in [Entity -> Values \cup {NoBase}],
         row' = [row EXCEPT ![d] = r], queue' = [queue EXCEPT ![d] = q],
         base' = [base EXCEPT ![d] = b], conf' = [conf EXCEPT ![d] = c],
         UNCHANGED <<cursor, eng, server>>, said' \in [Entity -> Content], spent' \in Spent
  PROVE  EngineInv'
<1>1. Sound(d, row[d], queue[d], base[d], conf[d], cursor[d], eng[d], feed) /\ TypeOK
  BY DEF EngineInv
<1>2. feed \in Seq(FeedEntry)
  BY <1>1 DEF TypeOK
<1>3. Sound(d, r, q, b, c, cursor[d], eng[d], feed)
  BY <1>1, <1>2, LocalStep
<1>4. cursor' = Put(cursor, d, cursor[d]) /\ eng' = Put(eng, d, eng[d])
  BY <1>1 DEF TypeOK, Put
<1>5. /\ row' = Put(row, d, r) /\ queue' = Put(queue, d, q)
      /\ base' = Put(base, d, b) /\ conf' = Put(conf, d, c)
  BY DEF Put
<1>6. feed' = feed /\ srv' = srv
  BY DEF server
<1> QED
  BY <1>3, <1>4, <1>5, <1>6, Locally

(* The variables of one device, as values. *)
LEMMA Alike ==
  ASSUME TypeOK, NEW d \in Device
  PROVE  /\ row = [row EXCEPT ![d] = row[d]] /\ queue = [queue EXCEPT ![d] = queue[d]]
         /\ base = [base EXCEPT ![d] = base[d]] /\ conf = [conf EXCEPT ![d] = conf[d]]
         /\ cursor = [cursor EXCEPT ![d] = cursor[d]] /\ eng = [eng EXCEPT ![d] = eng[d]]
         /\ row[d] \in Rows /\ queue[d] \in Seq(QueuedOp) /\ eng[d] \in EngineState
         /\ base[d] \in [Entity -> Values \cup {NoBase}] /\ cursor[d] \in Nat
         /\ conf[d] \in [Entity -> OpenConflict \cup {NoConflict}]
BY DEF TypeOK

LEMMA ConfSame ==
  ASSUME NEW r2, NEW c \in [Entity -> OpenConflict \cup {NoConflict}]
  PROVE  /\ ConfKept(r2, c, c)
         /\ \A e \in Entity : ConfKept(r2, c, [c EXCEPT ![e] = NoConflict])
BY DEF ConfKept

LEMMA RowsSame ==
  ASSUME NEW r \in Rows
  PROVE  RowsKept(r, r)
BY DEF RowsKept

LEMMA RowWritten ==
  ASSUME NEW r \in Rows, NEW e \in Entity, NEW n \in LocalRow
  PROVE  RowsKept(r, [r EXCEPT ![e] = n]) /\ [r EXCEPT ![e] = n][e] # NoRow
         /\ [r EXCEPT ![e] = n][e] = n
<1>1. n # NoRow
  BY EngineAssumption
<1> QED
  BY <1>1 DEF RowsKept, Rows

LEMMA Spending ==
  ASSUME spent \in Spent, NEW what \in {"faults", "crashes", "torn", "choices"}, Spend(what)
  PROVE  spent' \in Spent
<1>1. CASE what = "faults"
  BY <1>1 DEF Spend, Spent
<1>2. CASE what = "crashes"
  BY <1>2 DEF Spend, Spent
<1>3. CASE what = "torn"
  BY <1>3 DEF Spend, Spent
<1>4. CASE what = "choices"
  BY <1>4 DEF Spend, Spent
<1> QED
  BY <1>1, <1>2, <1>3, <1>4

LEMMA SpendingAnEdit ==
  ASSUME spent \in Spent, spent.edits < MaxEdits, Spend("edits")
  PROVE  spent' \in Spent
<1>1. MaxEdits \in Nat /\ spent.edits + 1 \in 0..MaxEdits
  BY EngineAssumption DEF Spent
<1> QED
  BY <1>1 DEF Spend, Spent

-----------------------------------------------------------------------------
(* The user's actions *)

LEMMA BumpedRow ==
  ASSUME NEW r \in LocalRow, NEW val \in Values, NEW del \in BOOLEAN
  PROVE  Bumped(r, val, del) \in LocalRow
BY DEF Bumped, LocalRow

LEMMA CreateStep ==
  ASSUME EngineInv, NEW d \in Device, NEW e \in Entity, Create(d, e)
  PROVE  EngineInv'
<1> DEFINE n == [ver |-> 1, val |-> [f \in Field |-> 0], del |-> FALSE, st |-> "pending"]
           r == [row[d] EXCEPT ![e] = n]
           op == OpOf(e, "create", 0, n, FALSE)
           q == Append(queue[d], op)
<1>1. TypeOK /\ spent \in Spent
  BY DEF EngineInv
<1>2. n \in LocalRow
  BY EngineAssumption DEF LocalRow, Values
<1>3. op \in QueuedOp /\ op.ent = e /\ op.status = "pending"
  BY <1>2, OpTyped
<1>4. /\ row' = [row EXCEPT ![d] = r] /\ queue' = [queue EXCEPT ![d] = q]
      /\ UNCHANGED <<base, conf, cursor, eng, server, said>>
  BY <1>1 DEF Create, SetRow, Enqueue, TypeOK, Rows
<1>5. spent' \in Spent
  BY <1>1, SpendingAnEdit DEF Create, MayAct
<1> HIDE DEF n, op
<1>6. RowsKept(row[d], r) /\ r[e] # NoRow
  BY <1>1, <1>2, Alike, RowWritten
<1>7. QueueKept(r, queue[d], q)
  BY <1>1, <1>3, <1>6, Alike, QueueSame, QueueLonger
<1>8. ConfKept(r, conf[d], conf[d])
  BY <1>1, Alike, ConfSame
<1>9. said' \in [Entity -> Content]
  BY <1>1, <1>4 DEF TypeOK
<1>10. base' = [base EXCEPT ![d] = base[d]] /\ conf' = [conf EXCEPT ![d] = conf[d]]
  BY <1>1, <1>4, Alike
<1>11. base[d] \in [Entity -> Values \cup {NoBase}]
  BY <1>1, Alike
<1> HIDE DEF r, q
<1> QED
  BY <1>4, <1>5, <1>6, <1>7, <1>8, <1>9, <1>10, <1>11, UserStep

LEMMA UpdateStep ==
  ASSUME EngineInv, NEW d \in Device, NEW e \in Entity, NEW n \in LocalRow, row[d][e] # NoRow,
         Update(d, e, n), spent' \in Spent, UNCHANGED <<base, conf, cursor, eng, server>>
  PROVE  EngineInv'
<1> DEFINE r == [row[d] EXCEPT ![e] = n]
           op == OpOf(e, "update", row[d][e].ver, n, FALSE)
           q == Append(queue[d], op)
<1>1. TypeOK /\ spent \in Spent
  BY DEF EngineInv
<1>2. row[d][e] \in LocalRow /\ row[d][e].ver \in Nat
  BY <1>1 DEF TypeOK, Rows, LocalRow
<1>3. op \in QueuedOp /\ op.ent = e /\ op.status = "pending"
  BY <1>2, OpTyped
<1>4. /\ row' = [row EXCEPT ![d] = r] /\ queue' = [queue EXCEPT ![d] = q]
  BY <1>1 DEF Update, SetRow, Enqueue, TypeOK, Rows
<1> HIDE DEF op
<1>6. RowsKept(row[d], r) /\ r[e] # NoRow
  BY <1>1, <1>2, Alike, RowWritten
<1>7. QueueKept(r, queue[d], q)
  BY <1>1, <1>3, <1>6, Alike, QueueSame, QueueLonger
<1>8. ConfKept(r, conf[d], conf[d])
  BY <1>1, Alike, ConfSame
<1>9. said' \in [Entity -> Content]
  <2> DEFINE val == [f \in Field |-> IF n.val[f] # row[d][e].val[f] THEN n.val[f] ELSE said[e].val[f]]
             new == [val |-> val, del |-> said[e].del \/ n.del]
  <2>1. said[e] \in Content /\ said \in [Entity -> Content]
    BY <1>1 DEF TypeOK
  <2>2. val \in Values
    BY <2>1 DEF Content, LocalRow, Values
  <2>3. (said[e].del \/ n.del) \in BOOLEAN
    BY <2>1 DEF Content, LocalRow
  <2>4. said' = [said EXCEPT ![e] = new]
    BY DEF Update
  <2> HIDE DEF val
  <2>5. new \in Content
    BY <2>2, <2>3 DEF Content
  <2> QED
    BY <2>1, <2>4, <2>5
<1>10. base' = [base EXCEPT ![d] = base[d]] /\ conf' = [conf EXCEPT ![d] = conf[d]]
  BY <1>1, Alike
<1>11. base[d] \in [Entity -> Values \cup {NoBase}]
  BY <1>1, Alike
<1> HIDE DEF r, q
<1> QED
  BY <1>4, <1>6, <1>7, <1>8, <1>9, <1>10, <1>11, UserStep

LEMMA EditedRow ==
  ASSUME TypeOK, spent \in Spent, NEW d \in Device, NEW e \in Entity, NEW f \in Field,
         spent.edits < MaxEdits, Visible(d, e)
  PROVE  /\ Bumped(row[d][e], [row[d][e].val EXCEPT ![f] = spent.edits + 1], FALSE) \in LocalRow
         /\ spent.edits + 1 \in 0..MaxEdits /\ row[d][e] # NoRow
<1>1. row[d][e] \in LocalRow /\ row[d][e] # NoRow
  BY DEF Visible, TypeOK, Rows
<1>2. MaxEdits \in Nat /\ spent.edits + 1 \in 0..MaxEdits
  BY EngineAssumption DEF Spent
<1>3. [row[d][e].val EXCEPT ![f] = spent.edits + 1] \in Values
  BY <1>1, <1>2 DEF LocalRow, Values
<1> QED
  BY <1>1, <1>2, <1>3, BumpedRow

LEMMA EditStep ==
  ASSUME EngineInv, NEW d \in Device, NEW e \in Entity, NEW f \in Field, Edit(d, e, f)
  PROVE  EngineInv'
<1> DEFINE n == Bumped(row[d][e], [row[d][e].val EXCEPT ![f] = spent.edits + 1], FALSE)
<1>1. TypeOK /\ spent \in Spent /\ spent.edits < MaxEdits /\ Visible(d, e) /\ Update(d, e, n)
  BY DEF EngineInv, Edit, MayAct
<1>2. n \in LocalRow /\ row[d][e] # NoRow
  BY <1>1, EditedRow
<1>3. spent' \in Spent
  BY <1>1, SpendingAnEdit DEF Edit
<1>4. UNCHANGED <<base, conf, cursor, eng, server>>
  BY DEF Edit
<1> HIDE DEF n
<1> QED
  BY <1>1, <1>2, <1>3, <1>4, UpdateStep

LEMMA DeleteStep ==
  ASSUME EngineInv, NEW d \in Device, NEW e \in Entity, Delete(d, e)
  PROVE  EngineInv'
<1> DEFINE n == Bumped(row[d][e], row[d][e].val, TRUE)
<1>1. TypeOK /\ spent \in Spent /\ spent.edits < MaxEdits /\ Visible(d, e) /\ Update(d, e, n)
  BY DEF EngineInv, Delete, MayAct
<1>2. row[d][e] # NoRow /\ row[d][e] \in LocalRow /\ row[d][e].val \in Values
  BY <1>1 DEF Visible, TypeOK, Rows, LocalRow
<1>3. n \in LocalRow
  BY <1>2, BumpedRow
<1>4. spent' \in Spent
  BY <1>1, SpendingAnEdit DEF Delete
<1>5. UNCHANGED <<base, conf, cursor, eng, server>>
  BY DEF Delete
<1> HIDE DEF n
<1> QED
  BY <1>1, <1>2, <1>3, <1>4, <1>5, UpdateStep

(* The queue of a decided conflict. *)
LEMMA ClosedOps ==
  ASSUME EngineInv, NEW d \in Device, NEW e \in Entity, NEW r, NEW q \in Seq(QueuedOp),
         QueueKept(r, queue[d], q), Close(d, e, q)
  PROVE  \E q2 : /\ QueueKept(r, queue[d], q2) /\ queue' = [queue EXCEPT ![d] = q2]
                 /\ conf' = [conf EXCEPT ![d] = [conf[d] EXCEPT ![e] = NoConflict]]
<1> DEFINE alive == {i \in DOMAIN q : q[i].ent = e /\ q[i].status \in Live}
           last == {CHOOSE i \in alive : \A j \in alive : j <= i}
           q2 == IF alive = {} THEN q ELSE Marked(q, last, "synchronized")
<1>1. TypeOK
  BY DEF EngineInv
<1>2. queue' = [queue EXCEPT ![d] = q2] /\ conf' = [conf EXCEPT ![d] = [conf[d] EXCEPT ![e] = NoConflict]]
  BY <1>1 DEF Close, TypeOK
<1> HIDE DEF alive, last
<1>3. QueueKept(r, queue[d], Marked(q, last, "synchronized"))
  BY <1>1, Alike, QueueMarked DEF Live
<1>4. QueueKept(r, queue[d], q2)
  BY <1>3
<1> HIDE DEF q2
<1> QED
  BY <1>2, <1>4

LEMMA DecisionStep ==
  ASSUME EngineInv, NEW d \in Device, NEW e \in Entity, NEW r, NEW b, NEW q \in Seq(QueuedOp),
         RowsKept(row[d], r), QueueKept(r, queue[d], q), Close(d, e, q),
         b \in [Entity -> Values \cup {NoBase}],
         row' = [row EXCEPT ![d] = r], base' = [base EXCEPT ![d] = b],
         UNCHANGED <<cursor, eng, server>>, said' \in [Entity -> Content], Spend("choices")
  PROVE  EngineInv'
<1>1. PICK q2 : /\ QueueKept(r, queue[d], q2) /\ queue' = [queue EXCEPT ![d] = q2]
                /\ conf' = [conf EXCEPT ![d] = [conf[d] EXCEPT ![e] = NoConflict]]
  BY ClosedOps
<1>2. TypeOK /\ spent \in Spent
  BY DEF EngineInv
<1>3. ConfKept(r, conf[d], [conf[d] EXCEPT ![e] = NoConflict])
  BY <1>2, Alike, ConfSame
<1>4. spent' \in Spent
  BY <1>2, Spending
<1> QED
  BY <1>1, <1>3, <1>4, UserStep

(* An open conflict is about a row that is there. *)
LEMMA ConflictRow ==
  ASSUME EngineInv, NEW d \in Device, NEW e \in Entity, conf[d][e] # NoConflict
  PROVE  /\ row[d][e] \in LocalRow /\ row[d][e] # NoRow /\ conf[d][e] \in OpenConflict
         /\ conf[d][e].remote \in Content /\ conf[d][e].mine \in Content /\ conf[d][e].ver \in Nat
<1>1. TypeOK /\ HasRows(row[d], queue[d], conf[d])
  BY DEF EngineInv, Sound
<1>2. row[d][e] # NoRow
  BY <1>1 DEF HasRows
<1>3. row[d][e] \in LocalRow /\ conf[d][e] \in OpenConflict
  BY <1>1, <1>2 DEF TypeOK, Rows
<1> QED
  BY <1>2, <1>3 DEF OpenConflict

LEMMA KeepLocalStep ==
  ASSUME EngineInv, NEW d \in Device, NEW e \in Entity, KeepLocal(d, e)
  PROVE  EngineInv'
<1> DEFINE op == OpOf(e, "update", row[d][e].ver, row[d][e], TRUE)
           q == Append(queue[d], op)
<1>1. TypeOK
  BY DEF EngineInv
<1>2. row[d][e] \in LocalRow /\ row[d][e] # NoRow /\ row[d][e].ver \in Nat
  BY ConflictRow DEF KeepLocal, MayDecide, LocalRow
<1>3. op \in QueuedOp /\ op.ent = e /\ op.status = "pending"
  BY <1>2, OpTyped
<1>4. Close(d, e, q) /\ Spend("choices") /\ UNCHANGED <<cursor, eng, server>> /\ UNCHANGED <<row, base>>
  BY DEF KeepLocal
<1> HIDE DEF op
<1>5. RowsKept(row[d], row[d]) /\ QueueKept(row[d], queue[d], q) /\ q \in Seq(QueuedOp)
  BY <1>1, <1>2, <1>3, Alike, RowsSame, QueueSame, QueueLonger
<1>6. said' \in [Entity -> Content]
  <2>1. [val |-> row[d][e].val, del |-> row[d][e].del] \in Content
    BY <1>2 DEF Content, LocalRow
  <2>2. said' = [said EXCEPT ![e] = [val |-> row[d][e].val, del |-> row[d][e].del]]
    BY DEF KeepLocal
  <2> QED
    BY <1>1, <2>1, <2>2 DEF TypeOK
<1>7. row' = [row EXCEPT ![d] = row[d]] /\ base' = [base EXCEPT ![d] = base[d]]
      /\ base[d] \in [Entity -> Values \cup {NoBase}]
  BY <1>1, <1>4, Alike
<1> HIDE DEF q
<1> QED
  BY <1>4, <1>5, <1>6, <1>7, DecisionStep

LEMMA KeepRemoteStep ==
  ASSUME EngineInv, NEW d \in Device, NEW e \in Entity, KeepRemote(d, e)
  PROVE  EngineInv'
<1> DEFINE k == conf[d][e]
           n == [ver |-> k.ver, val |-> k.remote.val, del |-> k.remote.del, st |-> "synchronized"]
           r == [row[d] EXCEPT ![e] = n]
           b == [base[d] EXCEPT ![e] = k.remote.val]
<1>1. TypeOK
  BY DEF EngineInv
<1>2. k.remote \in Content /\ k.ver \in Nat
  BY ConflictRow DEF KeepRemote, MayDecide
<1>3. n \in LocalRow /\ k.remote.val \in Values
  BY <1>2 DEF LocalRow, Content
<1>4. Close(d, e, queue[d]) /\ Spend("choices") /\ UNCHANGED <<cursor, eng, server>>
  BY DEF KeepRemote
<1>5. /\ row' = [row EXCEPT ![d] = r] /\ base' = [base EXCEPT ![d] = b]
      /\ said' = [said EXCEPT ![e] = k.remote]
  BY <1>1 DEF KeepRemote, SetRow, TypeOK, Rows
<1> HIDE DEF n
<1>6. RowsKept(row[d], r)
  BY <1>1, <1>3, Alike, RowWritten
<1>7. QueueKept(r, queue[d], queue[d]) /\ queue[d] \in Seq(QueuedOp)
  BY <1>1, Alike, QueueSame
<1>8. b \in [Entity -> Values \cup {NoBase}]
  BY <1>1, <1>3, Alike
<1>9. said' \in [Entity -> Content]
  BY <1>1, <1>2, <1>5 DEF TypeOK
<1> HIDE DEF r, b
<1> QED
  BY <1>4, <1>5, <1>6, <1>7, <1>8, <1>9, DecisionStep

LEMMA MergedRow ==
  ASSUME NEW v \in Nat, NEW val \in Values, NEW del \in BOOLEAN
  PROVE  Merged(v, val, del) \in LocalRow
BY DEF Merged, LocalRow

LEMMA KeepMergedStep ==
  ASSUME EngineInv, NEW d \in Device, NEW e \in Entity, KeepMerged(d, e)
  PROVE  EngineInv'
<1> DEFINE k == conf[d][e]
           value(mine) == [f \in Field |-> IF f \in mine THEN k.mine.val[f] ELSE k.remote.val[f]]
<1>1. TypeOK
  BY DEF EngineInv
<1>2. k.remote \in Content /\ k.mine \in Content /\ k.ver \in Nat
  BY ConflictRow DEF KeepMerged, MayDecide
<1>3. PICK mine \in SUBSET Field :
        LET val == value(mine)
            n == Merged(k.ver, val, k.mine.del)
        IN  /\ SetRow(d, e, n)
            /\ base' = [base EXCEPT ![d][e] = val]
            /\ Close(d, e, Requeued(queue[d], d, e, k.ver, n))
            /\ said' = [said EXCEPT ![e] = [val |-> val, del |-> k.mine.del]]
  BY DEF KeepMerged
<1> DEFINE val == value(mine)
           n == Merged(k.ver, val, k.mine.del)
           r == [row[d] EXCEPT ![e] = n]
           b == [base[d] EXCEPT ![e] = val]
           q == Requeued(queue[d], d, e, k.ver, n)
           s == [val |-> val, del |-> k.mine.del]
<1>4. val \in Values /\ k.mine.del \in BOOLEAN
  BY <1>2 DEF Content, Values
<1>5. row' = [row EXCEPT ![d] = r] /\ base' = [base EXCEPT ![d] = b]
  BY <1>1, <1>3 DEF SetRow, TypeOK, Rows
<1>6. Close(d, e, q) /\ said' = [said EXCEPT ![e] = s]
  BY <1>3
<1> HIDE DEF val
<1>7. n \in LocalRow /\ s \in Content
  BY <1>2, <1>4, MergedRow DEF Content
<1>8. Spend("choices") /\ UNCHANGED <<cursor, eng, server>>
  BY DEF KeepMerged
<1> HIDE DEF n
<1>9. RowsKept(row[d], r) /\ r[e] # NoRow
  BY <1>1, <1>7, Alike, RowWritten
<1>10. QueueKept(r, queue[d], q) /\ q \in Seq(QueuedOp)
  BY <1>1, <1>2, <1>7, <1>9, Alike, RequeuedOps
<1>11. b \in [Entity -> Values \cup {NoBase}]
  BY <1>1, <1>4, Alike
<1>12. said' \in [Entity -> Content]
  BY <1>1, <1>6, <1>7 DEF TypeOK
<1> HIDE DEF r, b, q
<1> QED
  BY <1>5, <1>6, <1>8, <1>9, <1>10, <1>11, <1>12, DecisionStep

-----------------------------------------------------------------------------
(* Crashes *)

LEMMA RestartStep ==
  ASSUME EngineInv, NEW d \in Device, NEW r, RowsKept(row[d], r),
         row' = [row EXCEPT ![d] = r], queue' = [queue EXCEPT ![d] = Reset(queue[d])], Restart(d),
         UNCHANGED <<base, conf, cursor, server>>, said' \in [Entity -> Content], spent' \in Spent
  PROVE  EngineInv'
<1> DEFINE q == Reset(queue[d])
<1>1. TypeOK /\ Sound(d, row[d], queue[d], base[d], conf[d], cursor[d], eng[d], feed)
  BY DEF EngineInv
<1>2. feed \in Seq(FeedEntry)
  BY <1>1 DEF TypeOK
<1>3. QueueKept(r, queue[d], q) /\ \A i \in DOMAIN q : q[i].status # "in_flight"
  BY <1>1, Alike, ResetOps
<1>4. ConfKept(r, conf[d], conf[d])
  BY <1>1, Alike, ConfSame
<1> HIDE DEF q
<1>5. Sound(d, r, q, base[d], conf[d], cursor[d], eng[d], feed)
  BY <1>1, <1>2, <1>3, <1>4, Alike, LocalStep
<1>6. Sound(d, r, q, base[d], conf[d], cursor[d], IdleEngine, feed)
  BY <1>2, <1>3, <1>5, Resting
<1>7. /\ row' = Put(row, d, r) /\ queue' = Put(queue, d, q) /\ eng' = Put(eng, d, IdleEngine)
      /\ base' = Put(base, d, base[d]) /\ conf' = Put(conf, d, conf[d])
      /\ cursor' = Put(cursor, d, cursor[d]) /\ feed' = feed /\ srv' = srv
  BY <1>1, Alike DEF Restart, q, Put, server
<1> QED
  BY <1>6, <1>7, Locally

LEMMA CrashStep ==
  ASSUME EngineInv, NEW d \in Device, Crash(d)
  PROVE  EngineInv'
<1>1. TypeOK /\ spent \in Spent
  BY DEF EngineInv
<1>2. spent' \in Spent
  BY <1>1, Spending DEF Crash
<1>3. row' = [row EXCEPT ![d] = row[d]] /\ said' \in [Entity -> Content]
  BY <1>1, Alike DEF Crash, TypeOK
<1>4. RowsKept(row[d], row[d])
  BY <1>1, Alike, RowsSame
<1>5. queue' = [queue EXCEPT ![d] = Reset(queue[d])] /\ Restart(d)
      /\ UNCHANGED <<base, conf, cursor, server>>
  BY DEF Crash
<1> QED
  BY <1>2, <1>3, <1>4, <1>5, RestartStep

LEMMA CrashInEditStep ==
  ASSUME EngineInv, NEW d \in Device, NEW e \in Entity, NEW f \in Field, CrashInEdit(d, e, f)
  PROVE  EngineInv'
<1> DEFINE n == Bumped(row[d][e], [row[d][e].val EXCEPT ![f] = spent.edits + 1], FALSE)
           r == [row[d] EXCEPT ![e] = n]
<1>1. TypeOK /\ spent \in Spent /\ spent.edits < MaxEdits /\ Visible(d, e)
  BY DEF EngineInv, CrashInEdit, MayAct
<1>2. n \in LocalRow /\ spent.edits + 1 \in 0..MaxEdits
  BY <1>1, EditedRow
<1>3. spent' \in Spent
  <2>1. spent.torn + 1 \in Nat
    BY <1>1 DEF Spent
  <2>2. spent' = [spent EXCEPT !.edits = spent.edits + 1, !.torn = spent.torn + 1]
    BY DEF CrashInEdit
  <2> QED
    BY <1>1, <1>2, <2>1, <2>2 DEF Spent
<1>4. row' = [row EXCEPT ![d] = r] /\ said' = [said EXCEPT ![e].val[f] = n.val[f]]
  BY <1>1 DEF CrashInEdit, SetRow, TypeOK, Rows
<1>5. queue' = [queue EXCEPT ![d] = Reset(queue[d])] /\ Restart(d)
      /\ UNCHANGED <<base, conf, cursor, server>>
  BY DEF CrashInEdit
<1> HIDE DEF n
<1>6. RowsKept(row[d], r)
  BY <1>1, <1>2, Alike, RowWritten
<1>7. said' \in [Entity -> Content]
  <2>1. n.val[f] \in 0..MaxEdits /\ said[e] \in Content
    BY <1>1, <1>2 DEF LocalRow, Values, TypeOK
  <2>2. [said[e] EXCEPT !.val = [said[e].val EXCEPT ![f] = n.val[f]]] \in Content
    BY <2>1 DEF Content, Values
  <2>3. said' = [said EXCEPT ![e] = [said[e] EXCEPT !.val = [said[e].val EXCEPT ![f] = n.val[f]]]]
    BY <1>4
  <2> QED
    BY <1>1, <2>2, <2>3 DEF TypeOK
<1> HIDE DEF r
<1> QED
  BY <1>3, <1>4, <1>5, <1>6, <1>7, RestartStep

-----------------------------------------------------------------------------
(* The engine goes from one place to the next *)

(* Between two cycles and before a pull nothing is in flight. *)
LEMMA NothingInFlight ==
  ASSUME NEW d, NEW r, NEW q, NEW b, NEW c, NEW cur, NEW x, NEW fd,
         Sound(d, r, q, b, c, cur, x, fd), x.acks = <<>>, x.pc # "push"
  PROVE  \A i \in DOMAIN q : q[i].status # "in_flight"
BY DEF Sound, Awaited

LEMMA NotAnswering ==
  ASSUME NEW x, x.pc \in {"idle", "push", "pull", "apply"}
  PROVE  ~Answering(x) /\ ~Deciding(x)
BY DEF Answering, Deciding

(* The push is over: the engine goes on to the pull, or rests. *)
LEMMA Leaving ==
  ASSUME NEW d, NEW r, NEW q, NEW b, NEW c, NEW cur, NEW x, NEW fd, fd \in Seq(FeedEntry),
         Sound(d, r, q, b, c, cur, x, fd), \A i \in DOMAIN q : q[i].status # "in_flight",
         NEW y \in EngineState, y.pc \in {"pull", "idle"}, y.acks = <<>>,
         \A k \in DOMAIN y.batch : y.batch[k] \in DOMAIN q,
         y.next <= Len(fd), y.changes \subseteq DOMAIN fd
  PROVE  Sound(d, r, q, b, c, cur, Settled(y), fd)
<1>1. CASE y.pc = "idle"
  <2>1. Settled(y) = IdleEngine
    BY <1>1 DEF Settled
  <2> QED
    BY <2>1, Resting
<1>2. CASE y.pc = "pull"
  <2>1. Settled(y) = y
    BY <1>2 DEF Settled
  <2>2. ~Answering(y) /\ ~Deciding(y) /\ ~Applying(y) /\ y.pc # "push"
    BY <1>2 DEF Answering, Deciding, Applying
  <2>3. LocalTyped(r, q, b, c, cur, y)
    BY DEF Sound, LocalTyped
  <2>4. BatchSound(q, y) /\ Awaited(q, y) /\ PlanSound(r, y, fd)
    BY <2>2 DEF BatchSound, Awaited, PlanSound
  <2>5. CursorSound(d, r, cur, y, fd)
    BY <2>2 DEF Sound, CursorSound
  <2> QED
    BY <2>1, <2>3, <2>4, <2>5 DEF Sound
<1> QED
  BY <1>1, <1>2

(* A push begins, or nothing is to be pushed. *)
Sent(q) == Marked(q, {Batch(q)[i] : i \in DOMAIN Batch(q)}, "in_flight")

Started(x, q, pass) ==
    [x EXCEPT !.pass = pass, !.batch = Batch(q), !.changes = {},
              !.pc = IF Batch(q) = <<>> THEN AfterPush(pass) ELSE "push"]

LEMMA Starting ==
  ASSUME NEW d, NEW r, NEW q, NEW b, NEW c, NEW cur, NEW x, NEW fd, fd \in Seq(FeedEntry),
         Sound(d, r, q, b, c, cur, x, fd), \A i \in DOMAIN q : q[i].status # "in_flight",
         x.acks = <<>>, NEW pass \in {1, 2}
  PROVE  Sound(d, r, Sent(q), b, c, cur, Settled(Started(x, q, pass)), fd)
<1> DEFINE batch == Batch(q)
           sent == {batch[i] : i \in DOMAIN batch}
           m == Marked(q, sent, "in_flight")
           y == [x EXCEPT !.pass = pass, !.batch = batch, !.changes = {},
                          !.pc = IF batch = <<>> THEN AfterPush(pass) ELSE "push"]
<1>1. q \in Seq(QueuedOp) /\ x \in EngineState /\ Len(fd) \in Nat /\ x.next <= Len(fd)
  BY DEF Sound, LocalTyped, CursorSound
<1>2. batch \in Seq(Nat) /\ \A k \in DOMAIN batch : batch[k] \in Waiting(q)
  BY <1>1, BatchIsWaiting
<1>3. /\ m \in Seq(QueuedOp) /\ Len(m) = Len(q)
      /\ \A i \in DOMAIN q : /\ m[i].ent = q[i].ent /\ m[i].attempts = q[i].attempts
                             /\ m[i].status = IF i \in sent THEN "in_flight" ELSE q[i].status
  BY <1>1, MarkedOps DEF Live
<1>4. DOMAIN m = DOMAIN q
  BY <1>1, <1>3
<1>5. AfterPush(pass) \in {"pull", "idle"}
  BY DEF AfterPush
<1>6. /\ y.batch = batch /\ y.changes = {} /\ y.acks = <<>> /\ y.next = x.next
      /\ y.pc = IF batch = <<>> THEN AfterPush(pass) ELSE "push"
      /\ y \in EngineState
  BY <1>1, <1>2, <1>5 DEF EngineState
<1>7. \A k \in DOMAIN batch : batch[k] \in DOMAIN q /\ q[batch[k]].attempts < MAX_ATTEMPTS
  BY <1>2 DEF Waiting
<1> HIDE DEF batch, m, y
<1>8. LocalTyped(r, m, b, c, cur, x) /\ HasRows(r, m, c)
  BY <1>3, <1>4 DEF Sound, LocalTyped, HasRows
<1>9. CASE batch = <<>>
  <2>1. \A i \in DOMAIN m : m[i].status # "in_flight"
    BY <1>3, <1>4, <1>9
  <2>2. BatchSound(m, x) /\ Awaited(m, x)
    BY <1>3, <1>4, <2>1 DEF Sound, BatchSound, Awaited
  <2>3. Sound(d, r, m, b, c, cur, x, fd)
    BY <1>8, <2>2 DEF Sound
  <2>4. \A k \in DOMAIN y.batch : y.batch[k] \in DOMAIN m
    BY <1>4, <1>6, <1>7
  <2>5. Sound(d, r, m, b, c, cur, Settled(y), fd)
    BY <1>1, <1>5, <1>6, <1>9, <2>1, <2>3, <2>4, Leaving
  <2> QED
    BY <2>5 DEF m, y, batch, Sent, Started
<1>10. CASE batch # <<>>
  <2>1. y.pc = "push" /\ Settled(y) = y
    BY <1>6, <1>10 DEF Settled
  <2>2. ~Answering(y) /\ ~Deciding(y) /\ ~Applying(y)
    BY <2>1 DEF Answering, Deciding, Applying
  <2>3. LocalTyped(r, m, b, c, cur, y)
    BY <1>6, <1>8 DEF LocalTyped
  <2>4. BatchSound(m, y)
    BY <1>3, <1>4, <1>6, <1>7, <2>2 DEF BatchSound
  <2>5. Awaited(m, y)
    BY <1>3, <1>4, <1>6, <2>1 DEF Awaited
  <2>6. PlanSound(r, y, fd)
    BY <2>2 DEF PlanSound
  <2>7. CursorSound(d, r, cur, y, fd)
    BY <1>6, <2>2 DEF Sound, CursorSound
  <2>8. Sound(d, r, m, b, c, cur, Settled(y), fd)
    BY <1>8, <2>1, <2>3, <2>4, <2>5, <2>6, <2>7 DEF Sound
  <2> QED
    BY <2>8 DEF m, y, batch, Sent, Started
<1> QED
  BY <1>9, <1>10

(* The next ack, after the first one was dealt with. *)
LEMMA AckDone ==
  ASSUME NEW d, NEW r, NEW q, NEW b, NEW c, NEW cur, NEW x, NEW fd,
         Sound(d, r, q, b, c, cur, x, fd), x.pc = "answer", x.acks # <<>>,
         q[Head(x.acks).id].status # "in_flight"
  PROVE  Sound(d, r, q, b, c, cur, [x EXCEPT !.acks = Tail(x.acks)], fd)
<1> DEFINE y == [x EXCEPT !.acks = Tail(x.acks)]
<1>1. x \in EngineState /\ x.acks \in Seq(Ack)
  BY DEF Sound, LocalTyped, EngineState
<1>2. Tail(x.acks) \in Seq(Ack)
  BY <1>1
<1>3. /\ y \in EngineState /\ y.pc = "answer" /\ y.batch = x.batch /\ y.next = x.next
      /\ y.changes = x.changes /\ y.acks = Tail(x.acks)
  BY <1>1, <1>2 DEF EngineState
<1>4. /\ \A k \in DOMAIN y.acks : k + 1 \in DOMAIN x.acks /\ y.acks[k] = x.acks[k + 1]
      /\ \A k \in DOMAIN x.acks : \/ x.acks[k] = Head(x.acks)
                                  \/ (k - 1 \in DOMAIN y.acks /\ y.acks[k - 1] = x.acks[k])
  BY <1>1, <1>3
<1> HIDE DEF y
<1>5. Answering(x) /\ Answering(y) /\ ~Deciding(y) /\ ~Applying(y) /\ y.pc # "push" /\ x.pc # "push"
  BY <1>3 DEF Answering, Deciding, Applying
<1>6. BatchSound(q, y)
  <2>1. ASSUME NEW k \in DOMAIN y.acks PROVE \E j \in DOMAIN y.batch : y.batch[j] = y.acks[k].id
    <3>1. PICK m \in DOMAIN x.acks : y.acks[k] = x.acks[m]
      BY <1>4
    <3> QED
      BY <1>3, <3>1 DEF Sound, BatchSound
  <2> QED
    BY <1>3, <1>5, <2>1 DEF Sound, BatchSound
<1>7. Awaited(q, y)
  <2> SUFFICES ASSUME NEW i \in DOMAIN q, q[i].status = "in_flight"
               PROVE  \E k \in DOMAIN y.acks : y.acks[k].id = i
    BY DEF Awaited
  <2>1. PICK k \in DOMAIN x.acks : x.acks[k].id = i
    BY <1>5 DEF Sound, Awaited
  <2>2. x.acks[k] # Head(x.acks)
    BY <2>1
  <2> QED
    BY <1>4, <2>1, <2>2
<1>8. LocalTyped(r, q, b, c, cur, y)
  BY <1>3 DEF Sound, LocalTyped
<1>9. CursorSound(d, r, cur, y, fd)
  BY <1>3, <1>5 DEF Sound, CursorSound
<1>10. Sound(d, r, q, b, c, cur, y, fd)
  BY <1>5, <1>6, <1>7, <1>8, <1>9 DEF Sound, PlanSound
<1> QED
  BY <1>10 DEF y

(* A decision is made. *)
LEMMA Decided ==
  ASSUME NEW d, NEW r, NEW q, NEW b, NEW c, NEW cur, NEW x, NEW fd,
         Sound(d, r, q, b, c, cur, x, fd), x.pc \in {"answer", "apply"},
         NEW plan \in PlanOf, plan.from = x.pc,
         x.pc = "answer" => plan.step.do # "insert" /\ x.acks # <<>> /\ Head(x.acks).id = plan.id,
         x.pc = "apply" => x.changes # {} /\ fd[Earliest(x.changes)].ent = plan.ent,
         plan.step.do # "insert" => r[plan.ent] # NoRow
  PROVE  Sound(d, r, q, b, c, cur, [x EXCEPT !.pc = "decided", !.plan = plan], fd)
<1> DEFINE y == [x EXCEPT !.pc = "decided", !.plan = plan]
<1>1. x \in EngineState
  BY DEF Sound, LocalTyped
<1>2. /\ y \in EngineState /\ y.pc = "decided" /\ y.plan = plan /\ y.batch = x.batch
      /\ y.acks = x.acks /\ y.next = x.next /\ y.changes = x.changes
  BY <1>1 DEF EngineState
<1> HIDE DEF y
<1>3. /\ Answering(y) <=> Answering(x)
      /\ Applying(y) <=> Applying(x)
      /\ y.pc # "push" /\ x.pc # "push" /\ y.pc # "requeue"
  BY <1>2 DEF Answering, Applying, Deciding
<1>4. LocalTyped(r, q, b, c, cur, y)
  BY <1>2 DEF Sound, LocalTyped
<1>5. BatchSound(q, y)
  BY <1>2, <1>3 DEF Sound, BatchSound
<1>6. Awaited(q, y)
  BY <1>2, <1>3 DEF Sound, Awaited
<1>7. PlanSound(r, y, fd)
  BY <1>2, <1>3 DEF PlanSound
<1>8. CursorSound(d, r, cur, y, fd)
  BY <1>2, <1>3 DEF Sound, CursorSound
<1> QED
  BY <1>4, <1>5, <1>6, <1>7, <1>8 DEF Sound, y

-----------------------------------------------------------------------------
(* The engine's actions: the push *)

(* What every step of a device starts from. *)
LEMMA Here ==
  ASSUME EngineInv, NEW d \in Device
  PROVE  /\ TypeOK /\ spent \in Spent /\ feed \in Seq(FeedEntry) /\ said \in [Entity -> Content]
         /\ Sound(d, row[d], queue[d], base[d], conf[d], cursor[d], eng[d], feed)
         /\ row[d] \in Rows /\ queue[d] \in Seq(QueuedOp) /\ eng[d] \in EngineState
         /\ base[d] \in [Entity -> Values \cup {NoBase}] /\ cursor[d] \in Nat
         /\ conf[d] \in [Entity -> OpenConflict \cup {NoConflict}]
         /\ row = Put(row, d, row[d]) /\ queue = Put(queue, d, queue[d])
         /\ base = Put(base, d, base[d]) /\ conf = Put(conf, d, conf[d])
         /\ cursor = Put(cursor, d, cursor[d]) /\ eng = Put(eng, d, eng[d])
BY DEF EngineInv, TypeOK, Put

(* A step that changes the engine alone. *)
LEMMA EngineOnly ==
  ASSUME EngineInv, NEW d \in Device, NEW x,
         Sound(d, row[d], queue[d], base[d], conf[d], cursor[d], x, feed),
         eng' = Put(eng, d, x), UNCHANGED <<local, server, said>>, spent' \in Spent
  PROVE  EngineInv'
<1>1. /\ row' = Put(row, d, row[d]) /\ queue' = Put(queue, d, queue[d])
      /\ base' = Put(base, d, base[d]) /\ conf' = Put(conf, d, conf[d])
      /\ cursor' = Put(cursor, d, cursor[d]) /\ feed' = feed /\ srv' = srv /\ said' = said
  BY Here DEF local, server
<1>2. said' \in [Entity -> Content]
  BY <1>1, Here
<1> QED
  BY <1>1, <1>2, Locally

LEMMA StartCycleStep ==
  ASSUME EngineInv, NEW d \in Device, StartCycle(d)
  PROVE  EngineInv'
<1> DEFINE q == Sent(queue[d])
           y == Started(IdleEngine, queue[d], 1)
<1>1. eng[d].pc = "idle" /\ UNCHANGED <<row, base, conf, cursor, server, spent, said>>
  BY DEF StartCycle
<1>2. eng[d].acks = <<>>
  BY <1>1, Here, NotAnswering DEF Sound, BatchSound
<1>3. \A i \in DOMAIN queue[d] : queue[d][i].status # "in_flight"
  BY <1>1, <1>2, Here, NothingInFlight
<1>4. Sound(d, row[d], queue[d], base[d], conf[d], cursor[d], IdleEngine, feed)
  BY <1>3, Here, Resting
<1>5. IdleEngine.acks = <<>>
  BY DEF IdleEngine
<1>6. Sound(d, row[d], q, base[d], conf[d], cursor[d], Settled(y), feed)
  BY <1>3, <1>4, <1>5, Here, Starting
<1>7. eng' = Put(eng, d, Settled(y)) /\ queue' = Put(queue, d, q)
  BY DEF StartCycle, StartPush, Put, Sent, Started
<1> HIDE DEF y, q
<1>8. /\ row' = Put(row, d, row[d]) /\ base' = Put(base, d, base[d]) /\ conf' = Put(conf, d, conf[d])
      /\ cursor' = Put(cursor, d, cursor[d]) /\ feed' = feed /\ srv' = srv
      /\ said' \in [Entity -> Content] /\ spent' \in Spent
  BY <1>1, Here DEF server
<1> QED
  BY <1>6, <1>7, <1>8, Locally

(* A failed attempt leaves nothing in flight. *)
LEMMA FailedOps ==
  ASSUME NEW q \in Seq(QueuedOp), NEW sent,
         \A i \in sent : i \in DOMAIN q /\ q[i].attempts < MAX_ATTEMPTS,
         \A i \in DOMAIN q : q[i].status = "in_flight" => i \in sent
  PROVE  LET q2 == [i \in DOMAIN q |-> IF i \in sent THEN FailedAttempt(q[i]) ELSE q[i]]
         IN  /\ q2 \in Seq(QueuedOp) /\ Len(q2) = Len(q)
             /\ \A i \in DOMAIN q : q2[i].ent = q[i].ent /\ q2[i].status # "in_flight"
<1> DEFINE q2 == [i \in DOMAIN q |-> IF i \in sent THEN FailedAttempt(q[i]) ELSE q[i]]
<1>1. DOMAIN q = 1..Len(q) /\ Len(q) \in Nat /\ \A i \in 1..Len(q) : q[i] \in QueuedOp
  OBVIOUS
<1>2. ASSUME NEW i \in 1..Len(q)
      PROVE  q2[i] \in QueuedOp /\ q2[i].ent = q[i].ent /\ q2[i].status # "in_flight"
  <2>1. q[i] \in QueuedOp /\ MAX_ATTEMPTS \in Nat
    BY <1>1, EngineAssumption
  <2>2. CASE i \in sent
    <3> DEFINE n == q[i].attempts + 1
               s == IF n >= MAX_ATTEMPTS THEN "failed" ELSE "pending"
    <3>1. n \in 0..MAX_ATTEMPTS
      <4>1. q[i].attempts \in 0..MAX_ATTEMPTS
        BY <2>1 DEF QueuedOp
      <4>2. q[i].attempts < MAX_ATTEMPTS
        BY <2>2
      <4> QED
        BY <2>1, <4>1, <4>2
    <3>2. s \in Live \cup {"synchronized", "failed"} /\ s # "in_flight"
      BY DEF Live
    <3>3. q2[i] = [q[i] EXCEPT !.attempts = n, !.status = s]
      BY <1>1, <2>2 DEF FailedAttempt
    <3> HIDE DEF q2, n, s
    <3>4. [q[i] EXCEPT !.attempts = n, !.status = s] \in QueuedOp
      BY <2>1, <3>1, <3>2 DEF QueuedOp
    <3>5. q2[i].ent = q[i].ent /\ q2[i].status = s
      BY <2>1, <3>3 DEF QueuedOp
    <3> QED
      BY <3>2, <3>3, <3>4, <3>5
  <2>3. CASE i \notin sent
    BY <1>1, <2>1, <2>3
  <2> QED
    BY <2>2, <2>3
<1>3. q2 = [i \in 1..Len(q) |-> q2[i]]
  BY <1>1
<1> HIDE DEF q2
<1>4. q2 \in [1..Len(q) -> QueuedOp]
  BY <1>2, <1>3
<1>5. q2 \in Seq(QueuedOp) /\ Len(q2) = Len(q)
  BY <1>1, <1>4
<1> QED
  BY <1>1, <1>2, <1>5 DEF q2

LEMMA PushFailsStep ==
  ASSUME EngineInv, NEW d \in Device, PushFails(d)
  PROVE  EngineInv'
<1> DEFINE x == eng[d]
           sent == {x.batch[i] : i \in DOMAIN x.batch}
           q == [i \in DOMAIN queue[d] |-> IF i \in sent THEN FailedAttempt(queue[d][i])
                                           ELSE queue[d][i]]
           y == [x EXCEPT !.pc = AfterPush(x.pass), !.acks = <<>>, !.offline = TRUE]
<1>1. /\ x.pc \in {"push", "answer"}
      /\ queue' = Put(queue, d, q) /\ eng' = Put(eng, d, Settled(y)) /\ Spend("faults")
      /\ UNCHANGED <<row, base, conf, cursor, server, said>>
  BY DEF PushFails, Put
<1>2. x \in EngineState /\ queue[d] \in Seq(QueuedOp) /\ feed \in Seq(FeedEntry) /\ row[d] \in Rows
      /\ Sound(d, row[d], queue[d], base[d], conf[d], cursor[d], x, feed)
  BY Here
<1>3. \A i \in sent : i \in DOMAIN queue[d] /\ queue[d][i].attempts < MAX_ATTEMPTS
  BY <1>1, <1>2 DEF Sound, BatchSound, Answering
<1>4. \A i \in DOMAIN queue[d] : queue[d][i].status = "in_flight" => i \in sent
  BY <1>2 DEF Sound, Awaited, BatchSound
<1> HIDE DEF sent
<1>5. /\ q \in Seq(QueuedOp) /\ Len(q) = Len(queue[d])
      /\ \A i \in DOMAIN queue[d] : q[i].ent = queue[d][i].ent /\ q[i].status # "in_flight"
  BY <1>2, <1>3, <1>4, FailedOps
<1>6. DOMAIN q = DOMAIN queue[d]
  OBVIOUS
<1>7. AfterPush(x.pass) \in {"pull", "idle"}
  BY DEF AfterPush
<1>8. /\ y \in EngineState /\ y.pc = AfterPush(x.pass) /\ y.acks = <<>> /\ y.batch = x.batch
      /\ y.next = x.next /\ y.changes = x.changes
  <2>1. <<>> \in Seq(Ack)
    OBVIOUS
  <2> QED
    BY <1>2, <1>7, <2>1 DEF EngineState
<1> HIDE DEF q, y
<1>9. /\ IdleEngine \in EngineState /\ IdleEngine.pc = "idle" /\ IdleEngine.acks = <<>>
      /\ IdleEngine.batch = <<>> /\ IdleEngine.changes = {} /\ IdleEngine.next = 0
  BY DEF IdleEngine, EngineState
<1>10. Sound(d, row[d], q, base[d], conf[d], cursor[d], IdleEngine, feed)
  <2>1. LocalTyped(row[d], q, base[d], conf[d], cursor[d], IdleEngine)
    BY <1>2, <1>5, <1>9 DEF Sound, LocalTyped
  <2>2. HasRows(row[d], q, conf[d])
    BY <1>2, <1>5, <1>6 DEF Sound, HasRows
  <2>3. ~Answering(IdleEngine) /\ ~Deciding(IdleEngine) /\ ~Applying(IdleEngine) /\ IdleEngine.pc # "push"
    BY <1>9 DEF Answering, Deciding, Applying
  <2>4. BatchSound(q, IdleEngine) /\ PlanSound(row[d], IdleEngine, feed)
    BY <1>9, <2>3 DEF BatchSound, PlanSound
  <2>5. Awaited(q, IdleEngine)
    BY <1>5, <1>6 DEF Awaited
  <2>6. CursorSound(d, row[d], cursor[d], IdleEngine, feed)
    <3>1. Len(feed) \in Nat
      BY <1>2
    <3> QED
      BY <1>2, <1>9, <2>3, <3>1 DEF Sound, CursorSound
  <2> QED
    BY <2>1, <2>2, <2>4, <2>5, <2>6 DEF Sound
<1>11. \A k \in DOMAIN y.batch : y.batch[k] \in DOMAIN q
  BY <1>2, <1>6, <1>8 DEF Sound, BatchSound
<1>12. y.next <= Len(feed) /\ y.changes \subseteq DOMAIN feed
  BY <1>2, <1>8 DEF Sound, CursorSound
<1>13. Sound(d, row[d], q, base[d], conf[d], cursor[d], Settled(y), feed)
  BY <1>2, <1>5, <1>6, <1>7, <1>8, <1>10, <1>11, <1>12, Leaving
<1>14. /\ row' = Put(row, d, row[d]) /\ base' = Put(base, d, base[d]) /\ conf' = Put(conf, d, conf[d])
       /\ cursor' = Put(cursor, d, cursor[d]) /\ feed' = feed /\ srv' = srv
       /\ said' \in [Entity -> Content]
  BY <1>1, Here DEF server
<1>15. spent' \in Spent
  BY <1>1, Here, Spending
<1> QED
  BY <1>1, <1>13, <1>14, <1>15, Locally

(* The first ack answers an operation of the queue, about a row that is    *)
(* there.                                                                  *)
LEMMA FirstAck ==
  ASSUME EngineInv, NEW d \in Device, eng[d].pc = "answer", eng[d].acks # <<>>
  PROVE  LET ack == Head(eng[d].acks)
             e   == queue[d][ack.id].ent
         IN  /\ ack \in Ack /\ ack.id \in DOMAIN queue[d] /\ e \in Entity
             /\ row[d][e] \in LocalRow /\ row[d][e] # NoRow
<1> DEFINE ack == Head(eng[d].acks)
           e   == queue[d][ack.id].ent
<1>1. eng[d] \in EngineState /\ eng[d].acks \in Seq(Ack)
  BY Here DEF EngineState
<1>2. ack \in Ack /\ 1 \in DOMAIN eng[d].acks /\ ack = eng[d].acks[1]
  BY <1>1
<1>3. ack.id \in DOMAIN queue[d]
  BY <1>2, Here DEF Sound, BatchSound
<1>4. queue[d][ack.id] \in QueuedOp
  BY <1>3, Here
<1>5. e \in Entity
  BY <1>4 DEF QueuedOp
<1>6. row[d][e] # NoRow
  BY <1>3, Here DEF Sound, HasRows
<1>7. row[d][e] \in LocalRow
  BY <1>5, <1>6, Here DEF Rows
<1> QED
  BY <1>2, <1>3, <1>5, <1>6, <1>7

LEMMA AckAppliedStep ==
  ASSUME EngineInv, NEW d \in Device, AckApplied(d)
  PROVE  EngineInv'
<1> DEFINE x == eng[d]
           ack == Head(x.acks)
           e == queue[d][ack.id].ent
           q == Marked(queue[d], {ack.id}, "synchronized")
           n == [row[d][e] EXCEPT !.ver = ack.ver, !.st = "synchronized"]
           r == [row[d] EXCEPT ![e] = n]
           y == [x EXCEPT !.acks = Tail(x.acks)]
<1>1. x.pc = "answer" /\ x.acks # <<>> /\ UNCHANGED <<base, conf, cursor, server, spent, said>>
  BY DEF AckApplied
<1>2. ack \in Ack /\ ack.id \in DOMAIN queue[d] /\ e \in Entity /\ row[d][e] \in LocalRow
  BY <1>1, FirstAck
<1>3. queue' = Put(queue, d, q) /\ eng' = Put(eng, d, y)
  BY DEF AckApplied, Put
<1>4. row' = Put(row, d, r)
  BY Here DEF AckApplied, SetRow, Put, Rows, TypeOK
<1>5. n \in LocalRow
  BY <1>2 DEF LocalRow, Ack
<1> HIDE DEF n, y
<1>6. RowsKept(row[d], r)
  BY <1>2, <1>5, Here, RowWritten
<1>7. QueueKept(r, queue[d], q)
  BY Here, QueueSame, QueueMarked DEF Live
<1>8. q[ack.id].status # "in_flight"
  BY <1>2, Here, MarkedOps DEF Live
<1> HIDE DEF r, q
<1>9. ConfKept(r, conf[d], conf[d])
  BY Here, ConfSame
<1>10. Sound(d, r, q, base[d], conf[d], cursor[d], x, feed)
  BY <1>6, <1>7, <1>9, Here, LocalStep
<1>11. Sound(d, r, q, base[d], conf[d], cursor[d], y, feed)
  BY <1>1, <1>8, <1>10, AckDone DEF y
<1>12. /\ base' = Put(base, d, base[d]) /\ conf' = Put(conf, d, conf[d])
       /\ cursor' = Put(cursor, d, cursor[d]) /\ feed' = feed /\ srv' = srv
       /\ said' \in [Entity -> Content] /\ spent' \in Spent
  BY <1>1, Here DEF server
<1> QED
  BY <1>3, <1>4, <1>11, <1>12, Locally

(* What resolveWithRemote decides about two rows that are there. *)
LEMMA VerdictTyped ==
  ASSUME TypeOK, NEW d \in Device, NEW e \in Entity, row[d][e] # NoRow,
         NEW remote \in ServerRow \cup FeedEntry, NEW step \in Verdict(d, e, remote)
  PROVE  step \in Step /\ step.do # "insert"
<1>1. row[d][e] \in LocalRow
  BY DEF TypeOK, Rows
<1> DEFINE mine == row[d][e]
           b == base[d][e]
           crit == e \in Critical
<1>2. mine.val \in Values /\ remote.val \in Values
  BY <1>1 DEF LocalRow, ServerRow, FeedEntry
<1>3. PICK newer \in {"local", "remote"} : step = Resolve(mine, remote, b, crit, newer)
  BY DEF Verdict
<1>4. DisjointMerge(b, mine.val, remote.val) \in Values
  BY <1>2 DEF DisjointMerge, Values
<1>5. OverlapMerge(b, mine.val, remote.val, newer) \in Values
  BY <1>2 DEF OverlapMerge, Values
<1>6. CompletionClash(b, mine.val, remote.val) \in BOOLEAN
  BY DEF CompletionClash
<1>7. crit \in BOOLEAN
  OBVIOUS
<1> HIDE DEF mine, b, crit
<1> DEFINE made(do, val, merged, ask) == [do |-> do, val |-> val, merged |-> merged, ask |-> ask]
<1>8. \/ step = made("parkDelete", mine.val, FALSE, TRUE)
      \/ step = made("remote", remote.val, FALSE, FALSE)
      \/ step = made("merge", DisjointMerge(b, mine.val, remote.val), TRUE, FALSE)
      \/ step = made("park", mine.val, FALSE, crit)
      \/ step = made("merge", OverlapMerge(b, mine.val, remote.val, newer),
                     CompletionClash(b, mine.val, remote.val), FALSE)
  BY <1>3 DEF Resolve
<1>9. ASSUME NEW do \in {"remote", "merge", "park", "parkDelete"}, NEW val \in Values,
             NEW merged \in BOOLEAN, NEW ask \in BOOLEAN
      PROVE  made(do, val, merged, ask) \in Step /\ made(do, val, merged, ask).do # "insert"
  BY DEF Step
<1> HIDE DEF made
<1>10. mine.val \in Values
  BY <1>2 DEF mine
<1> QED
  BY <1>2, <1>4, <1>5, <1>6, <1>7, <1>8, <1>9, <1>10

LEMMA AckConflictStep ==
  ASSUME EngineInv, NEW d \in Device, AckConflict(d)
  PROVE  EngineInv'
<1> DEFINE x == eng[d]
           ack == Head(x.acks)
           e == queue[d][ack.id].ent
<1>1. x.pc = "answer" /\ x.acks # <<>> /\ UNCHANGED <<local, server, spent, said>>
      /\ ack.status = "conflict"
  BY DEF AckConflict
<1>2. ack \in Ack /\ ack.id \in DOMAIN queue[d] /\ e \in Entity /\ row[d][e] # NoRow
  BY <1>1, FirstAck
<1>3. ack.remote \in ServerRow /\ ack.ver \in Nat /\ ack.id \in Nat
  BY <1>1, <1>2 DEF Ack
<1>4. PICK step \in Verdict(d, e, ack.remote) :
         Decide(d, Plan("answer", ack.id, e, ack.remote, ack.ver, step, TRUE))
  BY DEF AckConflict
<1>5. step \in Step /\ step.do # "insert"
  BY <1>2, <1>3, Here, VerdictTyped
<1> DEFINE plan == Plan("answer", ack.id, e, ack.remote, ack.ver, step, TRUE)
<1>6. /\ plan \in PlanOf /\ plan.from = "answer" /\ plan.step = step /\ plan.id = ack.id
      /\ plan.ent = e
  BY <1>2, <1>3, <1>5 DEF Plan, PlanOf
<1>7. eng' = Put(eng, d, [x EXCEPT !.pc = "decided", !.plan = plan])
  BY <1>4, Here DEF Decide, Put, TypeOK
<1> HIDE DEF plan
<1>8. Sound(d, row[d], queue[d], base[d], conf[d], cursor[d],
            [x EXCEPT !.pc = "decided", !.plan = plan], feed)
  BY <1>1, <1>2, <1>5, <1>6, Here, Decided
<1>9. UNCHANGED <<local, server, said>> /\ spent' \in Spent
  BY <1>1, Here
<1> QED
  BY <1>7, <1>8, <1>9, EngineOnly

LEMMA EndPushStep ==
  ASSUME EngineInv, NEW d \in Device, EndPush(d)
  PROVE  EngineInv'
<1> DEFINE x == eng[d]
           y == [x EXCEPT !.pc = AfterPush(x.pass)]
<1>1. x.pc = "answer" /\ x.acks = <<>> /\ UNCHANGED <<local, server, spent, said>>
      /\ eng' = Put(eng, d, Settled(y))
  BY DEF EndPush, Put
<1>2. \A i \in DOMAIN queue[d] : queue[d][i].status # "in_flight"
  BY <1>1, Here, NothingInFlight
<1>3. AfterPush(x.pass) \in {"pull", "idle"}
  BY DEF AfterPush
<1>4. /\ y \in EngineState /\ y.pc = AfterPush(x.pass) /\ y.acks = <<>> /\ y.batch = x.batch
      /\ y.next = x.next /\ y.changes = x.changes
  BY <1>1, <1>3, Here DEF EngineState
<1> HIDE DEF y
<1>5. \A k \in DOMAIN y.batch : y.batch[k] \in DOMAIN queue[d]
  BY <1>4, Here DEF Sound, BatchSound
<1>6. y.next <= Len(feed) /\ y.changes \subseteq DOMAIN feed
  BY <1>4, Here DEF Sound, CursorSound
<1>7. Sound(d, row[d], queue[d], base[d], conf[d], cursor[d], Settled(y), feed)
  BY <1>2, <1>3, <1>4, <1>5, <1>6, Here, Leaving
<1>8. UNCHANGED <<local, server, said>> /\ spent' \in Spent
  BY <1>1, Here
<1> QED
  BY <1>1, <1>7, <1>8, EngineOnly

-----------------------------------------------------------------------------
(* The engine's actions: the server answers a push *)

ServerState == [srv : [Entity -> ServerRow \cup {NoRow}], feed : Seq(FeedEntry), acks : Seq(Ack)]

(* The server after the operation op of device d was added to its state s. *)
Adds(s, t, op, id, d) ==
    /\ t \in ServerState
    /\ Len(t.acks) = Len(s.acks) + 1
    /\ \A k \in 1..Len(s.acks) : t.acks[k] = s.acks[k]
    /\ t.acks[Len(s.acks) + 1].id = id
    /\ Len(s.feed) <= Len(t.feed)
    /\ \A i \in 1..Len(s.feed) : t.feed[i] = s.feed[i]
    /\ \A i \in (Len(s.feed) + 1)..Len(t.feed) : t.feed[i].ent = op.ent /\ t.feed[i].dev = d

LEMMA ServerStepTyped ==
  ASSUME NEW s \in ServerState, NEW op \in QueuedOp, NEW id \in Nat, NEW d \in Device
  PROVE  Adds(s, ServerStep(s, op, id, d), op, id, d)
<1> DEFINE r == s.srv[op.ent]
           status == AckStatus(r, op)
           v == StoredVersion(r, op)
           ack == [id |-> id, status |-> status, remote |-> r,
                   ver |-> IF status = "applied" THEN v ELSE r.ver]
           t == ServerStep(s, op, id, d)
           written == [srv |-> [s.srv EXCEPT ![op.ent] = EntityRow(r, op, d)],
                       feed |-> Append(s.feed, FeedRow(r, op, d)), acks |-> Append(s.acks, ack)]
           asked == [s EXCEPT !.acks = Append(s.acks, ack)]
<1>1. /\ op.ent \in Entity /\ op.ver \in Nat /\ op.base \in Nat /\ op.val \in Values
      /\ op.del \in BOOLEAN /\ op.valid = TRUE
  BY DEF QueuedOp
<1>2. /\ s.srv \in [Entity -> ServerRow \cup {NoRow}] /\ s.feed \in Seq(FeedEntry)
      /\ s.acks \in Seq(Ack)
  BY DEF ServerState
<1>3. r \in ServerRow \cup {NoRow} /\ NoRow \notin ServerRow
  BY <1>1, <1>2, EngineAssumption
<1>4. r # NoRow => r.ver \in Nat
  BY <1>3 DEF ServerRow
<1>5. v \in Nat
  BY <1>1, <1>4 DEF StoredVersion, MaxOf
<1>6. FeedBase(r, op) \in Nat
  BY <1>1, <1>4 DEF FeedBase
<1>7. DeletedFlag(op) \in BOOLEAN
  BY <1>1 DEF DeletedFlag
<1>8. status \in {"applied", "conflict"} /\ (status = "conflict" => r # NoRow)
  BY <1>1 DEF AckStatus, Accepts
<1>9. EntityRow(r, op, d) \in ServerRow
  BY <1>1, <1>5, <1>7 DEF EntityRow, ServerRow
<1>10. FeedRow(r, op, d) \in FeedEntry /\ FeedRow(r, op, d).ent = op.ent /\ FeedRow(r, op, d).dev = d
  BY <1>1, <1>5, <1>6, <1>7 DEF FeedRow, FeedEntry
<1>11. t = IF status = "applied" THEN written ELSE asked
  BY DEF ServerStep
<1> HIDE DEF r, status, v
<1>12. ack \in Ack /\ ack.id = id
  <2>1. CASE status = "applied"
    BY <1>3, <1>5, <2>1 DEF Ack
  <2>2. CASE status # "applied"
    BY <1>3, <1>4, <1>8, <2>2 DEF Ack
  <2> QED
    BY <2>1, <2>2
<1> HIDE DEF ack
<1>13. /\ Append(s.acks, ack) \in Seq(Ack) /\ Len(Append(s.acks, ack)) = Len(s.acks) + 1
       /\ \A k \in 1..Len(s.acks) : Append(s.acks, ack)[k] = s.acks[k]
       /\ Append(s.acks, ack)[Len(s.acks) + 1] = ack
  BY <1>2, <1>12
<1> DEFINE entry == FeedRow(r, op, d)
           longer == Append(s.feed, entry)
<1>14. /\ longer \in Seq(FeedEntry) /\ Len(longer) = Len(s.feed) + 1 /\ Len(s.feed) \in Nat
       /\ \A k \in 1..Len(s.feed) : longer[k] = s.feed[k]
       /\ longer[Len(s.feed) + 1] = entry
  BY <1>2, <1>10
<1>15. CASE status = "applied"
  <2>1. t = written /\ t.acks = Append(s.acks, ack) /\ t.feed = longer
    BY <1>11, <1>15
  <2>2. [s.srv EXCEPT ![op.ent] = EntityRow(r, op, d)] \in [Entity -> ServerRow \cup {NoRow}]
    BY <1>1, <1>2, <1>9
  <2>3. written \in ServerState
    BY <1>13, <1>14, <2>2 DEF ServerState
  <2> HIDE DEF t, longer, entry, written
  <2>4. \A i \in (Len(s.feed) + 1)..Len(longer) : i = Len(s.feed) + 1
    BY <1>14
  <2>5. entry.ent = op.ent /\ entry.dev = d
    BY <1>10 DEF entry
  <2>6. Len(s.feed) <= Len(longer)
    BY <1>14
  <2> QED
    BY <1>12, <1>13, <1>14, <2>1, <2>3, <2>4, <2>5, <2>6 DEF t, Adds
<1>16. CASE status # "applied"
  <2>1. t = asked /\ asked \in ServerState /\ t.acks = Append(s.acks, ack) /\ t.feed = s.feed
    BY <1>2, <1>11, <1>13, <1>16 DEF ServerState
  <2> HIDE DEF t, asked
  <2>2. (Len(s.feed) + 1)..Len(s.feed) = {} /\ Len(s.feed) <= Len(s.feed)
    BY <1>14
  <2> QED
    BY <1>12, <1>13, <2>1, <2>2 DEF t, Adds
<1> QED
  BY <1>15, <1>16

(* The server's answer to the whole batch: an ack for every operation, and *)
(* what was added to the feed came from the device and has a row there.    *)
Answers(d, end) ==
    /\ end \in ServerState
    /\ Len(end.acks) = Len(eng[d].batch)
    /\ \A k \in 1..Len(eng[d].batch) : end.acks[k].id = eng[d].batch[k]
    /\ Len(feed) <= Len(end.feed) /\ \A i \in 1..Len(feed) : end.feed[i] = feed[i]
    /\ \A i \in (Len(feed) + 1)..Len(end.feed) :
          row[d][end.feed[i].ent] # NoRow /\ end.feed[i].dev = d

(* The fold over the batch, step by step. *)
Runs(d, f) ==
    LET batch == eng[d].batch
    IN  /\ f[0] = [srv |-> srv, feed |-> feed, acks |-> <<>>]
        /\ \A k \in 1..Len(batch) :
              /\ queue[d][batch[k]] \in QueuedOp /\ batch[k] \in Nat
              /\ row[d][queue[d][batch[k]].ent] # NoRow
              /\ f[k] = ServerStep(f[k - 1], queue[d][batch[k]], batch[k], d)
        /\ \A k \in 0..Len(batch) : f[k] \in ServerState
        /\ Served(d) = f[Len(batch)]

LEMMA ServedSteps ==
  ASSUME EngineInv, NEW d \in Device, eng[d].pc = "push"
  PROVE  \E f : Runs(d, f)
<1> DEFINE batch == eng[d].batch
           n == Len(batch)
           start == [srv |-> srv, feed |-> feed, acks |-> <<>>]
           after[k \in 0..Len(batch)] ==
                 IF k = 0 THEN [srv |-> srv, feed |-> feed, acks |-> <<>>]
                 ELSE ServerStep(after[k - 1], queue[d][batch[k]], batch[k], d)
           step == [k \in 1..n |-> [s \in ServerState |->
                       ServerStep(s, queue[d][batch[k]], batch[k], d)]]
<1>1. batch \in Seq(Nat) /\ n \in Nat /\ DOMAIN batch = 1..n
  BY Here DEF EngineState
<1>2. start \in ServerState
  <2>1. <<>> \in Seq(Ack)
    OBVIOUS
  <2>2. srv \in [Entity -> ServerRow \cup {NoRow}] /\ feed \in Seq(FeedEntry)
    BY Here DEF TypeOK
  <2> QED
    BY <2>1, <2>2 DEF ServerState
<1>3. ASSUME NEW k \in 1..n
      PROVE  /\ queue[d][batch[k]] \in QueuedOp /\ batch[k] \in Nat
             /\ row[d][queue[d][batch[k]].ent] # NoRow
  <2>1. batch[k] \in DOMAIN queue[d]
    BY <1>1, Here DEF Sound, BatchSound
  <2>2. queue[d] \in Seq(QueuedOp) /\ HasRows(row[d], queue[d], conf[d])
    BY Here DEF Sound
  <2>3. queue[d][batch[k]] \in QueuedOp /\ row[d][queue[d][batch[k]].ent] # NoRow
    BY <2>1, <2>2 DEF HasRows
  <2> HIDE DEF batch
  <2>4. batch[k] \in Nat
    BY <1>1
  <2> QED
    BY <2>3, <2>4
<1>4. step \in [1..n -> [ServerState -> ServerState]]
  <2>1. ASSUME NEW k \in 1..n, NEW s \in ServerState
        PROVE  ServerStep(s, queue[d][batch[k]], batch[k], d) \in ServerState
    BY <1>3, ServerStepTyped DEF Adds
  <2> QED
    BY <2>1
<1> HIDE DEF start, batch, n
<1> HIDE DEF step
<1>5. PICK f \in [0..n -> ServerState] : Iterates(f, n, start, step)
  BY <1>1, <1>2, <1>4, StepByStep
<1>6. f = [k \in 0..n |-> IF k = 0 THEN start
                         ELSE ServerStep(f[k - 1], queue[d][batch[k]], batch[k], d)]
  <2>1. ASSUME NEW k \in 0..n, k # 0
        PROVE  step[k][f[k - 1]] = ServerStep(f[k - 1], queue[d][batch[k]], batch[k], d)
    <3>1. k \in 1..n /\ f[k - 1] \in ServerState
      BY <1>1, <1>5, <2>1
    <3> QED
      BY <3>1 DEF step
  <2>2. f = [k \in 0..n |-> IF k = 0 THEN start ELSE step[k][f[k - 1]]]
    BY <1>5 DEF Iterates
  <2> QED
    BY <2>1, <2>2
<1>7. after = [k \in 0..n |-> IF k = 0 THEN start
                              ELSE ServerStep(after[k - 1], queue[d][batch[k]], batch[k], d)]
  BY <1>6 DEF start, n
<1> HIDE DEF after
<1>8. after[0] = start /\ \A k \in 1..n : after[k] = ServerStep(after[k - 1], queue[d][batch[k]], batch[k], d)
  BY <1>1, <1>7
<1>9. \A k \in 0..n : after[k] \in ServerState
  <2> DEFINE T == {k \in 0..n : after[k] \in ServerState}
  <2>1. 0 \in T
    BY <1>1, <1>2, <1>8
  <2>2. ASSUME NEW k \in 1..n, k - 1 \in T PROVE k \in T
    <3> DEFINE s == after[k - 1]
               op == queue[d][batch[k]]
    <3>2. after[k] = ServerStep(s, op, batch[k], d) /\ s \in ServerState
      BY <1>8, <2>2
    <3>3. op \in QueuedOp /\ batch[k] \in Nat
      BY <1>3
    <3> HIDE DEF s, op
    <3>1. after[k] \in ServerState
      BY <3>2, <3>3, ServerStepTyped DEF Adds
    <3> QED
      BY <1>1, <3>1
  <2> HIDE DEF T
  <2>3. 0..n \subseteq T
    BY <1>1, <2>1, <2>2, Climb
  <2> QED
    BY <2>3 DEF T
<1>10. Served(d) = after[n]
  BY DEF Served, after, n, batch
<1>11. Runs(d, after)
  BY <1>3, <1>8, <1>9, <1>10 DEF Runs, start, n, batch
<1> QED
  BY <1>11

LEMMA ServerAnswers ==
  ASSUME EngineInv, NEW d \in Device, eng[d].pc = "push"
  PROVE  Answers(d, Served(d))
<1> DEFINE batch == eng[d].batch
           n == Len(batch)
<1>1. batch \in Seq(Nat) /\ n \in Nat
  BY Here DEF EngineState
<1>2. PICK after : Runs(d, after)
  BY ServedSteps
<1>3. /\ after[0] = [srv |-> srv, feed |-> feed, acks |-> <<>>] /\ Served(d) = after[n]
      /\ \A k \in 0..n : after[k] \in ServerState
      /\ \A k \in 1..n : /\ queue[d][batch[k]] \in QueuedOp /\ batch[k] \in Nat
                         /\ row[d][queue[d][batch[k]].ent] # NoRow
                         /\ after[k] = ServerStep(after[k - 1], queue[d][batch[k]], batch[k], d)
  BY <1>2 DEF Runs
<1> HIDE DEF batch, n
<1> DEFINE Reached(k) ==
               LET s == after[k]
               IN  /\ s \in ServerState
                   /\ Len(s.acks) = k /\ \A j \in 1..k : s.acks[j].id = batch[j]
                   /\ Len(feed) <= Len(s.feed) /\ \A i \in 1..Len(feed) : s.feed[i] = feed[i]
                   /\ \A i \in (Len(feed) + 1)..Len(s.feed) :
                         row[d][s.feed[i].ent] # NoRow /\ s.feed[i].dev = d
           T == {k \in 0..n : Reached(k)}
<1>4. Reached(0)
  <2>1. after[0].srv = srv /\ after[0].feed = feed /\ after[0].acks = <<>>
    BY <1>3
  <2>2. Len(feed) \in Nat /\ after[0] \in ServerState
    BY <1>1, <1>3, Here
  <2> QED
    BY <2>1, <2>2
<1>5. ASSUME NEW k \in 1..n, Reached(k - 1) PROVE Reached(k)
  <2> DEFINE s == after[k - 1]
             op == queue[d][batch[k]]
             t == after[k]
  <2>1. t = ServerStep(s, op, batch[k], d)
    BY <1>3
  <2>2. op \in QueuedOp /\ batch[k] \in Nat /\ row[d][op.ent] # NoRow
    BY <1>3
  <2>3. s \in ServerState
    BY <1>5
  <2> HIDE DEF s, op, t
  <2>4. /\ t \in ServerState
        /\ Len(t.acks) = Len(s.acks) + 1
        /\ \A j \in 1..Len(s.acks) : t.acks[j] = s.acks[j]
        /\ t.acks[Len(s.acks) + 1].id = batch[k]
        /\ Len(s.feed) <= Len(t.feed)
        /\ \A i \in 1..Len(s.feed) : t.feed[i] = s.feed[i]
        /\ \A i \in (Len(s.feed) + 1)..Len(t.feed) : t.feed[i].ent = op.ent /\ t.feed[i].dev = d
    <3>1. Adds(s, t, op, batch[k], d)
      BY <2>1, <2>2, <2>3, ServerStepTyped
    <3> QED
      BY <3>1 DEF Adds
  <2>5. /\ Len(s.acks) = k - 1 /\ \A j \in 1..(k - 1) : s.acks[j].id = batch[j]
        /\ Len(feed) <= Len(s.feed) /\ \A i \in 1..Len(feed) : s.feed[i] = feed[i]
        /\ \A i \in (Len(feed) + 1)..Len(s.feed) : row[d][s.feed[i].ent] # NoRow /\ s.feed[i].dev = d
    BY <1>5 DEF s
  <2>6. Len(feed) \in Nat /\ Len(s.feed) \in Nat /\ Len(t.feed) \in Nat
    BY <2>3, <2>4, Here DEF ServerState
  <2>7. Len(t.acks) = k /\ \A j \in 1..k : t.acks[j].id = batch[j]
    <3>1. \A j \in 1..k : j \in 1..(k - 1) \/ j = k
      OBVIOUS
    <3> QED
      BY <2>4, <2>5, <3>1
  <2>8. Len(feed) <= Len(t.feed) /\ \A i \in 1..Len(feed) : t.feed[i] = feed[i]
    BY <2>4, <2>5, <2>6
  <2>9. \A i \in (Len(feed) + 1)..Len(t.feed) : row[d][t.feed[i].ent] # NoRow /\ t.feed[i].dev = d
    <3>1. \A i \in (Len(feed) + 1)..Len(t.feed) :
             \/ i \in (Len(feed) + 1)..Len(s.feed) /\ i \in 1..Len(s.feed)
             \/ i \in (Len(s.feed) + 1)..Len(t.feed)
      BY <2>6
    <3> QED
      BY <2>2, <2>4, <2>5, <3>1
  <2> QED
    BY <2>4, <2>7, <2>8, <2>9 DEF t
<1> HIDE DEF Reached
<1>6. 0 \in T /\ \A k \in 1..n : k - 1 \in T => k \in T
  BY <1>1, <1>4, <1>5
<1> HIDE DEF T
<1>7. 0..n \subseteq T
  BY <1>1, <1>6, Climb
<1>8. Reached(n)
  BY <1>1, <1>7 DEF T
<1>9. Answers(d, after[n])
  BY <1>8 DEF Reached, Answers, n, batch
<1> QED
  BY <1>3, <1>9

LEMMA ServerPushStep ==
  ASSUME EngineInv, NEW d \in Device, ServerPush(d)
  PROVE  EngineInv'
<1> DEFINE x == eng[d]
           batch == x.batch
           end == Served(d)
           y == [x EXCEPT !.pc = "answer", !.acks = end.acks]
<1>1. x.pc = "push" /\ UNCHANGED <<local, spent, said>>
  BY DEF ServerPush
<1>2. srv' = end.srv /\ feed' = end.feed /\ eng' = Put(eng, d, y)
  BY DEF ServerPush, Put
<1>3. /\ end \in ServerState
      /\ Len(end.acks) = Len(batch) /\ \A k \in 1..Len(batch) : end.acks[k].id = batch[k]
      /\ Len(feed) <= Len(end.feed) /\ \A i \in 1..Len(feed) : end.feed[i] = feed[i]
      /\ \A i \in (Len(feed) + 1)..Len(end.feed) :
            row[d][end.feed[i].ent] # NoRow /\ end.feed[i].dev = d
  BY <1>1, ServerAnswers DEF Answers
<1> HIDE DEF end
<1>4. end.srv \in [Entity -> ServerRow \cup {NoRow}] /\ end.feed \in Seq(FeedEntry) /\ end.acks \in Seq(Ack)
  BY <1>3 DEF ServerState
<1>5. x \in EngineState /\ batch \in Seq(Nat)
  BY Here DEF EngineState
<1>6. /\ y \in EngineState /\ y.pc = "answer" /\ y.batch = batch /\ y.acks = end.acks
      /\ y.next = x.next /\ y.changes = x.changes
  BY <1>4, <1>5 DEF EngineState
<1> HIDE DEF y
<1>7. Answering(y) /\ ~Deciding(y) /\ ~Applying(y) /\ y.pc # "push"
  BY <1>6 DEF Answering, Deciding, Applying
<1>8. DOMAIN y.acks = 1..Len(batch) /\ DOMAIN y.batch = 1..Len(batch)
  BY <1>3, <1>4, <1>5, <1>6
<1>9. Sound(d, row[d], queue[d], base[d], conf[d], cursor[d], y, feed)
  <2>1. LocalTyped(row[d], queue[d], base[d], conf[d], cursor[d], y)
    BY <1>6, Here DEF Sound, LocalTyped
  <2>2. BatchSound(queue[d], y)
    BY <1>1, <1>3, <1>6, <1>7, <1>8, Here DEF Sound, BatchSound
  <2>3. Awaited(queue[d], y)
    <3> SUFFICES ASSUME NEW i \in DOMAIN queue[d], queue[d][i].status = "in_flight"
                 PROVE  \E k \in DOMAIN y.acks : y.acks[k].id = i
      BY DEF Awaited
    <3>1. x.acks = <<>>
      BY <1>1, Here, NotAnswering DEF Sound, BatchSound
    <3>2. PICK k \in DOMAIN batch : batch[k] = i
      BY <3>1, Here DEF Sound, Awaited
    <3> QED
      BY <1>3, <1>6, <1>8, <3>2
  <2>4. CursorSound(d, row[d], cursor[d], y, feed)
    BY <1>6, <1>7, Here DEF Sound, CursorSound
  <2> QED
    BY <1>7, <2>1, <2>2, <2>3, <2>4, Here DEF Sound, PlanSound
<1>10. Sound(d, row[d], queue[d], base[d], conf[d], cursor[d], y, end.feed)
  BY <1>3, <1>4, <1>9, Here, FeedGrows
<1>11. ASSUME NEW d2 \in Device, d2 # d
       PROVE  Sound(d2, row[d2], queue[d2], base[d2], conf[d2], cursor[d2], eng[d2], end.feed)
  BY <1>3, <1>4, <1>11, Here, FeedGrows
<1>12. /\ row' = row /\ queue' = queue /\ base' = base /\ conf' = conf /\ cursor' = cursor
       /\ said' = said /\ spent' = spent
  BY <1>1 DEF local
<1>13. eng'[d] = y /\ \A d2 \in Device : d2 # d => eng'[d2] = eng[d2]
  BY <1>2, Here DEF Put, TypeOK
<1>14. TypeOK'
  <2>1. eng' \in [Device -> EngineState]
    BY <1>2, <1>6, Here DEF Put, TypeOK
  <2> QED
    BY <1>2, <1>4, <1>12, <2>1, Here DEF TypeOK
<1>15. ASSUME NEW d2 \in Device
       PROVE  Sound(d2, row'[d2], queue'[d2], base'[d2], conf'[d2], cursor'[d2], eng'[d2], feed')
  BY <1>2, <1>10, <1>11, <1>12, <1>13
<1> QED
  BY <1>12, <1>14, <1>15, Here DEF EngineInv

-----------------------------------------------------------------------------
(* The engine's actions: the pull *)

LEMMA ServerPullStep ==
  ASSUME EngineInv, NEW d \in Device, ServerPull(d)
  PROVE  EngineInv'
<1> DEFINE x == eng[d]
           page == Page(d)
           next == PageCursor(d, page)
           y == [x EXCEPT !.pc = "apply", !.changes = page, !.next = next]
<1>1. x.pc = "pull" /\ UNCHANGED <<local, server, spent, said>>
  BY DEF ServerPull
<1>2. eng' = Put(eng, d, y)
  BY Here DEF ServerPull, Put, TypeOK
<1>3. cursor[d] <= Len(feed)
  BY Here DEF Sound, CursorSound
<1>4. /\ page \subseteq DOMAIN feed /\ next \in 0..Len(feed)
      /\ \A i \in Foreign(d) : i <= next => i \in page
  BY <1>3, Here, PageIsWhole
<1> HIDE DEF page, next
<1>5. x \in EngineState /\ Len(feed) \in Nat /\ DOMAIN feed = 1..Len(feed)
  BY Here
<1>6. page \subseteq Nat /\ next \in Nat /\ next <= Len(feed)
  BY <1>4, <1>5
<1>7. /\ y \in EngineState /\ y.pc = "apply" /\ y.batch = x.batch /\ y.acks = x.acks
      /\ y.next = next /\ y.changes = page
  BY <1>5, <1>6 DEF EngineState
<1> HIDE DEF y
<1>8. ~Answering(y) /\ ~Deciding(y) /\ Applying(y) /\ ~Answering(x) /\ y.pc # "push" /\ x.pc # "push"
  BY <1>1, <1>7 DEF Answering, Deciding, Applying
<1>9. LocalTyped(row[d], queue[d], base[d], conf[d], cursor[d], y)
  BY <1>7, Here DEF Sound, LocalTyped
<1>10. BatchSound(queue[d], y) /\ Awaited(queue[d], y)
  BY <1>7, <1>8, Here DEF Sound, BatchSound, Awaited
<1>11. CursorSound(d, row[d], cursor[d], y, feed)
  <2>1. ASSUME NEW i \in DOMAIN feed, i <= next PROVE i \in page \/ Known(row[d], feed[i])
    <3>1. CASE i <= cursor[d] \/ feed[i].dev = d
      BY <3>1, Here DEF Sound, CursorSound
    <3>2. CASE ~(i <= cursor[d] \/ feed[i].dev = d)
      <4>1. i \in Foreign(d)
        BY <1>5, <3>2, Here DEF Foreign
      <4> QED
        BY <1>4, <2>1, <4>1
    <3> QED
      BY <3>1, <3>2
  <2> QED
    BY <1>4, <1>6, <1>7, <2>1, Here DEF Sound, CursorSound
<1>12. Sound(d, row[d], queue[d], base[d], conf[d], cursor[d], y, feed)
  BY <1>8, <1>9, <1>10, <1>11, Here DEF Sound, PlanSound
<1>13. UNCHANGED <<local, server, said>> /\ spent' \in Spent
  BY <1>1, Here
<1> QED
  BY <1>2, <1>12, <1>13, EngineOnly

LEMMA PullFailsStep ==
  ASSUME EngineInv, NEW d \in Device, PullFails(d)
  PROVE  EngineInv'
<1>1. eng[d].pc = "pull" /\ UNCHANGED <<local, server, said>> /\ eng' = Put(eng, d, IdleEngine)
  BY DEF PullFails, Put
<1>2. eng[d].acks = <<>>
  BY <1>1, Here, NotAnswering DEF Sound, BatchSound
<1>3. Sound(d, row[d], queue[d], base[d], conf[d], cursor[d], IdleEngine, feed)
  BY <1>1, <1>2, Here, NothingInFlight, Resting
<1>4. spent' \in Spent
  BY Here, Spending DEF PullFails
<1> QED
  BY <1>1, <1>3, <1>4, EngineOnly

LEMMA ApplyChangeStep ==
  ASSUME EngineInv, NEW d \in Device, ApplyChange(d)
  PROVE  EngineInv'
<1> DEFINE x == eng[d]
           first == Earliest(x.changes)
           change == feed[first]
           e == change.ent
<1>1. x.pc = "apply" /\ x.changes # {} /\ UNCHANGED <<local, server, spent, said>>
  BY DEF ApplyChange
<1>2. x \in EngineState /\ x.changes \subseteq DOMAIN feed /\ DOMAIN feed \subseteq Nat
  BY Here DEF Sound, CursorSound
<1>3. first \in DOMAIN feed
  BY <1>1, <1>2, HasEarliest
<1>4. change \in FeedEntry /\ e \in Entity /\ change.ver \in Nat /\ change.val \in Values
  <2>1. change \in FeedEntry
    BY <1>3, Here
  <2> QED
    BY <2>1 DEF FeedEntry
<1> DEFINE plan(step, closes) == Plan("apply", 0, e, change, change.ver, step, closes)
           skipped == [x EXCEPT !.changes = x.changes \ {first}]
           decided(p) == [x EXCEPT !.pc = "decided", !.plan = p]
<1>5. \/ row[d][e] # NoRow /\ eng' = Put(eng, d, skipped)
      \/ \E step, closes : /\ eng' = Put(eng, d, decided(plan(step, closes)))
                           /\ closes \in BOOLEAN
                           /\ \/ row[d][e] = NoRow /\ step = [Take(change) EXCEPT !.do = "insert"]
                              \/ row[d][e] # NoRow /\ step = Take(change)
                              \/ row[d][e] # NoRow /\ step \in Verdict(d, e, change)
  <2> DEFINE chosen(step, closes) == Decide(d, plan(step, closes))
  <2>1. \A step, closes : chosen(step, closes) => eng' = Put(eng, d, decided(plan(step, closes)))
    BY DEF Decide, Put
  <2>2. CASE row[d][e] = NoRow
    <3>1. chosen([Take(change) EXCEPT !.do = "insert"], FALSE)
      BY <2>2 DEF ApplyChange
    <3> QED
      BY <2>1, <2>2, <3>1
  <2>3. CASE row[d][e] # NoRow /\ AlreadyReconciled(d, e, change.ver)
    <3>1. eng' = [eng EXCEPT ![d] = skipped]
      BY <2>3, Here DEF ApplyChange, TypeOK
    <3> QED
      BY <2>3, <3>1 DEF Put
  <2>4. CASE row[d][e] # NoRow /\ ~AlreadyReconciled(d, e, change.ver)
    <3>1. \/ chosen(Take(change), FALSE)
          \/ \E step \in Verdict(d, e, change) : chosen(step, TRUE)
      BY <2>4 DEF ApplyChange
    <3> HIDE DEF chosen, plan, decided
    <3> QED
      BY <2>1, <2>4, <3>1
  <2> QED
    BY <2>2, <2>3, <2>4
<1>6. UNCHANGED <<local, server, said>> /\ spent' \in Spent
  BY <1>1, Here
<1>7. CASE row[d][e] # NoRow /\ eng' = Put(eng, d, skipped)
  <2>1. /\ skipped \in EngineState /\ skipped.pc = "apply" /\ skipped.batch = x.batch
        /\ skipped.acks = x.acks /\ skipped.next = x.next /\ skipped.changes = x.changes \ {first}
    BY <1>1, <1>2 DEF EngineState
  <2> HIDE DEF skipped
  <2>2. ~Answering(skipped) /\ ~Deciding(skipped) /\ skipped.pc # "push" /\ ~Answering(x) /\ x.pc # "push"
        /\ Applying(x)
    BY <1>1, <2>1 DEF Answering, Deciding, Applying
  <2>3. LocalTyped(row[d], queue[d], base[d], conf[d], cursor[d], skipped)
    BY <2>1, Here DEF Sound, LocalTyped
  <2>4. BatchSound(queue[d], skipped) /\ Awaited(queue[d], skipped)
    BY <2>1, <2>2, Here DEF Sound, BatchSound, Awaited
  <2>5. CursorSound(d, row[d], cursor[d], skipped, feed)
    <3>1. Known(row[d], feed[first])
      BY <1>7 DEF Known
    <3>2. \A i \in DOMAIN feed : i <= x.next => i \in x.changes \/ Known(row[d], feed[i])
      BY <2>2, Here DEF Sound, CursorSound
    <3> HIDE DEF first
    <3> QED
      BY <2>1, <3>1, <3>2, Here DEF Sound, CursorSound
  <2>6. Sound(d, row[d], queue[d], base[d], conf[d], cursor[d], skipped, feed)
    BY <2>2, <2>3, <2>4, <2>5, Here DEF Sound, PlanSound
  <2> QED
    BY <1>6, <1>7, <2>6, EngineOnly
<1>8. ASSUME NEW step, NEW closes \in BOOLEAN, eng' = Put(eng, d, decided(plan(step, closes))),
             step \in Step, step.do # "insert" => row[d][e] # NoRow
      PROVE  EngineInv'
  <2> DEFINE p == plan(step, closes)
  <2>1. /\ p \in PlanOf /\ p.from = "apply" /\ p.step = step /\ p.ent = e
    BY <1>4, <1>8 DEF Plan, PlanOf
  <2> HIDE DEF p
  <2>2. Sound(d, row[d], queue[d], base[d], conf[d], cursor[d], decided(p), feed)
    BY <1>1, <1>8, <2>1, Here, Decided
  <2>3. eng' = Put(eng, d, decided(p))
    BY <1>8 DEF p
  <2> QED
    BY <1>6, <2>2, <2>3, EngineOnly
<1>9. Take(change) \in Step /\ [Take(change) EXCEPT !.do = "insert"] \in Step
      /\ [Take(change) EXCEPT !.do = "insert"].do = "insert"
  BY <1>4 DEF Take, Step
<1>10. ASSUME row[d][e] # NoRow, NEW step \in Verdict(d, e, change) PROVE step \in Step
  BY <1>4, <1>10, Here, VerdictTyped
<1> HIDE DEF plan, decided, skipped
<1> QED
  BY <1>5, <1>7, <1>8, <1>9, <1>10

LEMMA EndPullStep ==
  ASSUME EngineInv, NEW d \in Device, EndPull(d)
  PROVE  EngineInv'
<1> DEFINE x == eng[d]
<1>1. /\ x.pc = "apply" /\ x.changes = {} /\ cursor' = Put(cursor, d, x.next)
      /\ UNCHANGED <<row, base, conf, server, spent, said>>
  BY DEF EndPull, Put
<1>2. ~Answering(x) /\ Applying(x) /\ x.pc # "push"
  BY <1>1 DEF Answering, Deciding, Applying
<1>3. x.acks = <<>>
  BY <1>2, Here DEF Sound, BatchSound
<1>4. \A i \in DOMAIN queue[d] : queue[d][i].status # "in_flight"
  BY <1>2, <1>3, Here, NothingInFlight
<1>5. Sound(d, row[d], queue[d], base[d], conf[d], x.next, x, feed)
  <2>1. x.next \in Nat
    BY Here DEF EngineState
  <2>2. LocalTyped(row[d], queue[d], base[d], conf[d], x.next, x)
    BY <2>1, Here DEF Sound, LocalTyped
  <2>3. CursorSound(d, row[d], x.next, x, feed)
    BY <1>1, <1>2, Here DEF Sound, CursorSound
  <2> QED
    BY <2>2, <2>3, Here DEF Sound
<1>6. /\ row' = Put(row, d, row[d]) /\ base' = Put(base, d, base[d]) /\ conf' = Put(conf, d, conf[d])
      /\ feed' = feed /\ srv' = srv /\ said' \in [Entity -> Content] /\ spent' \in Spent
  BY <1>1, Here DEF server
<1>7. CASE eng' = Put(eng, d, Settled(Started(x, queue[d], 2))) /\ queue' = Put(queue, d, Sent(queue[d]))
  <2>1. Sound(d, row[d], Sent(queue[d]), base[d], conf[d], x.next, Settled(Started(x, queue[d], 2)), feed)
    BY <1>3, <1>4, <1>5, Here, Starting
  <2> QED
    BY <1>1, <1>6, <1>7, <2>1, Locally
<1>8. CASE eng' = Put(eng, d, IdleEngine) /\ queue' = queue
  <2>1. Sound(d, row[d], queue[d], base[d], conf[d], x.next, IdleEngine, feed)
    BY <1>4, <1>5, Here, Resting
  <2>2. queue' = Put(queue, d, queue[d])
    BY <1>8, Here
  <2> QED
    BY <1>1, <1>6, <1>8, <2>1, <2>2, Locally
<1> QED
  BY <1>7, <1>8 DEF EndPull, StartPush, Put, Sent, Started

-----------------------------------------------------------------------------
(* The engine's actions: a decision is carried out *)

(* What a decision is about. *)
LEMMA PlanAtHand ==
  ASSUME EngineInv, NEW d \in Device, Deciding(eng[d])
  PROVE  LET plan == eng[d].plan
         IN  /\ plan \in PlanOf /\ plan.ent \in Entity /\ plan.ver \in Nat /\ plan.step.val \in Values
             /\ plan.remote.val \in Values /\ plan.remote.del \in BOOLEAN
             /\ plan.from = "answer" => plan.id \in DOMAIN queue[d] /\ plan.step.do # "insert"
             /\ plan.step.do # "insert" => row[d][plan.ent] # NoRow
             /\ Fetched(plan) \in LocalRow
             /\ Merged(plan.ver, plan.step.val, plan.remote.del) \in LocalRow
<1> DEFINE plan == eng[d].plan
<1>1. PlanSound(row[d], eng[d], feed) /\ BatchSound(queue[d], eng[d])
  BY Here DEF Sound
<1>2. plan \in PlanOf
  BY <1>1 DEF PlanSound
<1>3. /\ plan.ent \in Entity /\ plan.ver \in Nat /\ plan.step \in Step
      /\ plan.remote \in ServerRow \cup FeedEntry
  BY <1>2 DEF PlanOf
<1>4. plan.step.val \in Values /\ plan.remote.val \in Values /\ plan.remote.del \in BOOLEAN
  BY <1>3 DEF Step, ServerRow, FeedEntry
<1>5. plan.from = "answer" => plan.id \in DOMAIN queue[d] /\ plan.step.do # "insert"
  <2> SUFFICES ASSUME plan.from = "answer"
               PROVE  plan.id \in DOMAIN queue[d] /\ plan.step.do # "insert"
    OBVIOUS
  <2>1. eng[d].acks # <<>> /\ Head(eng[d].acks).id = plan.id /\ plan.step.do # "insert"
    BY <1>1 DEF PlanSound
  <2>2. eng[d].acks \in Seq(Ack)
    BY Here DEF EngineState
  <2>3. 1 \in DOMAIN eng[d].acks /\ eng[d].acks[1].id = plan.id
    BY <2>1, <2>2
  <2> QED
    BY <1>1, <2>1, <2>3 DEF BatchSound
<1>6. plan.step.do # "insert" => row[d][plan.ent] # NoRow
  BY <1>1 DEF PlanSound
<1>7. Fetched(plan) \in LocalRow
  BY <1>3, <1>4 DEF Fetched, LocalRow
<1>8. Merged(plan.ver, plan.step.val, plan.remote.del) \in LocalRow
  BY <1>3, <1>4, MergedRow
<1> HIDE DEF plan
<1> QED
  BY <1>2, <1>3, <1>4, <1>5, <1>6, <1>7, <1>8 DEF plan

(* The local database is changed and the engine goes on. *)
LEMMA CarriedOut ==
  ASSUME EngineInv, NEW d \in Device, NEW r, NEW q, NEW b, NEW c, Deciding(eng[d]),
         RowsKept(row[d], r), QueueKept(r, queue[d], q), ConfKept(r, conf[d], c),
         b \in [Entity -> Values \cup {NoBase}],
         eng[d].plan.from = "answer" => q[eng[d].plan.id].status # "in_flight",
         Parent[eng[d].plan.ent] = eng[d].plan.ent => r[eng[d].plan.ent] # NoRow,
         row' = Put(row, d, r), queue' = Put(queue, d, q), base' = Put(base, d, b),
         conf' = Put(conf, d, c), eng' = Put(eng, d, Resumed(eng[d])),
         UNCHANGED <<cursor, server, spent, said>>
  PROVE  EngineInv'
<1>1. Sound(d, r, q, b, c, cursor[d], eng[d], feed)
  BY Here, LocalStep
<1>2. Sound(d, r, q, b, c, cursor[d], Resumed(eng[d]), feed)
  BY <1>1, Here, Resuming
<1>3. /\ cursor' = Put(cursor, d, cursor[d]) /\ feed' = feed /\ srv' = srv
      /\ said' \in [Entity -> Content] /\ spent' \in Spent
  BY Here DEF server
<1> QED
  BY <1>2, <1>3, Locally

LEMMA InsertRemoteStep ==
  ASSUME EngineInv, NEW d \in Device, InsertRemote(d)
  PROVE  EngineInv'
<1> DEFINE plan == eng[d].plan
           e == plan.ent
           r == [row[d] EXCEPT ![e] = Fetched(plan)]
           v == IF plan.remote.del THEN base[d][e] ELSE plan.remote.val
           b == [base[d] EXCEPT ![e] = v]
<1>1. /\ eng[d].pc = "decided" /\ plan.step.do = "insert"
      /\ eng' = Put(eng, d, Resumed(eng[d])) /\ UNCHANGED <<queue, conf, cursor, server, spent, said>>
  BY DEF InsertRemote, Put
<1>2. Deciding(eng[d])
  BY <1>1 DEF Deciding
<1>3. /\ e \in Entity /\ Fetched(plan) \in LocalRow /\ plan.from # "answer" /\ plan.remote.val \in Values
  BY <1>1, <1>2, PlanAtHand
<1>4. /\ QueueKept(r, queue[d], queue[d]) /\ QueueKept(row[d], queue[d], queue[d])
      /\ ConfKept(r, conf[d], conf[d]) /\ ConfKept(row[d], conf[d], conf[d])
      /\ queue' = Put(queue, d, queue[d]) /\ conf' = Put(conf, d, conf[d])
      /\ UNCHANGED <<cursor, server, spent, said>>
  BY <1>1, Here, QueueSame, ConfSame
<1>5. CASE Parent[e] # e /\ row[d][Parent[e]] = NoRow
  <2>1. UNCHANGED <<row, base>>
    BY <1>5 DEF InsertRemote
  <2>2. row' = Put(row, d, row[d]) /\ base' = Put(base, d, base[d]) /\ RowsKept(row[d], row[d])
        /\ base[d] \in [Entity -> Values \cup {NoBase}]
    BY <2>1, Here, RowsSame
  <2> HIDE DEF r, b
  <2> QED
    BY <1>1, <1>2, <1>3, <1>4, <1>5, <2>2, CarriedOut
<1>6. CASE ~(Parent[e] # e /\ row[d][Parent[e]] = NoRow)
  <2>1. SetRow(d, e, Fetched(plan))
        /\ base' = [base EXCEPT ![d][e] = IF plan.remote.del THEN base[d][e] ELSE plan.remote.val]
    BY <1>3, <1>6, Here DEF InsertRemote, TypeOK
  <2>2. row' = Put(row, d, r)
    BY <2>1, Here DEF SetRow, Put, Rows, TypeOK
  <2>3. base' = Put(base, d, b)
    BY <2>1, Here DEF Put, TypeOK
  <2>4. RowsKept(row[d], r) /\ r[e] # NoRow
    BY <1>3, Here, RowWritten
  <2>5. v \in Values \cup {NoBase}
    BY <1>3, Here
  <2> HIDE DEF v
  <2>6. b \in [Entity -> Values \cup {NoBase}]
    BY <1>3, <2>5, Here
  <2> HIDE DEF r, b
  <2> QED
    BY <1>1, <1>2, <1>3, <1>4, <2>2, <2>3, <2>4, <2>6, CarriedOut
<1> QED
  BY <1>5, <1>6

LEMMA WriteRemoteStep ==
  ASSUME EngineInv, NEW d \in Device, WriteRemote(d)
  PROVE  EngineInv'
<1> DEFINE plan == eng[d].plan
           e == plan.ent
           r == [row[d] EXCEPT ![e] = Fetched(plan)]
           b == [base[d] EXCEPT ![e] = plan.remote.val]
           left == IF plan.closes THEN NoConflict ELSE conf[d][e]
           c == [conf[d] EXCEPT ![e] = left]
           q == Answered(queue[d], plan)
<1>1. /\ eng[d].pc = "decided" /\ SetRow(d, e, Fetched(plan))
      /\ eng' = Put(eng, d, Resumed(eng[d])) /\ UNCHANGED <<cursor, server, spent, said>>
      /\ queue' = Put(queue, d, q)
  BY DEF WriteRemote, Put
<1>2. Deciding(eng[d])
  BY <1>1 DEF Deciding
<1>3. /\ e \in Entity /\ Fetched(plan) \in LocalRow /\ plan.remote.val \in Values
      /\ plan.from = "answer" => plan.id \in DOMAIN queue[d]
  BY <1>2, PlanAtHand
<1>4. row' = Put(row, d, r)
  BY <1>1, Here DEF SetRow, Put, Rows, TypeOK
<1>5. base' = Put(base, d, b) /\ conf' = Put(conf, d, c)
  BY <1>3, Here DEF WriteRemote, Put, TypeOK
<1>6. RowsKept(row[d], r) /\ r[e] # NoRow
  BY <1>3, Here, RowWritten
<1>7. QueueKept(r, queue[d], q) /\ (plan.from = "answer" => q[plan.id].status # "in_flight")
  BY <1>3, Here, QueueSame, AnsweredOps
<1>8. b \in [Entity -> Values \cup {NoBase}]
  BY <1>3, Here
<1>9. ConfKept(r, conf[d], c)
  <2>1. left \in {NoConflict, conf[d][e]}
    OBVIOUS
  <2>2. conf[d] \in [Entity -> OpenConflict \cup {NoConflict}]
    BY Here
  <2> HIDE DEF left
  <2> QED
    BY <1>3, <2>1, <2>2 DEF ConfKept
<1> HIDE DEF r, b, c, q
<1> QED
  BY <1>1, <1>2, <1>4, <1>5, <1>6, <1>7, <1>8, <1>9, CarriedOut

(* The engine comes to the second half of a merge. *)
LEMMA Halfway ==
  ASSUME NEW d, NEW r, NEW q, NEW b, NEW c, NEW cur, NEW x, NEW fd,
         Sound(d, r, q, b, c, cur, x, fd), x.pc = "decided", x.plan.step.do = "merge"
  PROVE  Sound(d, r, q, b, c, cur, [x EXCEPT !.pc = "requeue"], fd)
<1> DEFINE y == [x EXCEPT !.pc = "requeue"]
<1>1. x \in EngineState
  BY DEF Sound, LocalTyped
<1>2. /\ y \in EngineState /\ y.pc = "requeue" /\ y.plan = x.plan /\ y.batch = x.batch
      /\ y.acks = x.acks /\ y.next = x.next /\ y.changes = x.changes
  BY <1>1 DEF EngineState
<1> HIDE DEF y
<1>3. /\ Answering(y) <=> Answering(x)
      /\ Applying(y) <=> Applying(x)
      /\ Deciding(x) /\ y.pc # "push" /\ x.pc # "push"
  BY <1>2 DEF Answering, Applying, Deciding
<1>4. LocalTyped(r, q, b, c, cur, y)
  BY <1>2 DEF Sound, LocalTyped
<1>5. BatchSound(q, y)
  BY <1>2, <1>3 DEF Sound, BatchSound
<1>6. Awaited(q, y)
  BY <1>2, <1>3 DEF Sound, Awaited
<1>7. PlanSound(r, y, fd)
  BY <1>2, <1>3 DEF Sound, PlanSound
<1>8. CursorSound(d, r, cur, y, fd)
  BY <1>2, <1>3 DEF Sound, CursorSound
<1> QED
  BY <1>4, <1>5, <1>6, <1>7, <1>8 DEF Sound, y

LEMMA WriteMergedRowStep ==
  ASSUME EngineInv, NEW d \in Device, WriteMergedRow(d)
  PROVE  EngineInv'
<1> DEFINE x == eng[d]
           plan == x.plan
           e == plan.ent
           n == Merged(plan.ver, plan.step.val, plan.remote.del)
           r == [row[d] EXCEPT ![e] = n]
           b == [base[d] EXCEPT ![e] = plan.step.val]
           y == [x EXCEPT !.pc = "requeue"]
<1>1. /\ x.pc = "decided" /\ plan.step.do = "merge" /\ SetRow(d, e, n)
      /\ UNCHANGED <<queue, conf, cursor, server, spent, said>>
  BY DEF WriteMergedRow
<1>2. Deciding(x)
  BY <1>1 DEF Deciding
<1>3. e \in Entity /\ n \in LocalRow /\ plan.step.val \in Values
  BY <1>2, PlanAtHand
<1>4. eng' = Put(eng, d, y)
  BY Here DEF WriteMergedRow, GoTo, Put, TypeOK
<1> HIDE DEF n
<1>5. row' = Put(row, d, r)
  BY <1>1, Here DEF SetRow, Put, Rows, TypeOK
<1>6. base' = Put(base, d, b)
  BY Here DEF WriteMergedRow, Put, TypeOK
<1>7. RowsKept(row[d], r)
  BY <1>3, Here, RowWritten
<1>8. b \in [Entity -> Values \cup {NoBase}]
  BY <1>3, Here
<1> HIDE DEF r, b, y
<1>9. Sound(d, r, queue[d], b, conf[d], cursor[d], x, feed)
  BY <1>7, <1>8, Here, QueueSame, ConfSame, LocalStep
<1>10. Sound(d, r, queue[d], b, conf[d], cursor[d], y, feed)
  BY <1>1, <1>9, Halfway DEF y
<1>11. /\ queue' = Put(queue, d, queue[d]) /\ conf' = Put(conf, d, conf[d])
       /\ cursor' = Put(cursor, d, cursor[d]) /\ feed' = feed /\ srv' = srv
       /\ said' \in [Entity -> Content] /\ spent' \in Spent
  BY <1>1, Here DEF server
<1> QED
  BY <1>4, <1>5, <1>6, <1>10, <1>11, Locally

LEMMA QueueMergedStep ==
  ASSUME EngineInv, NEW d \in Device, QueueMerged(d)
  PROVE  EngineInv'
<1> DEFINE plan == eng[d].plan
           e == plan.ent
           n == Merged(plan.ver, plan.step.val, plan.remote.del)
           m == Requeued(queue[d], d, e, plan.ver, n)
           q == Answered(m, plan)
           c == [conf[d] EXCEPT ![e] = NoConflict]
<1>1. /\ eng[d].pc = "requeue" /\ queue' = Put(queue, d, q)
      /\ eng' = Put(eng, d, Resumed(eng[d])) /\ UNCHANGED <<row, base, cursor, server, spent, said>>
  BY DEF QueueMerged, Put
<1>2. Deciding(eng[d])
  BY <1>1 DEF Deciding
<1>3. plan.step.do = "merge"
  BY <1>1, <1>2, Here DEF Sound, PlanSound
<1>4. /\ e \in Entity /\ n \in LocalRow /\ plan.ver \in Nat /\ row[d][e] # NoRow
      /\ plan.from = "answer" => plan.id \in DOMAIN queue[d]
  BY <1>2, <1>3, PlanAtHand
<1>5. conf' = Put(conf, d, c)
  BY Here DEF QueueMerged, Put, TypeOK
<1> HIDE DEF n
<1>6. m \in Seq(QueuedOp) /\ QueueKept(row[d], queue[d], m) /\ DOMAIN queue[d] \subseteq DOMAIN m
  BY <1>4, Here, RequeuedOps
<1> HIDE DEF m
<1>7. QueueKept(row[d], queue[d], q) /\ (plan.from = "answer" => q[plan.id].status # "in_flight")
  <2>1. plan.from = "answer" => plan.id \in DOMAIN m
    BY <1>4, <1>6
  <2>2. queue[d] \in Seq(QueuedOp)
    BY Here
  <2> HIDE DEF plan
  <2> QED
    BY <1>6, <2>1, <2>2, AnsweredOps
<1>8. ConfKept(row[d], conf[d], c)
  BY <1>4, Here, ConfSame
<1>9. RowsKept(row[d], row[d]) /\ row' = Put(row, d, row[d]) /\ base' = Put(base, d, base[d])
      /\ base[d] \in [Entity -> Values \cup {NoBase}]
  BY <1>1, Here, RowsSame
<1>10. UNCHANGED <<cursor, server, spent, said>>
  BY <1>1
<1> HIDE DEF q, c
<1> QED
  BY <1>1, <1>2, <1>4, <1>5, <1>7, <1>8, <1>9, <1>10, CarriedOut

LEMMA ParkStep ==
  ASSUME EngineInv, NEW d \in Device, Park(d)
  PROVE  EngineInv'
<1> DEFINE plan == eng[d].plan
           e == plan.ent
           s == IF plan.step.do = "park" THEN "conflict" ELSE row[d][e].st
           n == [row[d][e] EXCEPT !.st = s]
           r == [row[d] EXCEPT ![e] = n]
           k == [remote |-> [val |-> plan.remote.val, del |-> plan.remote.del],
                 mine |-> [val |-> plan.step.val, del |-> row[d][e].del], ver |-> plan.ver]
           c == [conf[d] EXCEPT ![e] = k]
           q == Answered(queue[d], plan)
<1>1. /\ eng[d].pc = "decided" /\ plan.step.do # "insert" /\ queue' = Put(queue, d, q)
      /\ eng' = Put(eng, d, Resumed(eng[d])) /\ UNCHANGED <<base, cursor, server, spent, said>>
  BY DEF Park, Put
<1>2. Deciding(eng[d])
  BY <1>1 DEF Deciding
<1>3. /\ e \in Entity /\ plan.ver \in Nat /\ row[d][e] # NoRow /\ plan.step.val \in Values
      /\ plan.remote.val \in Values /\ plan.remote.del \in BOOLEAN
      /\ plan.from = "answer" => plan.id \in DOMAIN queue[d]
  BY <1>1, <1>2, PlanAtHand
<1>4. row[d][e] \in LocalRow
  BY <1>3, Here DEF Rows
<1>5. SetRow(d, e, n)
  BY <1>4 DEF Park, LocalRow
<1>6. conf' = Put(conf, d, c)
  BY Here DEF Park, Put, TypeOK
<1>7. n \in LocalRow
  BY <1>4 DEF LocalRow
<1>8. k \in OpenConflict
  BY <1>3, <1>4 DEF OpenConflict, Content, LocalRow
<1> HIDE DEF n, k
<1>9. row' = Put(row, d, r)
  BY <1>5, Here DEF SetRow, Put, Rows, TypeOK
<1>10. RowsKept(row[d], r) /\ r[e] # NoRow
  BY <1>3, <1>7, Here, RowWritten
<1>11. QueueKept(r, queue[d], q) /\ (plan.from = "answer" => q[plan.id].status # "in_flight")
  BY <1>3, Here, QueueSame, AnsweredOps
<1>12. ConfKept(r, conf[d], c)
  <2>1. conf[d] \in [Entity -> OpenConflict \cup {NoConflict}]
    BY Here
  <2> HIDE DEF r
  <2> QED
    BY <1>3, <1>8, <1>10, <2>1 DEF ConfKept
<1>13. base' = Put(base, d, base[d]) /\ base[d] \in [Entity -> Values \cup {NoBase}]
       /\ UNCHANGED <<cursor, server, spent, said>>
  BY <1>1, Here
<1> HIDE DEF r, c, q
<1> QED
  BY <1>1, <1>2, <1>6, <1>9, <1>10, <1>11, <1>12, <1>13, CarriedOut

-----------------------------------------------------------------------------
(* The theorems *)

LEMMA EngineInit ==
  ASSUME Init
  PROVE  EngineInv
<1>1. /\ IdleEngine \in EngineState /\ IdleEngine.pc = "idle" /\ IdleEngine.acks = <<>>
      /\ IdleEngine.batch = <<>> /\ IdleEngine.changes = {} /\ IdleEngine.next = 0
  BY DEF IdleEngine, EngineState
<1>2. \A d \in Device :
         /\ row[d] = [e \in Entity |-> NoRow] /\ queue[d] = <<>>
         /\ base[d] = [e \in Entity |-> NoBase] /\ conf[d] = [e \in Entity |-> NoConflict]
         /\ cursor[d] = 0 /\ eng[d] = IdleEngine
  BY DEF Init
<1>3. <<>> \in Seq(QueuedOp) /\ <<>> \in Seq(FeedEntry) /\ Len(<<>>) = 0 /\ DOMAIN <<>> = {}
  OBVIOUS
<1>4. feed = <<>>
  BY DEF Init
<1>5. [e \in Entity |-> [val |-> [f \in Field |-> 0], del |-> FALSE]] \in [Entity -> Content]
  BY EngineAssumption DEF Content, Values
<1>6. TypeOK
  BY <1>1, <1>3, <1>5 DEF Init, TypeOK, Rows
<1>7. spent \in Spent
  BY EngineAssumption DEF Init, Spent
<1>8. ASSUME NEW d \in Device
      PROVE  Sound(d, row[d], queue[d], base[d], conf[d], cursor[d], eng[d], feed)
  <2>1. LocalTyped(row[d], queue[d], base[d], conf[d], cursor[d], eng[d])
    BY <1>6, Alike DEF LocalTyped
  <2>2. ~Answering(eng[d]) /\ ~Deciding(eng[d]) /\ ~Applying(eng[d]) /\ eng[d].pc # "push"
    BY <1>1, <1>2 DEF Answering, Deciding, Applying
  <2>3. HasRows(row[d], queue[d], conf[d])
    BY <1>2, <1>3 DEF HasRows
  <2>4. BatchSound(queue[d], eng[d]) /\ Awaited(queue[d], eng[d]) /\ PlanSound(row[d], eng[d], feed)
    BY <1>1, <1>2, <1>3, <2>2 DEF BatchSound, Awaited, PlanSound
  <2>5. CursorSound(d, row[d], cursor[d], eng[d], feed)
    BY <1>1, <1>2, <1>3, <1>4, <2>2 DEF CursorSound
  <2> QED
    BY <2>1, <2>3, <2>4, <2>5 DEF Sound
<1> QED
  BY <1>6, <1>7, <1>8 DEF EngineInv

LEMMA EngineNext ==
  ASSUME EngineInv, [Next]_vars
  PROVE  EngineInv'
<1>1. CASE UNCHANGED vars
  BY <1>1 DEF vars, EngineInv, TypeOK
<1>2. ASSUME NEW d \in Device, User(d) PROVE EngineInv'
  BY <1>2, CreateStep, DeleteStep, KeepLocalStep, KeepRemoteStep, KeepMergedStep, EditStep DEF User
<1>3. ASSUME NEW d \in Device, StartCycle(d) PROVE EngineInv'
  BY <1>3, StartCycleStep
<1>4. ASSUME NEW d \in Device, Execute(d) PROVE EngineInv'
  BY <1>4, InsertRemoteStep, WriteRemoteStep, WriteMergedRowStep, QueueMergedStep, ParkStep DEF Execute
<1>5. ASSUME NEW d \in Device, Engine(d) PROVE EngineInv'
  BY <1>4, <1>5, ServerPushStep, AckAppliedStep, AckConflictStep, EndPushStep, ServerPullStep,
     ApplyChangeStep, EndPullStep DEF Engine
<1>6. ASSUME NEW d \in Device, Failure(d) PROVE EngineInv'
  BY <1>6, PushFailsStep, PullFailsStep, CrashStep, CrashInEditStep DEF Failure
<1> QED
  BY <1>1, <1>2, <1>3, <1>5, <1>6 DEF Next

LEMMA EngineAlways == Spec => []EngineInv
<1>1. Init => EngineInv
  BY EngineInit
<1>2. EngineInv /\ [Next]_vars => EngineInv'
  BY EngineNext
<1> QED
  BY <1>1, <1>2, PTL DEF Spec

(* No operation is stuck in flight: whatever crashes, resets, lost answers *)
(* and edits came between, an operation that is in_flight is one whose     *)
(* answer the engine still waits for or still has to look at, so that no   *)
(* cycle passes over it for good (SyncEngine.push, resetInFlight).         *)
THEOREM EngineSafety == Spec => []InFlightIsSound
<1>1. EngineInv => InFlightIsSound
  BY DEF EngineInv, Sound, Awaited, InFlightIsSound, InFlightIsAwaited
<1> QED
  BY <1>1, EngineAlways, PTL

(* The cursor is stored whatever became of the changes of a page, and is   *)
(* never wrong: what lies before it is in the local database, whatever the *)
(* limit of a page is and however the device's own entries are passed over *)
(* (pullChanges, SyncStore.pull).                                          *)
THEOREM CursorSafety == Spec => []CursorMeansApplied
<1>1. EngineInv => CursorMeansApplied
  BY DEF EngineInv, Sound, CursorSound, Known, CursorMeansApplied
<1> QED
  BY <1>1, EngineAlways, PTL
-----------------------------------------------------------------------------
(* Unsent changes and open questions                                       *)
(*                                                                         *)
(* A row that waits to be sent has an operation in the queue that is not   *)
(* done with, and an operation that waits for the user has its conflict    *)
(* open.  Between two steps the engine may hold what these rest on in its  *)
(* acks and its decision: a merge is only decided for what is queued, and  *)
(* the acks that are left are those of operations whose entity still has   *)
(* something in the queue.                                                 *)

Unsent(q, e) == \E i \in DOMAIN q : q[i].ent = e /\ q[i].status # "synchronized"

(* Without a base nothing is merged: such a conflict waits for a new edit. *)
RowsQueued(r, q, b) ==
    \A e \in Entity : r[e] # NoRow =>
        /\ r[e].st = "pending" => Unsent(q, e)
        /\ r[e].st = "conflict" => Unsent(q, e) \/ b[e] = NoBase

PlanQueued(q, b, x) ==
    Deciding(x) =>
        /\ x.plan.step.do = "merge" => Unsent(q, x.plan.ent)
        /\ x.plan.step.do = "park" /\ b[x.plan.ent] # NoBase =>
              IF x.plan.from = "answer" THEN x.plan.step.ask ELSE Unsent(q, x.plan.ent)
        /\ x.plan.step.do = "parkDelete" => x.plan.step.ask

AcksQueued(q, x) ==
    /\ \A k, l \in DOMAIN x.batch : x.batch[k] = x.batch[l] => k = l
    /\ \A k, l \in DOMAIN x.acks : x.acks[k].id = x.acks[l].id => k = l
    /\ x.pc = "push" => \A k \in DOMAIN x.batch : q[x.batch[k]].status # "synchronized"
    /\ \A k \in DOMAIN x.acks :
          \E i \in DOMAIN q :
             /\ q[i].ent = q[x.acks[k].id].ent /\ q[i].status # "synchronized"
             /\ i = x.acks[k].id \/ \A l \in DOMAIN x.acks : x.acks[l].id # i

Remembered(r, q, b, x) == RowsQueued(r, q, b) /\ PlanQueued(q, b, x) /\ AcksQueued(q, x)

Asked(q, c, x) ==
    /\ \A i \in DOMAIN q : q[i].status = "conflict" =>
          c[q[i].ent] # NoConflict /\ q[i].ent \in Critical
    /\ Deciding(x) =>
          /\ x.plan.from = "answer" => q[x.plan.id].ent = x.plan.ent
          /\ x.plan.step.ask => x.plan.step.do \in {"park", "parkDelete"} /\ x.plan.ent \in Critical
          /\ x.plan.step.do = "remote" /\ x.plan.closes => x.plan.ent \notin Critical

(* Until the user decides a conflict, or an edit is torn. *)
QueueInv ==
    \A d \in Device : spent.choices = 0 =>
        /\ Asked(queue[d], conf[d], eng[d])
        /\ spent.torn = 0 => Remembered(row[d], queue[d], base[d], eng[d])

(* A step of one device. *)
LEMMA QueueStep ==
  ASSUME EngineInv, QueueInv, NEW d \in Device, NEW r, NEW q, NEW b, NEW c, NEW x,
         row' = Put(row, d, r), queue' = Put(queue, d, q), base' = Put(base, d, b),
         conf' = Put(conf, d, c), eng' = Put(eng, d, x),
         spent'.choices = 0 => spent.choices = 0, spent'.torn = 0 => spent.torn = 0,
         spent'.choices = 0 => Asked(q, c, x),
         spent'.choices = 0 /\ spent'.torn = 0 => Remembered(r, q, b, x)
  PROVE  QueueInv'
<1>1. /\ row'[d] = r /\ queue'[d] = q /\ base'[d] = b /\ conf'[d] = c /\ eng'[d] = x
      /\ \A d2 \in Device : d2 # d =>
            /\ row'[d2] = row[d2] /\ queue'[d2] = queue[d2] /\ base'[d2] = base[d2]
            /\ conf'[d2] = conf[d2] /\ eng'[d2] = eng[d2]
  BY DEF EngineInv, TypeOK, Put
<1>2. ASSUME NEW d2 \in Device, spent'.choices = 0
      PROVE  /\ Asked(queue'[d2], conf'[d2], eng'[d2])
             /\ spent'.torn = 0 => Remembered(row'[d2], queue'[d2], base'[d2], eng'[d2])
  <2>1. CASE d2 = d
    BY <1>1, <1>2, <2>1
  <2>2. CASE d2 # d
    BY <1>1, <1>2, <2>2 DEF QueueInv
  <2> QED
    BY <2>1, <2>2
<1> QED
  BY <1>2 DEF QueueInv

(* The operations of q that are not done with, but those of S, are so in   *)
(* q2 or have a successor there.                                           *)
Carried(q, q2, S) ==
    /\ DOMAIN q \subseteq DOMAIN q2 /\ \A i \in DOMAIN q : q2[i].ent = q[i].ent
    /\ \A i \in DOMAIN q \ S : q[i].status # "synchronized" =>
          \/ q2[i].status # "synchronized"
          \/ \E j \in DOMAIN q2 \ DOMAIN q : q2[j].ent = q[i].ent /\ q2[j].status # "synchronized"

LEMMA CarriedUnsent ==
  ASSUME NEW q, NEW q2, NEW S, Carried(q, q2, S), NEW e, Unsent(q, e),
         \A i \in S : i \in DOMAIN q => q[i].ent # e
  PROVE  Unsent(q2, e)
<1>1. PICK i \in DOMAIN q : q[i].ent = e /\ q[i].status # "synchronized"
  BY DEF Unsent
<1>2. i \notin S
  BY <1>1
<1> QED
  BY <1>1, <1>2 DEF Carried, Unsent

(* The first ack is done with. *)
LEMMA AcksAdvance ==
  ASSUME NEW q, NEW q2, NEW x, NEW y, x.acks \in Seq(Ack), x.acks # <<>>, AcksQueued(q, x),
         \A k \in DOMAIN x.acks : x.acks[k].id \in DOMAIN q,
         Carried(q, q2, {Head(x.acks).id}),
         y.acks = Tail(x.acks), y.batch = x.batch, y.pc # "push"
  PROVE  AcksQueued(q2, y)
<1> DEFINE a == x.acks
           n == Len(a)
<1>1. n \in Nat /\ n > 0 /\ DOMAIN a = 1..n /\ Head(a) = a[1]
  OBVIOUS
<1>2. DOMAIN y.acks = 1..(n - 1) /\ \A k \in 1..(n - 1) : y.acks[k] = a[k + 1]
  BY <1>1
<1>3. \A k \in 1..(n - 1) : k + 1 \in 1..n /\ k + 1 # 1
  BY <1>1
<1> HIDE DEF a, n
<1>4. ASSUME NEW k \in DOMAIN y.acks, NEW l \in DOMAIN y.acks, y.acks[k].id = y.acks[l].id PROVE k = l
  <2>1. k \in 1..(n - 1) /\ l \in 1..(n - 1) /\ a[k + 1].id = a[l + 1].id
    BY <1>2, <1>4
  <2>2. k + 1 = l + 1
    BY <1>1, <1>3, <2>1 DEF AcksQueued, a
  <2> QED
    BY <1>1, <2>1, <2>2
<1>5. ASSUME NEW k \in DOMAIN y.acks
      PROVE  \E i \in DOMAIN q2 :
                /\ q2[i].ent = q2[y.acks[k].id].ent /\ q2[i].status # "synchronized"
                /\ i = y.acks[k].id \/ \A l \in DOMAIN y.acks : y.acks[l].id # i
  <2>1. k \in 1..(n - 1) /\ k + 1 \in DOMAIN a /\ k + 1 # 1 /\ 1 \in DOMAIN a
    BY <1>1, <1>2, <1>3
  <2>2. y.acks[k] = a[k + 1] /\ a[k + 1].id # a[1].id /\ a[k + 1].id \in DOMAIN q
    BY <1>2, <2>1 DEF AcksQueued, a
  <2>3. PICK i \in DOMAIN q : /\ q[i].ent = q[a[k + 1].id].ent /\ q[i].status # "synchronized"
                              /\ i = a[k + 1].id \/ \A l \in DOMAIN a : a[l].id # i
    BY <2>1 DEF AcksQueued, a
  <2>4. i # a[1].id
    BY <2>1, <2>2, <2>3
  <2>5. \A l \in DOMAIN y.acks : \E m \in DOMAIN a : y.acks[l] = a[m]
    BY <1>1, <1>2, <1>3
  <2>6. CASE q2[i].status # "synchronized"
    <3>1. q2[i].ent = q2[y.acks[k].id].ent /\ i \in DOMAIN q2
      BY <2>2, <2>3 DEF Carried
    <3>2. i = y.acks[k].id \/ \A l \in DOMAIN y.acks : y.acks[l].id # i
      BY <2>2, <2>3, <2>5
    <3> QED
      BY <2>6, <3>1, <3>2
  <2>7. CASE q2[i].status = "synchronized"
    <3>1. PICK j \in DOMAIN q2 \ DOMAIN q : q2[j].ent = q[i].ent /\ q2[j].status # "synchronized"
      BY <1>1, <2>3, <2>4, <2>7 DEF Carried, a
    <3>2. q2[j].ent = q2[y.acks[k].id].ent
      BY <2>2, <2>3, <3>1 DEF Carried
    <3>3. \A l \in DOMAIN y.acks : y.acks[l].id \in DOMAIN q
      BY <2>5 DEF a
    <3>4. \A l \in DOMAIN y.acks : y.acks[l].id # j
      BY <3>1, <3>3
    <3> QED
      BY <3>1, <3>2, <3>4
  <2> QED
    BY <2>6, <2>7
<1> QED
  BY <1>4, <1>5 DEF AcksQueued

(* What stands on the queue stands on one that carries it on. *)
LEMMA RowsCarried ==
  ASSUME NEW r, NEW q, NEW b, NEW r2, NEW q2, NEW b2, NEW S, NEW e,
         RowsQueued(r, q, b), Carried(q, q2, S), \A i \in S : i \in DOMAIN q => q[i].ent = e,
         \A e2 \in Entity : e2 # e => r2[e2] = r[e2] /\ b2[e2] = b[e2],
         r2[e] # NoRow =>
            /\ r2[e].st = "pending" => Unsent(q2, e)
            /\ r2[e].st = "conflict" => Unsent(q2, e) \/ b2[e] = NoBase
  PROVE  RowsQueued(r2, q2, b2)
<1>1. ASSUME NEW e2 \in Entity, e2 # e, Unsent(q, e2) PROVE Unsent(q2, e2)
  BY <1>1, CarriedUnsent
<1> QED
  BY <1>1 DEF RowsQueued

(* What is spent of one bound is not spent of another. *)
LEMMA SpentElsewhere ==
  ASSUME spent \in Spent, NEW what \in {"edits", "faults", "crashes", "torn", "choices"}, Spend(what)
  PROVE  /\ what # "choices" => spent'.choices = spent.choices
         /\ what # "torn" => spent'.torn = spent.torn
         /\ what = "choices" => spent'.choices # 0
<1>1. spent' = [spent EXCEPT ![what] = spent[what] + 1]
  BY DEF Spend
<1>2. spent.choices \in Nat /\ spent \in [{"edits", "faults", "crashes", "torn", "choices"} -> Nat]
  BY EngineAssumption DEF Spent
<1> QED
  BY <1>1, <1>2

LEMMA AppendCarries ==
  ASSUME NEW q \in Seq(QueuedOp), NEW op \in QueuedOp, op.status = "pending"
  PROVE  /\ Carried(q, Append(q, op), {}) /\ Unsent(Append(q, op), op.ent)
         /\ \A i \in DOMAIN q : Append(q, op)[i] = q[i]
         /\ \A i \in DOMAIN Append(q, op) \ DOMAIN q : Append(q, op)[i] = op
<1> DEFINE q2 == Append(q, op)
<1>1. /\ DOMAIN q = 1..Len(q) /\ DOMAIN q2 = 1..(Len(q) + 1) /\ Len(q) \in Nat
      /\ \A i \in 1..Len(q) : q2[i] = q[i]
      /\ q2[Len(q) + 1] = op
  OBVIOUS
<1> HIDE DEF q2
<1>2. Unsent(q2, op.ent)
  <2>1. Len(q) + 1 \in DOMAIN q2
    BY <1>1
  <2> QED
    BY <1>1, <2>1 DEF Unsent
<1>3. \A i \in DOMAIN q2 \ DOMAIN q : i = Len(q) + 1
  BY <1>1
<1>4. Carried(q, q2, {})
  BY <1>1 DEF Carried
<1> QED
  BY <1>1, <1>2, <1>3, <1>4 DEF q2

(* Where the acks and the batch point to. *)
LEMMA Pointers ==
  ASSUME EngineInv, NEW d \in Device
  PROVE  /\ \A k \in DOMAIN eng[d].batch : eng[d].batch[k] \in DOMAIN queue[d]
         /\ \A k \in DOMAIN eng[d].acks : eng[d].acks[k].id \in DOMAIN queue[d]
         /\ eng[d].acks \in Seq(Ack) /\ eng[d].batch \in Seq(Nat)
         /\ ~Answering(eng[d]) => eng[d].acks = <<>>
BY Here DEF Sound, BatchSound, EngineState

(* The user adds a change to the queue. *)
LEMMA Queueing ==
  ASSUME EngineInv, QueueInv, NEW d \in Device, NEW e \in Entity, NEW n \in LocalRow, n.st = "pending",
         NEW op \in QueuedOp, op.ent = e, op.status = "pending",
         SetRow(d, e, n), Enqueue(d, op), Spend("edits"), UNCHANGED <<base, conf, eng>>
  PROVE  QueueInv'
<1> DEFINE r == [row[d] EXCEPT ![e] = n]
           q == queue[d]
           q2 == Append(q, op)
           b == base[d]
           c == conf[d]
           x == eng[d]
<1>1. row' = Put(row, d, r)
  BY Here DEF SetRow, Put, Rows, TypeOK
<1>2. queue' = Put(queue, d, q2)
  BY Here DEF Enqueue, Put, TypeOK
<1>3. base' = Put(base, d, b) /\ conf' = Put(conf, d, c) /\ eng' = Put(eng, d, x)
  BY Here
<1>4. spent'.choices = spent.choices /\ spent'.torn = spent.torn
  BY Here, SpentElsewhere
<1>5. q \in Seq(QueuedOp) /\ row[d] \in Rows
  BY Here
<1>6. r[e] = n /\ \A e2 \in Entity : e2 # e => r[e2] = row[d][e2]
  BY <1>5 DEF Rows
<1> HIDE DEF q
<1>7. /\ Carried(q, q2, {}) /\ Unsent(q2, e)
      /\ \A i \in DOMAIN q : q2[i] = q[i]
      /\ \A i \in DOMAIN q2 \ DOMAIN q : q2[i] = op
  BY <1>5, AppendCarries
<1> HIDE DEF r, q2
<1>8. /\ \A k \in DOMAIN x.batch : x.batch[k] \in DOMAIN q
      /\ \A k \in DOMAIN x.acks : x.acks[k].id \in DOMAIN q
  BY Pointers DEF q
<1>9. Deciding(x) /\ x.plan.from = "answer" => x.plan.id \in DOMAIN q
  BY PlanAtHand DEF q
<1>10. ASSUME spent.choices = 0 PROVE Asked(q2, c, x)
  <2>1. Asked(q, c, x)
    BY <1>10 DEF QueueInv, q
  <2>2. \A i \in DOMAIN q2 : q2[i].status = "conflict" => i \in DOMAIN q
    BY <1>7
  <2>3. \A i \in DOMAIN q2 : q2[i].status = "conflict" => c[q2[i].ent] # NoConflict /\ q2[i].ent \in Critical
    BY <1>7, <2>1, <2>2 DEF Asked
  <2>4. Deciding(x) /\ x.plan.from = "answer" => q2[x.plan.id].ent = x.plan.ent
    BY <1>7, <1>9, <2>1 DEF Asked
  <2> HIDE DEF x, c
  <2> QED
    BY <2>1, <2>3, <2>4 DEF Asked
<1>11. ASSUME spent.choices = 0, spent.torn = 0 PROVE Remembered(r, q2, b, x)
  <2>1. Remembered(row[d], q, b, x)
    BY <1>11 DEF QueueInv, q
  <2>2. RowsQueued(r, q2, b)
    <3>1. RowsQueued(row[d], q, b)
      BY <2>1 DEF Remembered
    <3>2. Carried(q, q2, {}) /\ (r[e].st = "pending" => Unsent(q2, e)) /\ r[e].st # "conflict"
      BY <1>6, <1>7
    <3> HIDE DEF b
    <3> QED
      BY <1>6, <3>1, <3>2, RowsCarried
  <2>3. PlanQueued(q2, b, x)
    <3>1. \A e2 : Unsent(q, e2) => Unsent(q2, e2)
      BY <1>7, CarriedUnsent
    <3>2. PlanQueued(q, b, x)
      BY <2>1 DEF Remembered
    <3> HIDE DEF b, x
    <3> QED
      BY <3>1, <3>2 DEF PlanQueued
  <2>4. AcksQueued(q2, x)
    <3>1. AcksQueued(q, x)
      BY <2>1 DEF Remembered
    <3>2. DOMAIN q \subseteq DOMAIN q2
      BY <1>7 DEF Carried
    <3> HIDE DEF x
    <3>3. ASSUME NEW k \in DOMAIN x.acks
          PROVE  \E i \in DOMAIN q2 :
                    /\ q2[i].ent = q2[x.acks[k].id].ent /\ q2[i].status # "synchronized"
                    /\ i = x.acks[k].id \/ \A l \in DOMAIN x.acks : x.acks[l].id # i
      <4>1. PICK i \in DOMAIN q : /\ q[i].ent = q[x.acks[k].id].ent /\ q[i].status # "synchronized"
                                  /\ i = x.acks[k].id \/ \A l \in DOMAIN x.acks : x.acks[l].id # i
        BY <3>1 DEF AcksQueued
      <4>2. i \in DOMAIN q2 /\ q2[i] = q[i] /\ q2[x.acks[k].id] = q[x.acks[k].id]
        BY <1>7, <1>8, <3>2
      <4> QED
        BY <4>1, <4>2
    <3>4. x.pc = "push" => \A k \in DOMAIN x.batch : q2[x.batch[k]].status # "synchronized"
      BY <1>7, <1>8, <3>1 DEF AcksQueued
    <3> QED
      BY <3>1, <3>3, <3>4 DEF AcksQueued
  <2> QED
    BY <2>2, <2>3, <2>4 DEF Remembered
<1> HIDE DEF b, c, x
<1> QED
  BY <1>1, <1>2, <1>3, <1>4, <1>10, <1>11, QueueStep

LEMMA QueueCreate ==
  ASSUME EngineInv, QueueInv, NEW d \in Device, NEW e \in Entity, Create(d, e)
  PROVE  QueueInv'
<1> DEFINE n == [ver |-> 1, val |-> [f \in Field |-> 0], del |-> FALSE, st |-> "pending"]
           op == OpOf(e, "create", 0, n, FALSE)
<1>1. SetRow(d, e, n) /\ Enqueue(d, op) /\ Spend("edits") /\ UNCHANGED <<base, conf, eng>>
  BY DEF Create
<1>2. n \in LocalRow /\ n.st = "pending"
  BY EngineAssumption DEF LocalRow, Values
<1> HIDE DEF n
<1>3. op \in QueuedOp /\ op.ent = e /\ op.status = "pending"
  BY <1>2, OpTyped
<1> HIDE DEF op
<1> QED
  BY <1>1, <1>2, <1>3, Queueing

LEMMA QueueUpdate ==
  ASSUME EngineInv, QueueInv, NEW d \in Device, NEW e \in Entity, NEW n \in LocalRow, n.st = "pending",
         row[d][e] # NoRow, Update(d, e, n), Spend("edits"), UNCHANGED <<base, conf, eng>>
  PROVE  QueueInv'
<1> DEFINE op == OpOf(e, "update", row[d][e].ver, n, FALSE)
<1>1. SetRow(d, e, n) /\ Enqueue(d, op)
  BY DEF Update
<1>2. row[d][e].ver \in Nat
  BY Here DEF Rows, LocalRow
<1>3. op \in QueuedOp /\ op.ent = e /\ op.status = "pending"
  BY <1>2, OpTyped
<1> HIDE DEF op
<1> QED
  BY <1>1, <1>3, Queueing

LEMMA QueueEdit ==
  ASSUME EngineInv, QueueInv, NEW d \in Device, NEW e \in Entity, NEW f \in Field, Edit(d, e, f)
  PROVE  QueueInv'
<1> DEFINE n == Bumped(row[d][e], [row[d][e].val EXCEPT ![f] = spent.edits + 1], FALSE)
<1>1. n \in LocalRow /\ row[d][e] # NoRow
  BY Here, EditedRow DEF Edit, MayAct
<1>2. n.st = "pending"
  BY DEF Bumped
<1>3. Update(d, e, n) /\ Spend("edits") /\ UNCHANGED <<base, conf, eng>>
  BY DEF Edit
<1> HIDE DEF n
<1> QED
  BY <1>1, <1>2, <1>3, QueueUpdate

LEMMA QueueDelete ==
  ASSUME EngineInv, QueueInv, NEW d \in Device, NEW e \in Entity, Delete(d, e)
  PROVE  QueueInv'
<1> DEFINE n == Bumped(row[d][e], row[d][e].val, TRUE)
<1>1. row[d][e] # NoRow
  BY DEF Delete, Visible
<1>2. row[d][e] \in LocalRow /\ row[d][e].val \in Values
  BY <1>1, Here DEF Rows, LocalRow
<1>3. n \in LocalRow
  BY <1>2, BumpedRow
<1>4. n.st = "pending"
  BY DEF Bumped
<1>5. Update(d, e, n) /\ Spend("edits") /\ UNCHANGED <<base, conf, eng>>
  BY DEF Delete
<1> HIDE DEF n
<1> QED
  BY <1>1, <1>3, <1>4, <1>5, QueueUpdate

(* Once the user decides, nothing more is said. *)
LEMMA QueueDecision ==
  ASSUME EngineInv, NEW d \in Device, NEW e \in Entity, KeepLocal(d, e) \/ KeepRemote(d, e) \/ KeepMerged(d, e)
  PROVE  QueueInv'
<1>1. Spend("choices")
  BY DEF KeepLocal, KeepRemote, KeepMerged
<1>2. spent'.choices # 0
  BY <1>1, Here, SpentElsewhere
<1> QED
  BY <1>2 DEF QueueInv

(* No decision is pending, what was not done with is still not, and no     *)
(* operation waits for the user that did not before.                       *)
LEMMA Turned ==
  ASSUME EngineInv, QueueInv, NEW d \in Device, NEW r, NEW q, NEW y, DOMAIN q = DOMAIN queue[d],
         \A i \in DOMAIN q :
            /\ q[i].ent = queue[d][i].ent
            /\ q[i].status = "synchronized" => queue[d][i].status = "synchronized"
            /\ q[i].status = "conflict" => queue[d][i].status = "conflict",
         ~Deciding(y), spent.choices = 0 /\ spent.torn = 0 => AcksQueued(q, y),
         row' = Put(row, d, r), queue' = Put(queue, d, q), eng' = Put(eng, d, y),
         UNCHANGED <<base, conf>>, spent'.torn = 0 => r = row[d],
         spent'.choices = 0 => spent.choices = 0, spent'.torn = 0 => spent.torn = 0
  PROVE  QueueInv'
<1> DEFINE b == base[d]
           c == conf[d]
<1>1. base' = Put(base, d, b) /\ conf' = Put(conf, d, c)
  BY Here
<1>2. ASSUME spent.choices = 0 PROVE Asked(q, c, y)
  <2>1. Asked(queue[d], c, eng[d])
    BY <1>2 DEF QueueInv
  <2> HIDE DEF c
  <2>2. \A i \in DOMAIN q : q[i].status = "conflict" => c[q[i].ent] # NoConflict /\ q[i].ent \in Critical
    BY <2>1 DEF Asked
  <2> QED
    BY <2>2 DEF Asked
<1>3. ASSUME spent.choices = 0, spent.torn = 0 PROVE Remembered(row[d], q, b, y)
  <2>1. RowsQueued(row[d], queue[d], b)
    BY <1>3 DEF QueueInv, Remembered
  <2>2. \A e : Unsent(queue[d], e) => Unsent(q, e)
    BY DEF Unsent
  <2> HIDE DEF b
  <2>3. RowsQueued(row[d], q, b)
    BY <2>1, <2>2 DEF RowsQueued
  <2>4. PlanQueued(q, b, y)
    BY DEF PlanQueued
  <2> QED
    BY <1>3, <2>3, <2>4 DEF Remembered
<1> HIDE DEF b, c
<1> QED
  BY <1>1, <1>2, <1>3, QueueStep

(* The queue is left alone and the acks are gone. *)
LEMMA AcksGone ==
  ASSUME NEW q, NEW y, y.acks = <<>>, y.pc # "push",
         \A k, l \in DOMAIN y.batch : y.batch[k] = y.batch[l] => k = l
  PROVE  AcksQueued(q, y)
<1>1. DOMAIN y.acks = {}
  OBVIOUS
<1> QED
  BY <1>1 DEF AcksQueued

LEMMA IdleQueued ==
  ASSUME NEW q
  PROVE  AcksQueued(q, IdleEngine) /\ ~Deciding(IdleEngine)
<1>1. IdleEngine.acks = <<>> /\ IdleEngine.batch = <<>> /\ IdleEngine.pc = "idle"
  BY DEF IdleEngine
<1>2. DOMAIN IdleEngine.batch = {}
  BY <1>1
<1> QED
  BY <1>1, <1>2, AcksGone DEF Deciding

LEMMA SettledQueued ==
  ASSUME NEW q, NEW y, y.pc \notin {"decided", "requeue"}, AcksQueued(q, y)
  PROVE  AcksQueued(q, Settled(y)) /\ ~Deciding(Settled(y))
BY IdleQueued DEF Settled, Deciding

(* What was in flight waits again. *)
LEMMA ResetQueue ==
  ASSUME NEW q \in Seq(QueuedOp)
  PROVE  /\ DOMAIN Reset(q) = DOMAIN q
         /\ \A i \in DOMAIN Reset(q) :
               /\ Reset(q)[i].ent = q[i].ent
               /\ Reset(q)[i].status = "synchronized" => q[i].status = "synchronized"
               /\ Reset(q)[i].status = "conflict" => q[i].status = "conflict"
<1> DEFINE S == {i \in DOMAIN q : q[i].status = "in_flight"}
           m == Marked(q, S, "pending")
<1>1. /\ m \in Seq(QueuedOp) /\ Len(m) = Len(q)
      /\ \A i \in DOMAIN q : m[i].ent = q[i].ent /\ m[i].status = IF i \in S THEN "pending" ELSE q[i].status
  BY MarkedOps DEF Live
<1>2. m = Reset(q)
  BY DEF Reset
<1> HIDE DEF m, S
<1>3. DOMAIN m = DOMAIN q
  BY <1>1
<1> QED
  BY <1>1, <1>2, <1>3

LEMMA QueueCrash ==
  ASSUME EngineInv, QueueInv, NEW d \in Device, Crash(d)
  PROVE  QueueInv'
<1> DEFINE q == Reset(queue[d])
<1>1. /\ row' = Put(row, d, row[d]) /\ queue' = Put(queue, d, q)
      /\ eng' = Put(eng, d, IdleEngine) /\ UNCHANGED <<base, conf>> /\ Spend("crashes")
  BY Here DEF Crash, Restart, Put
<1>2. spent'.choices = spent.choices /\ spent'.torn = spent.torn
  BY <1>1, Here, SpentElsewhere
<1>3. /\ DOMAIN q = DOMAIN queue[d]
      /\ \A i \in DOMAIN q :
            /\ q[i].ent = queue[d][i].ent
            /\ q[i].status = "synchronized" => queue[d][i].status = "synchronized"
            /\ q[i].status = "conflict" => queue[d][i].status = "conflict"
  BY Here, ResetQueue
<1>4. AcksQueued(q, IdleEngine) /\ ~Deciding(IdleEngine)
  BY IdleQueued
<1> HIDE DEF q
<1> QED
  BY <1>1, <1>2, <1>3, <1>4, Turned

(* A torn edit: the row waits and nothing is queued for it. *)
LEMMA QueueCrashInEdit ==
  ASSUME EngineInv, QueueInv, NEW d \in Device, NEW e \in Entity, NEW f \in Field, CrashInEdit(d, e, f)
  PROVE  QueueInv'
<1> DEFINE n == Bumped(row[d][e], [row[d][e].val EXCEPT ![f] = spent.edits + 1], FALSE)
           r == [row[d] EXCEPT ![e] = n]
           q == Reset(queue[d])
<1>1. /\ SetRow(d, e, n) /\ queue' = Put(queue, d, q)
      /\ eng' = Put(eng, d, IdleEngine) /\ UNCHANGED <<base, conf>>
      /\ spent' = [spent EXCEPT !.edits = spent.edits + 1, !.torn = spent.torn + 1]
  BY DEF CrashInEdit, Restart, Put
<1> HIDE DEF n
<1>2. row' = Put(row, d, r)
  BY <1>1, Here DEF SetRow, Put, Rows, TypeOK
<1>3. spent'.choices = spent.choices /\ spent'.torn # 0
  <2>1. spent \in Spent /\ spent.torn \in Nat
    BY Here DEF Spent
  <2>2. spent'.torn = spent.torn + 1 /\ spent'.choices = spent.choices
    BY <1>1, <2>1 DEF Spent
  <2> QED
    BY <2>1, <2>2
<1>4. /\ DOMAIN q = DOMAIN queue[d]
      /\ \A i \in DOMAIN q :
            /\ q[i].ent = queue[d][i].ent
            /\ q[i].status = "synchronized" => queue[d][i].status = "synchronized"
            /\ q[i].status = "conflict" => queue[d][i].status = "conflict"
  BY Here, ResetQueue
<1>5. AcksQueued(q, IdleEngine) /\ ~Deciding(IdleEngine)
  BY IdleQueued
<1> HIDE DEF r, q
<1> QED
  BY <1>1, <1>2, <1>3, <1>4, <1>5, Turned

(* A push begins: the batch names every operation once, and all of them    *)
(* are in flight.                                                          *)
LEMMA SentQueued ==
  ASSUME NEW q \in Seq(QueuedOp), NEW x \in EngineState, x.acks = <<>>, NEW pass \in {1, 2}
  PROVE  /\ DOMAIN Sent(q) = DOMAIN q
         /\ \A i \in DOMAIN Sent(q) :
               /\ Sent(q)[i].ent = q[i].ent
               /\ Sent(q)[i].status = "synchronized" => q[i].status = "synchronized"
               /\ Sent(q)[i].status = "conflict" => q[i].status = "conflict"
         /\ AcksQueued(Sent(q), Settled(Started(x, q, pass)))
         /\ ~Deciding(Settled(Started(x, q, pass)))
<1> DEFINE batch == Batch(q)
           sent == {batch[i] : i \in DOMAIN batch}
           m == Marked(q, sent, "in_flight")
           y == Started(x, q, pass)
<1>1. /\ m \in Seq(QueuedOp) /\ Len(m) = Len(q)
      /\ \A i \in DOMAIN q : m[i].ent = q[i].ent /\ m[i].status = IF i \in sent THEN "in_flight" ELSE q[i].status
  BY MarkedOps DEF Live
<1>2. m = Sent(q)
  BY DEF Sent
<1>3. /\ batch \in Seq(Nat)
      /\ \A k \in DOMAIN batch : batch[k] \in Waiting(q) /\ Ahead(q, batch[k]) = k - 1
  BY BatchIsWaiting
<1>4. \A k \in DOMAIN batch : batch[k] \in DOMAIN q /\ batch[k] \in sent
  BY <1>3 DEF Waiting
<1>5. /\ y.batch = batch /\ y.acks = <<>>
      /\ y.pc = IF batch = <<>> THEN AfterPush(pass) ELSE "push"
  BY <1>3 DEF Started, EngineState
<1>6. AfterPush(pass) \in {"pull", "idle"}
  BY DEF AfterPush
<1>7. \A k, l \in DOMAIN batch : batch[k] = batch[l] => k = l
  <2> SUFFICES ASSUME NEW k \in DOMAIN batch, NEW l \in DOMAIN batch, batch[k] = batch[l] PROVE k = l
    OBVIOUS
  <2>1. k - 1 = l - 1
    BY <1>3
  <2>2. k \in Nat /\ l \in Nat
    BY <1>3
  <2> HIDE DEF batch
  <2> QED
    BY <2>1, <2>2
<1> HIDE DEF m, sent, batch, y
<1>8. DOMAIN m = DOMAIN q
  BY <1>1
<1>9. AcksQueued(m, y)
  <2>1. DOMAIN y.acks = {}
    BY <1>5
  <2> QED
    BY <1>1, <1>4, <1>5, <1>7, <2>1 DEF AcksQueued
<1>10. y.pc \notin {"decided", "requeue"}
  BY <1>5, <1>6
<1>11. AcksQueued(m, Settled(y)) /\ ~Deciding(Settled(y))
  BY <1>9, <1>10, SettledQueued
<1> QED
  BY <1>1, <1>2, <1>8, <1>11 DEF y

LEMMA QueueStartCycle ==
  ASSUME EngineInv, QueueInv, NEW d \in Device, StartCycle(d)
  PROVE  QueueInv'
<1> DEFINE q == Sent(queue[d])
           y == Settled(Started(IdleEngine, queue[d], 1))
<1>1. eng' = Put(eng, d, y) /\ queue' = Put(queue, d, q) /\ UNCHANGED <<row, base, conf, spent>>
  BY DEF StartCycle, StartPush, Put, Sent, Started
<1>2. IdleEngine \in EngineState /\ IdleEngine.acks = <<>>
  BY DEF IdleEngine, EngineState
<1>3. /\ DOMAIN q = DOMAIN queue[d]
      /\ \A i \in DOMAIN q :
            /\ q[i].ent = queue[d][i].ent
            /\ q[i].status = "synchronized" => queue[d][i].status = "synchronized"
            /\ q[i].status = "conflict" => queue[d][i].status = "conflict"
      /\ AcksQueued(q, y) /\ ~Deciding(y)
  BY <1>2, Here, SentQueued
<1>4. row' = Put(row, d, row[d])
  BY <1>1, Here
<1> HIDE DEF q, y
<1> QED
  BY <1>1, <1>3, <1>4, Turned

LEMMA QueueEndPull ==
  ASSUME EngineInv, QueueInv, NEW d \in Device, EndPull(d)
  PROVE  QueueInv'
<1> DEFINE x == eng[d]
           q == Sent(queue[d])
           y == Settled(Started(x, queue[d], 2))
<1>1. x.pc = "apply" /\ UNCHANGED <<row, base, conf, spent>> /\ row' = Put(row, d, row[d])
  BY Here DEF EndPull
<1>2. x \in EngineState /\ x.acks = <<>>
  BY <1>1, Here, Pointers, NotAnswering
<1>3. CASE eng' = Put(eng, d, y) /\ queue' = Put(queue, d, q)
  <2>1. /\ DOMAIN q = DOMAIN queue[d]
        /\ \A i \in DOMAIN q :
              /\ q[i].ent = queue[d][i].ent
              /\ q[i].status = "synchronized" => queue[d][i].status = "synchronized"
              /\ q[i].status = "conflict" => queue[d][i].status = "conflict"
        /\ AcksQueued(q, y) /\ ~Deciding(y)
    BY <1>2, Here, SentQueued
  <2> HIDE DEF q, y
  <2> QED
    BY <1>1, <1>3, <2>1, Turned
<1>4. CASE eng' = Put(eng, d, IdleEngine) /\ queue' = queue
  <2>1. queue' = Put(queue, d, queue[d])
    BY <1>4, Here
  <2> QED
    BY <1>1, <1>4, <2>1, IdleQueued, Turned
<1> QED
  BY <1>3, <1>4 DEF EndPull, StartPush, Put, Sent, Started

LEMMA QueuePushFails ==
  ASSUME EngineInv, QueueInv, NEW d \in Device, PushFails(d)
  PROVE  QueueInv'
<1> DEFINE x == eng[d]
           sent == {x.batch[i] : i \in DOMAIN x.batch}
           q == [i \in DOMAIN queue[d] |-> IF i \in sent THEN FailedAttempt(queue[d][i])
                                           ELSE queue[d][i]]
           y == [x EXCEPT !.pc = AfterPush(x.pass), !.acks = <<>>, !.offline = TRUE]
<1>1. /\ queue' = Put(queue, d, q) /\ eng' = Put(eng, d, Settled(y)) /\ Spend("faults")
      /\ UNCHANGED <<row, base, conf>>
  BY DEF PushFails, Put
<1>2. x \in EngineState /\ queue[d] \in Seq(QueuedOp) /\ row' = Put(row, d, row[d])
  BY <1>1, Here
<1>3. spent'.choices = spent.choices /\ spent'.torn = spent.torn
  BY <1>1, Here, SpentElsewhere
<1> HIDE DEF sent
<1>4. DOMAIN q = DOMAIN queue[d]
  OBVIOUS
<1>5. \A i \in DOMAIN q :
         /\ q[i].ent = queue[d][i].ent
         /\ q[i].status = "synchronized" => queue[d][i].status = "synchronized"
         /\ q[i].status = "conflict" => queue[d][i].status = "conflict"
  <2> TAKE i \in DOMAIN q
  <2>1. queue[d][i] \in QueuedOp
    BY <1>2, <1>4
  <2>2. q[i] \in {queue[d][i], FailedAttempt(queue[d][i])}
    BY <1>4
  <2> HIDE DEF q
  <2>3. FailedAttempt(queue[d][i]).ent = queue[d][i].ent
        /\ FailedAttempt(queue[d][i]).status \in {"failed", "pending"}
    BY <2>1 DEF FailedAttempt, QueuedOp
  <2> QED
    BY <2>2, <2>3
<1>6. AfterPush(x.pass) \in {"pull", "idle"}
  BY DEF AfterPush
<1>7. y.pc = AfterPush(x.pass) /\ y.acks = <<>> /\ y.batch = x.batch
  BY <1>2 DEF EngineState
<1> HIDE DEF q, y
<1>8. ASSUME spent.choices = 0, spent.torn = 0 PROVE AcksQueued(q, Settled(y))
  <2>1. \A k, l \in DOMAIN x.batch : x.batch[k] = x.batch[l] => k = l
    BY <1>8 DEF QueueInv, Remembered, AcksQueued
  <2>2. AcksQueued(q, y)
    BY <1>6, <1>7, <2>1, AcksGone
  <2> QED
    BY <1>6, <1>7, <2>2, SettledQueued
<1>9. ~Deciding(Settled(y))
  BY <1>6, <1>7, IdleQueued DEF Settled, Deciding
<1> DEFINE z == Settled(y)
           r == row[d]
<1>10. /\ row' = Put(row, d, r) /\ queue' = Put(queue, d, q) /\ eng' = Put(eng, d, z)
       /\ UNCHANGED <<base, conf>>
  BY <1>1, <1>2
<1>11. ~Deciding(z) /\ (spent.choices = 0 /\ spent.torn = 0 => AcksQueued(q, z)) /\ r = row[d]
  BY <1>8, <1>9
<1> HIDE DEF x, z, r
<1> QED
  BY <1>3, <1>4, <1>5, <1>10, <1>11, Turned

(* The engine goes on and the local database is left alone. *)
LEMMA Elsewhere ==
  ASSUME EngineInv, QueueInv, NEW d \in Device, NEW y, ~Deciding(y),
         spent.choices = 0 /\ spent.torn = 0 => AcksQueued(queue[d], y),
         eng' = Put(eng, d, y), UNCHANGED local,
         spent'.choices = spent.choices, spent'.torn = spent.torn
  PROVE  QueueInv'
<1>1. row' = Put(row, d, row[d]) /\ queue' = Put(queue, d, queue[d]) /\ UNCHANGED <<base, conf>>
  BY Here DEF local
<1> QED
  BY <1>1, Turned

LEMMA QueuePullFails ==
  ASSUME EngineInv, QueueInv, NEW d \in Device, PullFails(d)
  PROVE  QueueInv'
<1>1. UNCHANGED local /\ eng' = Put(eng, d, IdleEngine) /\ Spend("faults")
  BY DEF PullFails, Put
<1>2. spent'.choices = spent.choices /\ spent'.torn = spent.torn
  BY <1>1, Here, SpentElsewhere
<1> QED
  BY <1>1, <1>2, IdleQueued, Elsewhere

LEMMA QueueServerPull ==
  ASSUME EngineInv, QueueInv, NEW d \in Device, ServerPull(d)
  PROVE  QueueInv'
<1> DEFINE x == eng[d]
           y == [x EXCEPT !.pc = "apply", !.changes = Page(d), !.next = PageCursor(d, Page(d))]
<1>1. x.pc = "pull" /\ UNCHANGED <<local, spent>>
  BY DEF ServerPull
<1>2. eng' = Put(eng, d, y)
  BY Here DEF ServerPull, Put, TypeOK
<1>3. x \in EngineState /\ x.acks = <<>>
  BY <1>1, Here, Pointers, NotAnswering
<1>4. y.pc = "apply" /\ y.acks = <<>> /\ y.batch = x.batch
  BY <1>3 DEF EngineState
<1> HIDE DEF y
<1>5. ASSUME spent.choices = 0, spent.torn = 0 PROVE AcksQueued(queue[d], y)
  <2>1. \A k, l \in DOMAIN x.batch : x.batch[k] = x.batch[l] => k = l
    BY <1>5 DEF QueueInv, Remembered, AcksQueued
  <2> QED
    BY <1>4, <2>1, AcksGone
<1> QED
  BY <1>1, <1>2, <1>4, <1>5, Elsewhere DEF Deciding

LEMMA QueueEndPush ==
  ASSUME EngineInv, QueueInv, NEW d \in Device, EndPush(d)
  PROVE  QueueInv'
<1> DEFINE x == eng[d]
           y == [x EXCEPT !.pc = AfterPush(x.pass)]
<1>1. x.pc = "answer" /\ x.acks = <<>> /\ UNCHANGED <<local, spent>> /\ eng' = Put(eng, d, Settled(y))
  BY DEF EndPush, Put
<1>2. AfterPush(x.pass) \in {"pull", "idle"}
  BY DEF AfterPush
<1>3. y.pc = AfterPush(x.pass) /\ y.acks = <<>> /\ y.batch = x.batch
  BY <1>1, Here DEF EngineState
<1> HIDE DEF y
<1>4. ASSUME spent.choices = 0, spent.torn = 0 PROVE AcksQueued(queue[d], Settled(y))
  <2>1. \A k, l \in DOMAIN x.batch : x.batch[k] = x.batch[l] => k = l
    BY <1>4 DEF QueueInv, Remembered, AcksQueued
  <2>2. AcksQueued(queue[d], y)
    BY <1>2, <1>3, <2>1, AcksGone
  <2> QED
    BY <1>2, <1>3, <2>2, SettledQueued
<1>5. ~Deciding(Settled(y))
  BY <1>2, <1>3, IdleQueued DEF Settled, Deciding
<1> QED
  BY <1>1, <1>4, <1>5, Elsewhere

(* The server answers every operation of the batch, and none of them is    *)
(* done with before its answer is dealt with.                              *)
LEMMA QueueServerPush ==
  ASSUME EngineInv, QueueInv, NEW d \in Device, ServerPush(d)
  PROVE  QueueInv'
<1> DEFINE x == eng[d]
           q == queue[d]
           end == Served(d)
           y == [x EXCEPT !.pc = "answer", !.acks = end.acks]
<1>1. x.pc = "push" /\ UNCHANGED <<local, spent>> /\ eng' = Put(eng, d, y)
  BY DEF ServerPush, Put
<1>2. /\ end.acks \in Seq(Ack) /\ Len(end.acks) = Len(x.batch)
      /\ \A k \in 1..Len(x.batch) : end.acks[k].id = x.batch[k]
  BY <1>1, ServerAnswers DEF Answers, ServerState
<1>3. x \in EngineState /\ x.batch \in Seq(Nat)
  BY Here DEF EngineState
<1> HIDE DEF end
<1>4. y.pc = "answer" /\ y.acks = end.acks /\ y.batch = x.batch
  BY <1>3 DEF EngineState
<1> HIDE DEF y
<1>5. DOMAIN y.acks = DOMAIN x.batch /\ \A k \in DOMAIN x.batch : y.acks[k].id = x.batch[k]
  BY <1>2, <1>3, <1>4
<1>6. ASSUME spent.choices = 0, spent.torn = 0 PROVE AcksQueued(q, y)
  <2>1. AcksQueued(q, x)
    BY <1>6 DEF QueueInv, Remembered
  <2>2. \A k \in DOMAIN x.batch : x.batch[k] \in DOMAIN q
    BY Pointers
  <2> HIDE DEF q, x
  <2> QED
    BY <1>1, <1>4, <1>5, <2>1, <2>2 DEF AcksQueued
<1>7. ~Deciding(y)
  BY <1>4 DEF Deciding
<1> QED
  BY <1>1, <1>6, <1>7, Elsewhere

(* Operations of one entity are given a status.                            *)
LEMMA MarkedCarries ==
  ASSUME NEW q \in Seq(QueuedOp), NEW S, NEW status \in Live \cup {"synchronized", "failed"}
  PROVE  /\ Carried(q, Marked(q, S, status), S)
         /\ DOMAIN Marked(q, S, status) = DOMAIN q
         /\ \A i \in DOMAIN q :
               /\ Marked(q, S, status)[i].ent = q[i].ent
               /\ Marked(q, S, status)[i].status = IF i \in S THEN status ELSE q[i].status
<1> DEFINE q2 == Marked(q, S, status)
<1>1. /\ q2 \in Seq(QueuedOp) /\ Len(q2) = Len(q)
      /\ \A i \in DOMAIN q : q2[i].ent = q[i].ent /\ q2[i].status = IF i \in S THEN status ELSE q[i].status
  BY MarkedOps
<1> HIDE DEF q2
<1>2. DOMAIN q2 = DOMAIN q
  BY <1>1
<1>3. Carried(q, q2, S)
  BY <1>1, <1>2 DEF Carried
<1> QED
  BY <1>1, <1>2, <1>3 DEF q2

(* An operation was taken: it is done with, and its row is synchronized.   *)
LEMMA QueueAckApplied ==
  ASSUME EngineInv, QueueInv, NEW d \in Device, AckApplied(d)
  PROVE  QueueInv'
<1> DEFINE x == eng[d]
           id == Head(x.acks).id
           q == queue[d]
           e == q[id].ent
           S == {id}
           q2 == Marked(q, S, "synchronized")
           n == [row[d][e] EXCEPT !.ver = Head(x.acks).ver, !.st = "synchronized"]
           r == [row[d] EXCEPT ![e] = n]
           b == base[d]
           c == conf[d]
           y == [x EXCEPT !.acks = Tail(x.acks)]
<1>1. x.pc = "answer" /\ x.acks # <<>> /\ UNCHANGED <<base, conf, spent>>
  BY DEF AckApplied
<1>2. id \in DOMAIN q /\ e \in Entity /\ row[d][e] \in LocalRow
  BY <1>1, FirstAck
<1>3. queue' = Put(queue, d, q2) /\ eng' = Put(eng, d, y)
  BY DEF AckApplied, Put
<1>4. row' = Put(row, d, r)
  BY Here DEF AckApplied, SetRow, Put, Rows, TypeOK
<1>5. base' = Put(base, d, b) /\ conf' = Put(conf, d, c)
  BY <1>1, Here
<1>6. n.st = "synchronized"
  BY <1>2 DEF LocalRow
<1> HIDE DEF n
<1>7. r[e] = n /\ \A e2 \in Entity : e2 # e => r[e2] = row[d][e2]
  BY <1>2, Here DEF Rows
<1>8. /\ Carried(q, q2, S) /\ DOMAIN q2 = DOMAIN q
      /\ \A i \in DOMAIN q : /\ q2[i].ent = q[i].ent
                             /\ q2[i].status = IF i \in S THEN "synchronized" ELSE q[i].status
  <2>1. q \in Seq(QueuedOp) /\ "synchronized" \in Live \cup {"synchronized", "failed"}
    BY Here
  <2> HIDE DEF q, S
  <2> QED
    BY <2>1, MarkedCarries
<1>9. /\ x \in EngineState /\ x.acks \in Seq(Ack)
      /\ \A k \in DOMAIN x.acks : x.acks[k].id \in DOMAIN q
  BY Here, Pointers
<1>10. y.pc = "answer" /\ y.acks = Tail(x.acks) /\ y.batch = x.batch
  BY <1>1, <1>9 DEF EngineState
<1>11. ~Deciding(y)
  BY <1>10 DEF Deciding
<1> HIDE DEF q2, r, y
<1>12. ASSUME spent.choices = 0 PROVE Asked(q2, c, y)
  <2>1. Asked(q, c, x)
    BY <1>12 DEF QueueInv
  <2>2. \A i \in DOMAIN q2 : q2[i].status = "conflict" => q[i].status = "conflict"
    BY <1>8
  <2> HIDE DEF q, c, x
  <2>3. \A i \in DOMAIN q2 : q2[i].status = "conflict" => c[q2[i].ent] # NoConflict /\ q2[i].ent \in Critical
    BY <1>8, <2>1, <2>2 DEF Asked
  <2> QED
    BY <1>11, <2>3 DEF Asked
<1>13. ASSUME spent.choices = 0, spent.torn = 0 PROVE Remembered(r, q2, b, y)
  <2>1. RowsQueued(row[d], q, b) /\ AcksQueued(q, x)
    BY <1>13 DEF QueueInv, Remembered
  <2>2. \A i \in S : i \in DOMAIN q => q[i].ent = e
    OBVIOUS
  <2>3. PlanQueued(q2, b, y)
    BY <1>11 DEF PlanQueued
  <2>4. r[e].st # "pending" /\ r[e].st # "conflict"
    BY <1>6, <1>7
  <2>5. AcksQueued(q2, y)
    <3>1. Carried(q, q2, {Head(x.acks).id}) /\ y.pc # "push" /\ x.acks # <<>>
      BY <1>1, <1>8, <1>10
    <3> HIDE DEF q, x, id, e
    <3> QED
      BY <1>9, <1>10, <2>1, <3>1, AcksAdvance
  <2>6. RowsQueued(r, q2, b)
    <3> DEFINE r0 == row[d]
    <3>1. \A e2 \in Entity : e2 # e => r[e2] = r0[e2] /\ b[e2] = b[e2]
      BY <1>7
    <3>2. RowsQueued(r0, q, b) /\ Carried(q, q2, S)
      BY <1>8, <2>1
    <3> HIDE DEF r0, q, b, x, e, id, S
    <3>3. r[e] # NoRow => /\ r[e].st = "pending" => Unsent(q2, e)
                          /\ r[e].st = "conflict" => Unsent(q2, e) \/ b[e] = NoBase
      BY <2>4
    <3>4. ASSUME NEW e2 \in Entity, e2 # e, Unsent(q, e2) PROVE Unsent(q2, e2)
      BY <2>2, <3>2, <3>4, CarriedUnsent
    <3> QED
      BY <3>1, <3>2, <3>3, <3>4 DEF RowsQueued
  <2> QED
    BY <2>3, <2>5, <2>6 DEF Remembered
<1> HIDE DEF b, c
<1> QED
  BY <1>1, <1>3, <1>4, <1>5, <1>12, <1>13, QueueStep

(* What resolveWithRemote decides, as far as it matters here.              *)
LEMMA VerdictAsks ==
  ASSUME NEW d \in Device, NEW e \in Entity, NEW remote, NEW step \in Verdict(d, e, remote)
  PROVE  /\ step.do = "merge" => base[d][e] # NoBase
         /\ step.do = "park" /\ base[d][e] # NoBase => step.ask
         /\ step.do = "parkDelete" => step.ask
         /\ step.ask => step.do \in {"park", "parkDelete"} /\ e \in Critical
         /\ step.do = "remote" => e \notin Critical
<1> DEFINE mine == row[d][e]
           b == base[d][e]
           crit == e \in Critical
<1>1. PICK newer \in {"local", "remote"} : step = Resolve(mine, remote, b, crit, newer)
  BY DEF Verdict
<1> HIDE DEF mine, b
<1> DEFINE made(do, val, merged, ask) == [do |-> do, val |-> val, merged |-> merged, ask |-> ask]
<1>2. CASE mine.del # remote.del /\ crit
  BY <1>1, <1>2 DEF Resolve
<1>3. CASE mine.del # remote.del /\ ~crit
  BY <1>1, <1>3 DEF Resolve
<1>4. CASE mine.del = remote.del /\ b # NoBase /\ Overlap3(b, mine.val, remote.val) = {}
  <2>1. step = made("merge", DisjointMerge(b, mine.val, remote.val), TRUE, FALSE)
    BY <1>1, <1>4 DEF Resolve
  <2> QED
    BY <1>4, <2>1 DEF b
<1>5. CASE /\ mine.del = remote.del /\ ~(b # NoBase /\ Overlap3(b, mine.val, remote.val) = {})
           /\ crit \/ b = NoBase
  <2>1. step = made("park", mine.val, FALSE, crit)
    BY <1>1, <1>5 DEF Resolve
  <2> QED
    BY <1>5, <2>1 DEF b
<1>6. CASE /\ mine.del = remote.del /\ ~(b # NoBase /\ Overlap3(b, mine.val, remote.val) = {})
           /\ ~(crit \/ b = NoBase)
  <2>1. step = made("merge", OverlapMerge(b, mine.val, remote.val, newer),
                    CompletionClash(b, mine.val, remote.val), FALSE)
    BY <1>1, <1>6 DEF Resolve
  <2> QED
    BY <1>6, <2>1 DEF b
<1> QED
  BY <1>2, <1>3, <1>4, <1>5, <1>6

(* What Asked and PlanQueued say of a decision.                            *)
PlanAsked(q, plan) ==
    /\ plan.from = "answer" => q[plan.id].ent = plan.ent
    /\ plan.step.ask => plan.step.do \in {"park", "parkDelete"} /\ plan.ent \in Critical
    /\ plan.step.do = "remote" /\ plan.closes => plan.ent \notin Critical

PlanHeld(q, b, plan) ==
    /\ plan.step.do = "merge" => Unsent(q, plan.ent)
    /\ plan.step.do = "park" /\ b[plan.ent] # NoBase =>
          IF plan.from = "answer" THEN plan.step.ask ELSE Unsent(q, plan.ent)
    /\ plan.step.do = "parkDelete" => plan.step.ask

(* A decision is made; the local database is left alone.                   *)
LEMMA DecisionHeld ==
  ASSUME EngineInv, QueueInv, NEW d \in Device, NEW plan, NEW y,
         y.pc = "decided", y.plan = plan, y.acks = eng[d].acks, y.batch = eng[d].batch,
         eng' = Put(eng, d, y), UNCHANGED <<local, spent>>,
         PlanAsked(queue[d], plan),
         spent.choices = 0 /\ spent.torn = 0 => PlanHeld(queue[d], base[d], plan)
  PROVE  QueueInv'
<1> DEFINE x == eng[d]
           r == row[d]
           q == queue[d]
           b == base[d]
           c == conf[d]
<1>1. y.pc = "decided" /\ y.plan = plan /\ y.acks = x.acks /\ y.batch = x.batch
  OBVIOUS
<1>2. /\ row' = Put(row, d, r) /\ queue' = Put(queue, d, q) /\ base' = Put(base, d, b)
      /\ conf' = Put(conf, d, c) /\ eng' = Put(eng, d, y)
  BY Here DEF local
<1>3. ASSUME spent.choices = 0 PROVE Asked(q, c, y)
  <2>1. Asked(q, c, x)
    BY <1>3 DEF QueueInv
  <2> HIDE DEF x, c
  <2> QED
    BY <1>1, <2>1 DEF Asked, PlanAsked
<1>4. ASSUME spent.choices = 0, spent.torn = 0 PROVE Remembered(r, q, b, y)
  <2>1. RowsQueued(r, q, b) /\ AcksQueued(q, x)
    BY <1>4 DEF QueueInv, Remembered
  <2>2. AcksQueued(q, y)
    <3> HIDE DEF q, x
    <3> QED
      BY <1>1, <2>1 DEF AcksQueued
  <2>3. PlanQueued(q, b, y)
    BY <1>1, <1>4 DEF PlanQueued, PlanHeld
  <2> QED
    BY <2>1, <2>2, <2>3 DEF Remembered
<1> HIDE DEF x, r, q, b, c
<1> QED
  BY <1>2, <1>3, <1>4, QueueStep

(* A decision keeps the acks and the batch.                                *)
LEMMA DecidedState ==
  ASSUME NEW x \in EngineState, NEW plan
  PROVE  LET y == [x EXCEPT !.pc = "decided", !.plan = plan]
         IN  y.pc = "decided" /\ y.plan = plan /\ y.acks = x.acks /\ y.batch = x.batch
BY DEF EngineState

(* The server reports a conflict: what is decided is about the operation of *)
(* the first ack, whose entity still has something in the queue.           *)
LEMMA QueueAckConflict ==
  ASSUME EngineInv, QueueInv, NEW d \in Device, AckConflict(d)
  PROVE  QueueInv'
<1> DEFINE x == eng[d]
           ack == Head(x.acks)
           e == queue[d][ack.id].ent
<1>1. x.pc = "answer" /\ x.acks # <<>> /\ UNCHANGED <<local, spent>>
  BY DEF AckConflict
<1>2. e \in Entity
  BY <1>1, FirstAck
<1>3. PICK step \in Verdict(d, e, ack.remote) :
         Decide(d, Plan("answer", ack.id, e, ack.remote, ack.ver, step, TRUE))
  BY DEF AckConflict
<1> DEFINE plan == Plan("answer", ack.id, e, ack.remote, ack.ver, step, TRUE)
<1>4. plan.from = "answer" /\ plan.step = step /\ plan.id = ack.id /\ plan.ent = e
  BY DEF Plan
<1> DEFINE y == [x EXCEPT !.pc = "decided", !.plan = plan]
<1>5. eng' = Put(eng, d, y)
  BY <1>3, Here DEF Decide, Put, TypeOK
<1>6. y.pc = "decided" /\ y.plan = plan /\ y.acks = x.acks /\ y.batch = x.batch
  BY Here, DecidedState
<1> HIDE DEF y
<1>7. /\ step.do = "merge" => base[d][e] # NoBase
      /\ step.do = "park" /\ base[d][e] # NoBase => step.ask
      /\ step.do = "parkDelete" => step.ask
      /\ step.ask => step.do \in {"park", "parkDelete"} /\ e \in Critical
      /\ step.do = "remote" => e \notin Critical
  BY <1>2, VerdictAsks
<1>8. ASSUME spent.choices = 0, spent.torn = 0 PROVE Unsent(queue[d], e)
  <2>1. AcksQueued(queue[d], x)
    BY <1>8 DEF QueueInv, Remembered
  <2>2. x.acks \in Seq(Ack)
    BY Pointers
  <2>3. 1 \in DOMAIN x.acks /\ x.acks[1] = ack
    BY <1>1, <2>2
  <2> HIDE DEF x, ack
  <2> QED
    BY <2>1, <2>3 DEF AcksQueued, Unsent
<1>9. queue[d][plan.id].ent = plan.ent
  BY <1>4
<1> HIDE DEF plan, e
<1>10. PlanAsked(queue[d], plan) /\ (spent.choices = 0 /\ spent.torn = 0 => PlanHeld(queue[d], base[d], plan))
  BY <1>4, <1>7, <1>8, <1>9 DEF PlanAsked, PlanHeld
<1> QED
  BY <1>1, <1>5, <1>6, <1>10, DecisionHeld

(* A change that is taken as it is asks nothing; where there is something  *)
(* to decide, the row or the queue holds a change of the device's own.     *)
LEMMA QueueApplyChange ==
  ASSUME EngineInv, QueueInv, NEW d \in Device, ApplyChange(d)
  PROVE  QueueInv'
<1> DEFINE x == eng[d]
           first == Earliest(x.changes)
           change == feed[first]
           e == change.ent
           plan(step, closes) == Plan("apply", 0, e, change, change.ver, step, closes)
           skipped == [x EXCEPT !.changes = x.changes \ {first}]
           decided(p) == [x EXCEPT !.pc = "decided", !.plan = p]
<1>1. x.pc = "apply" /\ x.changes # {} /\ UNCHANGED <<local, spent>>
  BY DEF ApplyChange
<1>2. x \in EngineState /\ x.changes \subseteq DOMAIN feed /\ DOMAIN feed \subseteq Nat
  BY Here DEF Sound, CursorSound
<1>3. first \in DOMAIN feed
  BY <1>1, <1>2, HasEarliest
<1>4. e \in Entity
  <2>1. change \in FeedEntry
    BY <1>3, Here
  <2> QED
    BY <2>1 DEF FeedEntry
<1>5. \/ eng' = Put(eng, d, skipped)
      \/ \E step : /\ eng' = Put(eng, d, decided(plan(step, FALSE)))
                   /\ step \in {Take(change), [Take(change) EXCEPT !.do = "insert"]}
      \/ \E step : /\ eng' = Put(eng, d, decided(plan(step, TRUE)))
                   /\ row[d][e] # NoRow /\ Dirty(d, e) /\ step \in Verdict(d, e, change)
  <2> DEFINE chosen(step, closes) == Decide(d, plan(step, closes))
  <2>1. \A step, closes : chosen(step, closes) => eng' = Put(eng, d, decided(plan(step, closes)))
    BY DEF Decide, Put
  <2>2. CASE row[d][e] = NoRow
    <3>1. chosen([Take(change) EXCEPT !.do = "insert"], FALSE)
      BY <2>2 DEF ApplyChange
    <3> HIDE DEF chosen, plan, decided
    <3> QED
      BY <2>1, <3>1
  <2>3. CASE row[d][e] # NoRow /\ AlreadyReconciled(d, e, change.ver)
    <3>1. eng' = [eng EXCEPT ![d] = skipped]
      BY <2>3, Here DEF ApplyChange, TypeOK
    <3> QED
      BY <2>3, <3>1 DEF Put
  <2>4. CASE row[d][e] # NoRow /\ ~AlreadyReconciled(d, e, change.ver)
    <3>1. \/ chosen(Take(change), FALSE)
          \/ Dirty(d, e) /\ \E step \in Verdict(d, e, change) : chosen(step, TRUE)
      BY <2>4 DEF ApplyChange
    <3> HIDE DEF chosen, plan, decided
    <3> QED
      BY <2>1, <2>4, <3>1
  <2> QED
    BY <2>2, <2>3, <2>4
<1>6. CASE eng' = Put(eng, d, skipped)
  <2>1. x.acks = <<>>
    BY <1>1, Pointers, NotAnswering
  <2>2. skipped.pc = "apply" /\ skipped.batch = x.batch /\ skipped.acks = <<>>
    BY <1>1, <1>2, <2>1 DEF EngineState
  <2>3. ASSUME spent.choices = 0, spent.torn = 0 PROVE AcksQueued(queue[d], skipped)
    <3>1. \A k, l \in DOMAIN x.batch : x.batch[k] = x.batch[l] => k = l
      BY <2>3 DEF QueueInv, Remembered, AcksQueued
    <3> HIDE DEF skipped
    <3> QED
      BY <2>2, <3>1, AcksGone
  <2> HIDE DEF skipped
  <2> QED
    BY <1>1, <1>6, <2>2, <2>3, Elsewhere DEF Deciding
<1>7. ASSUME NEW step, eng' = Put(eng, d, decided(plan(step, FALSE))),
             step \in {Take(change), [Take(change) EXCEPT !.do = "insert"]}
      PROVE  QueueInv'
  <2> DEFINE p == plan(step, FALSE)
  <2>1. p.from = "apply" /\ p.step = step /\ p.ent = e /\ p.closes = FALSE
    BY DEF Plan
  <2>2. step.do \in {"remote", "insert"} /\ step.ask = FALSE
    BY <1>7 DEF Take
  <2> DEFINE y == decided(p)
  <2>3. eng' = Put(eng, d, y)
    BY <1>7
  <2> HIDE DEF p
  <2>4. y.pc = "decided" /\ y.plan = p /\ y.acks = x.acks /\ y.batch = x.batch
    BY <1>2, DecidedState
  <2> HIDE DEF y
  <2>5. PlanAsked(queue[d], p) /\ (spent.choices = 0 /\ spent.torn = 0 => PlanHeld(queue[d], base[d], p))
    BY <2>1, <2>2 DEF PlanAsked, PlanHeld
  <2> QED
    BY <1>1, <2>3, <2>5, <2>4, DecisionHeld
<1>8. ASSUME NEW step, eng' = Put(eng, d, decided(plan(step, TRUE))),
             row[d][e] # NoRow, Dirty(d, e), step \in Verdict(d, e, change)
      PROVE  QueueInv'
  <2> DEFINE p == plan(step, TRUE)
  <2>1. p.from = "apply" /\ p.step = step /\ p.ent = e
    BY DEF Plan
  <2> DEFINE y == decided(p)
  <2>2. eng' = Put(eng, d, y)
    BY <1>8
  <2>3. /\ step.do = "merge" => base[d][e] # NoBase
        /\ step.do = "park" /\ base[d][e] # NoBase => step.ask
        /\ step.do = "parkDelete" => step.ask
        /\ step.ask => step.do \in {"park", "parkDelete"} /\ e \in Critical
        /\ step.do = "remote" => e \notin Critical
    BY <1>4, <1>8, VerdictAsks
  <2>4. ASSUME spent.choices = 0, spent.torn = 0, base[d][e] # NoBase PROVE Unsent(queue[d], e)
    <3>1. RowsQueued(row[d], queue[d], base[d])
      BY <2>4 DEF QueueInv, Remembered
    <3>2. LiveOps(d, e) # {} => Unsent(queue[d], e)
      BY DEF LiveOps, Live, Unsent
    <3>3. row[d][e].st \in {"pending", "conflict"} \/ LiveOps(d, e) # {}
      BY <1>8 DEF Dirty
    <3> HIDE DEF e
    <3> QED
      BY <1>4, <1>8, <2>4, <3>1, <3>2, <3>3 DEF RowsQueued
  <2> HIDE DEF p, e
  <2>5. y.pc = "decided" /\ y.plan = p /\ y.acks = x.acks /\ y.batch = x.batch
    BY <1>2, DecidedState
  <2> HIDE DEF y
  <2>6. PlanAsked(queue[d], p) /\ (spent.choices = 0 /\ spent.torn = 0 => PlanHeld(queue[d], base[d], p))
    BY <2>1, <2>3, <2>4 DEF PlanAsked, PlanHeld
  <2> QED
    BY <1>1, <2>2, <2>6, <2>5, DecisionHeld
<1> HIDE DEF plan, decided, skipped
<1> QED
  BY <1>5, <1>6, <1>7, <1>8

-----------------------------------------------------------------------------
(* The operation a decision is about, if it is about one.                  *)
InConflict(plan) == IF plan.from = "answer" THEN {plan.id} ELSE {}

(* The operation a decision was about is done with.                        *)
LEMMA AnsweredCarries ==
  ASSUME NEW q \in Seq(QueuedOp), NEW plan
  PROVE  LET q2 == Answered(q, plan)
             S == InConflict(plan)
         IN  /\ Carried(q, q2, S) /\ DOMAIN q2 = DOMAIN q
             /\ \A i \in DOMAIN q :
                   /\ q2[i].ent = q[i].ent
                   /\ i \notin S => q2[i].status = q[i].status
                   /\ i \in S => q2[i].status = IF plan.step.ask THEN "conflict" ELSE "synchronized"
<1> DEFINE status == IF plan.step.ask THEN "conflict" ELSE "synchronized"
           S == InConflict(plan)
           m == Marked(q, S, status)
           q2 == Answered(q, plan)
<1>1. status \in Live \cup {"synchronized", "failed"}
  BY DEF Live
<1>2. plan.from = "answer" => q2 = m
  BY DEF Answered, InConflict
<1>3. plan.from # "answer" => q2 = q /\ S = {}
  BY DEF Answered, InConflict
<1> HIDE DEF q2
<1>4. /\ Carried(q, m, S) /\ DOMAIN m = DOMAIN q
      /\ \A i \in DOMAIN q : m[i].ent = q[i].ent /\ m[i].status = IF i \in S THEN status ELSE q[i].status
  <2> HIDE DEF status, S
  <2> QED
    BY <1>1, MarkedCarries
<1>5. Carried(q, q, {})
  BY DEF Carried
<1>6. CASE plan.from = "answer"
  <2> HIDE DEF m
  <2> QED
    BY <1>2, <1>4, <1>6 DEF q2
<1>7. CASE plan.from # "answer"
  BY <1>3, <1>5, <1>7 DEF q2
<1> QED
  BY <1>6, <1>7

(* RowsQueued and Asked, of one row and of the queue.                      *)
RowQueued(r, q, b, e) ==
    r[e] # NoRow => /\ r[e].st = "pending" => Unsent(q, e)
                    /\ r[e].st = "conflict" => Unsent(q, e) \/ b[e] = NoBase

ConflictsOpen(q, c) ==
    \A i \in DOMAIN q : q[i].status = "conflict" => c[q[i].ent] # NoConflict /\ q[i].ent \in Critical

SameBut(e, r, b, r2, b2) == \A e2 \in Entity : e2 # e => r2[e2] = r[e2] /\ b2[e2] = b[e2]

(* A decision is carried out, and the engine goes on.                      *)
LEMMA QueueResumed ==
  ASSUME EngineInv, QueueInv, NEW d \in Device, NEW r, NEW q2, NEW b, NEW c, NEW e,
         Deciding(eng[d]), e = eng[d].plan.ent, Carried(queue[d], q2, InConflict(eng[d].plan)),
         SameBut(e, row[d], base[d], r, b),
         spent.choices = 0 /\ spent.torn = 0 => RowQueued(r, q2, b, e),
         spent.choices = 0 => ConflictsOpen(q2, c),
         row' = Put(row, d, r), queue' = Put(queue, d, q2), base' = Put(base, d, b),
         conf' = Put(conf, d, c), eng' = Put(eng, d, Resumed(eng[d])), UNCHANGED spent
  PROVE  QueueInv'
<1> DEFINE x == eng[d]
           q == queue[d]
           y == Resumed(x)
           S == InConflict(x.plan)
<1>1. /\ x \in EngineState /\ x.acks \in Seq(Ack) /\ \A k \in DOMAIN x.acks : x.acks[k].id \in DOMAIN q
      /\ ~Answering(x) => x.acks = <<>>
  BY Here, Pointers
<1>2. x.plan \in PlanOf /\ (x.plan.from = "answer" => x.acks # <<>> /\ Head(x.acks).id = x.plan.id)
  BY Here DEF Sound, PlanSound
<1>3. x.plan.from \in {"answer", "apply"} /\ x.plan.step \in Step
  BY <1>2 DEF PlanOf
<1>4. /\ y.pc = x.plan.from /\ y.batch = x.batch
      /\ y.acks = IF x.plan.from = "answer" THEN Tail(x.acks) ELSE x.acks
  BY <1>1, <1>2, <1>3 DEF Resumed, EngineState
<1> HIDE DEF y
<1>5. ~Deciding(y) /\ y.pc # "push"
  BY <1>3, <1>4 DEF Deciding
<1>6. x.plan.from # "answer" => x.acks = <<>>
  BY <1>1 DEF Answering, Deciding
<1>7. ASSUME spent.choices = 0 PROVE Asked(q2, c, y)
  BY <1>5, <1>7 DEF Asked, ConflictsOpen
<1>8. ASSUME spent.choices = 0, spent.torn = 0 PROVE Remembered(r, q2, b, y)
  <2> DEFINE r0 == row[d]
             b0 == base[d]
  <2>1. RowsQueued(r0, q, b0) /\ AcksQueued(q, x)
    BY <1>8 DEF QueueInv, Remembered
  <2>2. x.plan.from = "answer" => q[x.plan.id].ent = e
    BY <1>8 DEF QueueInv, Asked
  <2>3. \A i \in S : i \in DOMAIN q => q[i].ent = e
    BY <2>2 DEF InConflict
  <2>4. PlanQueued(q2, b, y)
    BY <1>5 DEF PlanQueued
  <2>5. AcksQueued(q2, y)
    <3>1. CASE x.plan.from = "answer"
      <4>1. Carried(q, q2, {Head(x.acks).id})
        BY <1>2, <3>1 DEF InConflict
      <4> HIDE DEF x, q
      <4> QED
        BY <1>1, <1>2, <1>4, <1>5, <2>1, <3>1, <4>1, AcksAdvance
    <3>2. CASE x.plan.from # "answer"
      <4>1. \A k, l \in DOMAIN y.batch : y.batch[k] = y.batch[l] => k = l
        BY <1>4, <2>1 DEF AcksQueued
      <4> HIDE DEF x, q
      <4> QED
        BY <1>4, <1>5, <1>6, <3>2, <4>1, AcksGone
    <3> QED
      BY <3>1, <3>2
  <2>6. RowsQueued(r, q2, b)
    <3>1. \A e2 \in Entity : e2 # e => r[e2] = r0[e2] /\ b[e2] = b0[e2]
      BY DEF SameBut
    <3>2. Carried(q, q2, S)
      OBVIOUS
    <3> HIDE DEF r0, b0, q, S
    <3>3. r[e] # NoRow => /\ r[e].st = "pending" => Unsent(q2, e)
                          /\ r[e].st = "conflict" => Unsent(q2, e) \/ b[e] = NoBase
      BY <1>8 DEF RowQueued
    <3>4. ASSUME NEW e2 \in Entity, e2 # e, Unsent(q, e2) PROVE Unsent(q2, e2)
      BY <2>3, <3>2, <3>4, CarriedUnsent
    <3> QED
      BY <2>1, <3>1, <3>3, <3>4 DEF RowsQueued
  <2> QED
    BY <2>4, <2>5, <2>6 DEF Remembered
<1>9. eng' = Put(eng, d, y)
  BY DEF y
<1> HIDE DEF x, q
<1> QED
  BY <1>7, <1>8, <1>9, QueueStep

(* A queue carries itself.                                                 *)
LEMMA CarriedSame ==
  ASSUME NEW q, NEW S
  PROVE  Carried(q, q, S)
BY DEF Carried

(* A row that was unknown is taken from the server: nothing is to be sent. *)
LEMMA QueueInsertRemote ==
  ASSUME EngineInv, QueueInv, NEW d \in Device, InsertRemote(d)
  PROVE  QueueInv'
<1> DEFINE plan == eng[d].plan
           e == plan.ent
           q == queue[d]
           c == conf[d]
           S == InConflict(plan)
           n == Fetched(plan)
           v == IF plan.remote.del THEN base[d][e] ELSE plan.remote.val
<1>1. /\ eng[d].pc = "decided" /\ eng' = Put(eng, d, Resumed(eng[d])) /\ UNCHANGED <<queue, conf, spent>>
  BY DEF InsertRemote, Put
<1>2. Deciding(eng[d])
  BY <1>1 DEF Deciding
<1>3. e \in Entity /\ n.st = "synchronized"
  BY <1>2, PlanAtHand DEF Fetched
<1>4. queue' = Put(queue, d, q) /\ conf' = Put(conf, d, c) /\ Carried(q, q, S)
  BY <1>1, Here, CarriedSame
<1>5. spent.choices = 0 => ConflictsOpen(q, c)
  BY DEF QueueInv, Asked, ConflictsOpen
<1>6. \E r, b : /\ row' = Put(row, d, r) /\ base' = Put(base, d, b)
                /\ \A e2 \in Entity : e2 # e => r[e2] = row[d][e2] /\ b[e2] = base[d][e2]
                /\ r[e].st = "synchronized" \/ (r[e] = row[d][e] /\ b[e] = base[d][e])
  <2>1. CASE Parent[e] # e /\ row[d][Parent[e]] = NoRow
    <3>1. row' = Put(row, d, row[d]) /\ base' = Put(base, d, base[d])
      BY <2>1, Here DEF InsertRemote
    <3> QED
      BY <3>1
  <2>2. CASE ~(Parent[e] # e /\ row[d][Parent[e]] = NoRow)
    <3> DEFINE r == [row[d] EXCEPT ![e] = n]
               b == [base[d] EXCEPT ![e] = v]
    <3>1. SetRow(d, e, n) /\ base' = [base EXCEPT ![d][e] = v]
      BY <1>3, <2>2, Here DEF InsertRemote, TypeOK
    <3> HIDE DEF n, v
    <3>2. row' = Put(row, d, r)
      BY <3>1, Here DEF SetRow, Put, Rows, TypeOK
    <3>3. base' = Put(base, d, b)
      BY <3>1, Here DEF Put, TypeOK
    <3>4. r[e] = n /\ \A e2 \in Entity : e2 # e => r[e2] = row[d][e2] /\ b[e2] = base[d][e2]
      BY <1>3, Here DEF Rows
    <3> HIDE DEF r, b
    <3> QED
      BY <1>3, <3>2, <3>3, <3>4
  <2> QED
    BY <2>1, <2>2
<1>7. PICK r, b : /\ row' = Put(row, d, r) /\ base' = Put(base, d, b)
                  /\ \A e2 \in Entity : e2 # e => r[e2] = row[d][e2] /\ b[e2] = base[d][e2]
                  /\ r[e].st = "synchronized" \/ (r[e] = row[d][e] /\ b[e] = base[d][e])
  BY <1>6
<1>8. ASSUME spent.choices = 0, spent.torn = 0, r[e] # NoRow
      PROVE  /\ r[e].st = "pending" => Unsent(q, e)
             /\ r[e].st = "conflict" => Unsent(q, e) \/ b[e] = NoBase
  <2>1. RowsQueued(row[d], q, base[d])
    BY <1>8 DEF QueueInv, Remembered
  <2> HIDE DEF e, q
  <2> QED
    BY <1>3, <1>7, <1>8, <2>1 DEF RowsQueued
<1>9. e = plan.ent
  OBVIOUS
<1> HIDE DEF q, c, e
<1>10. row' = Put(row, d, r) /\ base' = Put(base, d, b) /\ SameBut(e, row[d], base[d], r, b)
  BY <1>7 DEF SameBut
<1>11. Carried(queue[d], q, InConflict(eng[d].plan))
  BY <1>4 DEF q
<1> HIDE DEF plan, S
<1>12. e = eng[d].plan.ent
  BY <1>9 DEF plan
<1>13. spent.choices = 0 /\ spent.torn = 0 => RowQueued(r, q, b, e)
  BY <1>8 DEF RowQueued
<1>14. UNCHANGED spent /\ eng' = Put(eng, d, Resumed(eng[d]))
  BY <1>1
<1> QED
  BY <1>2, <1>4, <1>5, <1>10, <1>11, <1>12, <1>13, <1>14, QueueResumed

(* The row of the server replaces the own one, which has nothing to send.  *)
LEMMA QueueWriteRemote ==
  ASSUME EngineInv, QueueInv, NEW d \in Device, WriteRemote(d)
  PROVE  QueueInv'
<1> DEFINE plan == eng[d].plan
           e == plan.ent
           q == queue[d]
           S == InConflict(plan)
           q2 == Answered(q, plan)
           n == Fetched(plan)
           r == [row[d] EXCEPT ![e] = n]
           b == [base[d] EXCEPT ![e] = plan.remote.val]
           left == IF plan.closes THEN NoConflict ELSE conf[d][e]
           c == [conf[d] EXCEPT ![e] = left]
<1>1. /\ eng[d].pc = "decided" /\ plan.step.do = "remote" /\ SetRow(d, e, n)
      /\ eng' = Put(eng, d, Resumed(eng[d])) /\ UNCHANGED spent /\ queue' = Put(queue, d, q2)
  BY DEF WriteRemote, Put
<1>2. Deciding(eng[d])
  BY <1>1 DEF Deciding
<1>3. e \in Entity /\ n.st = "synchronized"
  BY <1>2, PlanAtHand DEF Fetched
<1>4. base' = Put(base, d, b) /\ conf' = Put(conf, d, c)
  BY <1>3, Here DEF WriteRemote, Put, TypeOK
<1>5. q \in Seq(QueuedOp) /\ conf[d] \in [Entity -> OpenConflict \cup {NoConflict}]
  BY Here
<1>6. plan.from = "answer" => plan.id \in DOMAIN q
  BY <1>2, PlanAtHand
<1> HIDE DEF n
<1>7. row' = Put(row, d, r)
  BY <1>1, Here DEF SetRow, Put, Rows, TypeOK
<1>8. r[e] = n /\ \A e2 \in Entity : e2 # e => r[e2] = row[d][e2] /\ b[e2] = base[d][e2]
  BY <1>3, Here DEF Rows
<1>9. c[e] = left /\ \A e2 \in Entity : e2 # e => c[e2] = conf[d][e2]
  BY <1>3, <1>5
<1> HIDE DEF r, b, c
<1> HIDE DEF q
<1>11. /\ Carried(q, q2, S) /\ DOMAIN q2 = DOMAIN q
       /\ \A i \in DOMAIN q :
             /\ q2[i].ent = q[i].ent
             /\ i \notin S => q2[i].status = q[i].status
             /\ i \in S => q2[i].status = IF plan.step.ask THEN "conflict" ELSE "synchronized"
  BY <1>5, AnsweredCarries
<1>12. ASSUME spent.choices = 0 PROVE ConflictsOpen(q2, c)
  <2>1. Asked(q, conf[d], eng[d])
    BY <1>12 DEF QueueInv, q
  <2>2. plan.step.ask => FALSE
    BY <1>1, <1>2, <2>1 DEF Asked
  <2>3. plan.closes => e \notin Critical
    BY <1>1, <1>2, <2>1 DEF Asked
  <2> SUFFICES ASSUME NEW i \in DOMAIN q, q2[i].status = "conflict"
               PROVE  c[q[i].ent] # NoConflict /\ q[i].ent \in Critical
    BY <1>11 DEF ConflictsOpen
  <2>4. q[i].status = "conflict"
    BY <1>11, <2>2
  <2>5. conf[d][q[i].ent] # NoConflict /\ q[i].ent \in Critical /\ q[i].ent \in Entity
    <3>1. q[i] \in QueuedOp
      BY <1>5
    <3> QED
      BY <2>1, <2>4, <3>1 DEF Asked, QueuedOp
  <2>6. CASE q[i].ent = e
    <3>1. ~plan.closes
      BY <2>3, <2>5, <2>6
    <3>2. left = conf[d][e]
      BY <3>1
    <3> HIDE DEF left, e
    <3> QED
      BY <1>9, <2>5, <2>6, <3>2
  <2>7. CASE q[i].ent # e
    BY <1>9, <2>5, <2>7
  <2> QED
    BY <2>6, <2>7
<1>13. r[e].st # "pending" /\ r[e].st # "conflict"
  BY <1>3, <1>8
<1>14. Carried(queue[d], q2, InConflict(eng[d].plan))
  BY <1>11 DEF q
<1>15. e = eng[d].plan.ent
  OBVIOUS
<1> HIDE DEF e, plan
<1>16. spent.choices = 0 /\ spent.torn = 0 => RowQueued(r, q2, b, e)
  BY <1>13 DEF RowQueued
<1>17. /\ row' = Put(row, d, r) /\ queue' = Put(queue, d, q2) /\ base' = Put(base, d, b)
       /\ conf' = Put(conf, d, c) /\ eng' = Put(eng, d, Resumed(eng[d])) /\ UNCHANGED spent
  BY <1>1, <1>4, <1>7
<1>18. SameBut(e, row[d], base[d], r, b)
  BY <1>8 DEF SameBut
<1> HIDE DEF q2
<1> QED
  BY <1>2, <1>12, <1>14, <1>15, <1>16, <1>17, <1>18, QueueResumed

(* The merged row is written; the operation for it follows after an await, *)
(* and until then the operations that led to the merge are still queued.   *)
LEMMA QueueWriteMergedRow ==
  ASSUME EngineInv, QueueInv, NEW d \in Device, WriteMergedRow(d)
  PROVE  QueueInv'
<1> DEFINE x == eng[d]
           plan == x.plan
           e == plan.ent
           q == queue[d]
           c == conf[d]
           n == Merged(plan.ver, plan.step.val, plan.remote.del)
           r == [row[d] EXCEPT ![e] = n]
           b == [base[d] EXCEPT ![e] = plan.step.val]
           y == [x EXCEPT !.pc = "requeue"]
<1>1. x.pc = "decided" /\ plan.step.do = "merge" /\ SetRow(d, e, n) /\ UNCHANGED <<queue, conf, spent>>
  BY DEF WriteMergedRow
<1>2. Deciding(x)
  BY <1>1 DEF Deciding
<1>3. e \in Entity /\ n.st = "pending"
  BY <1>2, PlanAtHand DEF Merged
<1>4. eng' = Put(eng, d, y)
  BY Here DEF WriteMergedRow, GoTo, Put, TypeOK
<1> HIDE DEF n
<1>5. row' = Put(row, d, r)
  BY <1>1, Here DEF SetRow, Put, Rows, TypeOK
<1>6. base' = Put(base, d, b)
  BY Here DEF WriteMergedRow, Put, TypeOK
<1>7. queue' = Put(queue, d, q) /\ conf' = Put(conf, d, c)
  BY <1>1, Here
<1>8. y.pc = "requeue" /\ y.plan = plan /\ y.acks = x.acks /\ y.batch = x.batch
  BY Here DEF EngineState
<1>9. r[e] = n /\ \A e2 \in Entity : e2 # e => r[e2] = row[d][e2] /\ b[e2] = base[d][e2]
  BY <1>3, Here DEF Rows
<1> HIDE DEF y, r, b
<1>10. ASSUME spent.choices = 0 PROVE Asked(q, c, y)
  <2>1. Asked(q, c, x)
    BY <1>10 DEF QueueInv
  <2> HIDE DEF x, q, c
  <2> QED
    BY <1>2, <1>8, <2>1 DEF Asked, plan
<1>11. ASSUME spent.choices = 0, spent.torn = 0 PROVE Remembered(r, q, b, y)
  <2> DEFINE r0 == row[d]
             b0 == base[d]
  <2>1. RowsQueued(r0, q, b0) /\ PlanQueued(q, b0, x) /\ AcksQueued(q, x)
    BY <1>11 DEF QueueInv, Remembered
  <2>2. Unsent(q, e)
    BY <1>1, <1>2, <2>1 DEF PlanQueued
  <2>3. \A e2 \in Entity : e2 # e => r[e2] = r0[e2] /\ b[e2] = b0[e2]
    BY <1>9
  <2>4. PlanQueued(q, b, y)
    BY <1>1, <1>8, <2>2 DEF PlanQueued
  <2>5. AcksQueued(q, y)
    <3>1. x.pc # "push"
      BY <1>1
    <3> HIDE DEF x, q
    <3> QED
      BY <1>8, <2>1, <3>1 DEF AcksQueued
  <2> HIDE DEF r0, b0, q, e
  <2>6. RowsQueued(r, q, b)
    BY <1>3, <1>9, <2>1, <2>2, <2>3 DEF RowsQueued
  <2> QED
    BY <2>4, <2>5, <2>6 DEF Remembered
<1> HIDE DEF x, q, c
<1> QED
  BY <1>1, <1>4, <1>5, <1>6, <1>7, <1>10, <1>11, QueueStep

(* What the merge retires has the merged operation as its successor.       *)
LEMMA RequeuedCarries ==
  ASSUME NEW d \in Device, NEW e \in Entity, NEW v \in Nat, NEW n \in LocalRow, NEW plan,
         queue[d] \in Seq(QueuedOp), plan.from = "answer" => plan.id \in DOMAIN queue[d], ~plan.step.ask
  PROVE  LET q == queue[d]
             q2 == Answered(Requeued(q, d, e, v, n), plan)
         IN  /\ Carried(q, q2, InConflict(plan)) /\ Unsent(q2, e)
             /\ \A i \in DOMAIN q2 : q2[i].status = "conflict" =>
                   i \in DOMAIN q /\ q[i].status = "conflict" /\ q2[i].ent = q[i].ent /\ q[i].ent # e
<1> DEFINE q == queue[d]
           L == LiveOps(d, e)
           m == Marked(q, L, "synchronized")
           op == OpOf(e, "update", v, n, FALSE)
           a == Append(m, op)
           q2 == Answered(a, plan)
           S == InConflict(plan)
<1>1. op \in QueuedOp /\ op.ent = e /\ op.status = "pending"
  BY OpTyped
<1>2. /\ m \in Seq(QueuedOp) /\ Len(m) = Len(q) /\ q \in Seq(QueuedOp)
      /\ \A i \in DOMAIN q : m[i].ent = q[i].ent /\ m[i].status = IF i \in L THEN "synchronized" ELSE q[i].status
  BY MarkedOps
<1> HIDE DEF m, op
<1>3. /\ a \in Seq(QueuedOp) /\ Len(a) = Len(q) + 1 /\ Len(q) \in Nat
      /\ DOMAIN q = 1..Len(q) /\ DOMAIN a = 1..(Len(q) + 1)
      /\ \A i \in 1..Len(q) : a[i] = m[i]
      /\ a[Len(q) + 1] = op
  BY <1>1, <1>2
<1> HIDE DEF a
<1>4. /\ DOMAIN q2 = DOMAIN a
      /\ \A i \in DOMAIN a :
            /\ q2[i].ent = a[i].ent
            /\ i \notin S => q2[i].status = a[i].status
            /\ i \in S => q2[i].status = "synchronized"
  BY <1>3, AnsweredCarries
<1> HIDE DEF q2
<1> DEFINE j == Len(q) + 1
<1>5. j \in DOMAIN q2 /\ j \notin DOMAIN q /\ j \notin S
  BY <1>3, <1>4 DEF InConflict
<1>6. q2[j].ent = e /\ q2[j].status = "pending"
  BY <1>1, <1>3, <1>4, <1>5
<1> HIDE DEF j
<1>7. \A i \in DOMAIN q : /\ i \in DOMAIN q2 /\ q2[i].ent = q[i].ent
                          /\ i \notin S /\ i \notin L => q2[i].status = q[i].status
                          /\ i \in S \/ i \in L => q2[i].status = "synchronized"
  BY <1>2, <1>3, <1>4
<1>8. \A i \in DOMAIN q : i \in L <=> q[i].ent = e /\ q[i].status \in Live
  BY DEF LiveOps
<1>9. \A i \in DOMAIN q2 : i \in DOMAIN q \/ i = j
  BY <1>3, <1>4 DEF j
<1> HIDE DEF q, L, S
<1>10. Carried(q, q2, S)
  BY <1>5, <1>6, <1>7, <1>8 DEF Carried
<1>11. Unsent(q2, e)
  BY <1>5, <1>6 DEF Unsent
<1>12. ASSUME NEW i \in DOMAIN q2, q2[i].status = "conflict"
       PROVE  i \in DOMAIN q /\ q[i].status = "conflict" /\ q2[i].ent = q[i].ent /\ q[i].ent # e
  <2>1. i \in DOMAIN q
    BY <1>6, <1>9, <1>12
  <2>2. i \notin S /\ i \notin L
    BY <1>7, <1>12, <2>1
  <2>3. q[i].status = "conflict"
    BY <1>7, <1>12, <2>1, <2>2
  <2>4. "conflict" \in Live
    BY DEF Live
  <2> QED
    BY <1>7, <1>8, <2>1, <2>2, <2>3, <2>4
<1> QED
  BY <1>10, <1>11, <1>12 DEF q, S, q2, a, m, op, L, Requeued

(* The merged operation is queued and those it replaces are retired.       *)
LEMMA QueueQueueMerged ==
  ASSUME EngineInv, QueueInv, NEW d \in Device, QueueMerged(d)
  PROVE  QueueInv'
<1> DEFINE plan == eng[d].plan
           e == plan.ent
           q == queue[d]
           n == Merged(plan.ver, plan.step.val, plan.remote.del)
           q2 == Answered(Requeued(q, d, e, plan.ver, n), plan)
           r == row[d]
           b == base[d]
           c == [conf[d] EXCEPT ![e] = NoConflict]
<1>1. /\ eng[d].pc = "requeue" /\ queue' = Put(queue, d, q2)
      /\ eng' = Put(eng, d, Resumed(eng[d])) /\ UNCHANGED <<row, base, spent>>
  BY DEF QueueMerged, Put
<1>2. Deciding(eng[d])
  BY <1>1 DEF Deciding
<1>3. plan.step.do = "merge"
  BY <1>1, <1>2, Here DEF Sound, PlanSound
<1>4. /\ e \in Entity /\ n \in LocalRow /\ plan.ver \in Nat
      /\ plan.from = "answer" => plan.id \in DOMAIN q
  BY <1>2, PlanAtHand
<1>5. /\ conf' = Put(conf, d, c) /\ row' = Put(row, d, r) /\ base' = Put(base, d, b)
      /\ q \in Seq(QueuedOp) /\ conf[d] \in [Entity -> OpenConflict \cup {NoConflict}]
  BY <1>1, Here DEF QueueMerged, Put, TypeOK
<1>6. \A e2 \in Entity : e2 # e => c[e2] = conf[d][e2]
  BY <1>5
<1> HIDE DEF n, c
<1>7. ASSUME ~plan.step.ask
      PROVE  /\ Carried(q, q2, InConflict(plan)) /\ Unsent(q2, e)
             /\ \A i \in DOMAIN q2 : q2[i].status = "conflict" =>
                   i \in DOMAIN q /\ q[i].status = "conflict" /\ q2[i].ent = q[i].ent /\ q[i].ent # e
  <2> HIDE DEF plan, e
  <2> QED
    BY <1>4, <1>5, <1>7, RequeuedCarries
<1> HIDE DEF q2
<1>8. CASE spent.choices # 0
  BY <1>1, <1>8 DEF QueueInv
<1>9. CASE spent.choices = 0
  <2>1. Asked(q, conf[d], eng[d])
    BY <1>9 DEF QueueInv
  <2>2. ~plan.step.ask
    BY <1>2, <1>3, <2>1 DEF Asked
  <2>3. ConflictsOpen(q2, c)
    <3> SUFFICES ASSUME NEW i \in DOMAIN q2, q2[i].status = "conflict"
                 PROVE  c[q2[i].ent] # NoConflict /\ q2[i].ent \in Critical
      BY DEF ConflictsOpen
    <3>1. i \in DOMAIN q /\ q[i].status = "conflict" /\ q2[i].ent = q[i].ent /\ q[i].ent # e
      BY <1>7, <2>2
    <3>2. q[i].ent \in Entity
      <4>1. q[i] \in QueuedOp
        BY <1>5, <3>1
      <4> QED
        BY <4>1 DEF QueuedOp
    <3>3. conf[d][q[i].ent] # NoConflict /\ q[i].ent \in Critical
      BY <2>1, <3>1 DEF Asked
    <3> HIDE DEF q, e
    <3> QED
      BY <1>6, <3>1, <3>2, <3>3
  <2>4. Carried(queue[d], q2, InConflict(eng[d].plan)) /\ Unsent(q2, e)
    BY <1>7, <2>2
  <2>5. SameBut(e, row[d], base[d], r, b)
    BY DEF SameBut
  <2>6. RowQueued(r, q2, b, e)
    BY <2>4 DEF RowQueued
  <2>7. e = eng[d].plan.ent /\ UNCHANGED spent
    BY <1>1
  <2> HIDE DEF r, b, e, plan
  <2> QED
    BY <1>1, <1>2, <1>5, <2>3, <2>4, <2>5, <2>6, <2>7, QueueResumed
<1> QED
  BY <1>8, <1>9

(* A conflict is left to the user, or waits for the next edit.             *)
LEMMA QueuePark ==
  ASSUME EngineInv, QueueInv, NEW d \in Device, Park(d)
  PROVE  QueueInv'
<1> DEFINE plan == eng[d].plan
           e == plan.ent
           q == queue[d]
           q2 == Answered(q, plan)
           S == InConflict(plan)
           s == IF plan.step.do = "park" THEN "conflict" ELSE row[d][e].st
           n == [row[d][e] EXCEPT !.st = s]
           r == [row[d] EXCEPT ![e] = n]
           b == base[d]
           k == [remote |-> [val |-> plan.remote.val, del |-> plan.remote.del],
                 mine |-> [val |-> plan.step.val, del |-> row[d][e].del], ver |-> plan.ver]
           c == [conf[d] EXCEPT ![e] = k]
<1>1. /\ eng[d].pc = "decided" /\ plan.step.do \in {"park", "parkDelete"} /\ queue' = Put(queue, d, q2)
      /\ eng' = Put(eng, d, Resumed(eng[d])) /\ UNCHANGED <<base, spent>>
  BY DEF Park, Put
<1>2. Deciding(eng[d])
  BY <1>1 DEF Deciding
<1>3. /\ e \in Entity /\ plan.ver \in Nat /\ row[d][e] # NoRow /\ plan.step.val \in Values
      /\ plan.remote.val \in Values /\ plan.remote.del \in BOOLEAN
      /\ plan.from = "answer" => plan.id \in DOMAIN q
      /\ plan.from \in {"answer", "apply"}
  BY <1>1, <1>2, PlanAtHand DEF PlanOf
<1>4. row[d][e] \in LocalRow
  BY <1>3, Here DEF Rows
<1>5. SetRow(d, e, n)
  BY <1>4 DEF Park, LocalRow
<1>6. conf' = Put(conf, d, c) /\ base' = Put(base, d, b)
  BY <1>1, Here DEF Park, Put, TypeOK
<1>7. n.st = s
  BY <1>4 DEF LocalRow
<1>8. k # NoConflict
  <2>1. k \in OpenConflict
    BY <1>3, <1>4 DEF OpenConflict, Content, LocalRow
  <2> HIDE DEF k
  <2> QED
    BY <2>1, EngineAssumption
<1> HIDE DEF n, k
<1>9. row' = Put(row, d, r)
  BY <1>5, Here DEF SetRow, Put, Rows, TypeOK
<1>10. q \in Seq(QueuedOp) /\ conf[d] \in [Entity -> OpenConflict \cup {NoConflict}]
  BY Here
<1>11. /\ r[e] = n /\ \A e2 \in Entity : e2 # e => r[e2] = row[d][e2]
       /\ c[e] = k /\ \A e2 \in Entity : e2 # e => c[e2] = conf[d][e2]
  BY <1>3, <1>10, Here DEF Rows
<1> HIDE DEF r, c
<1>12. /\ Carried(q, q2, S) /\ DOMAIN q2 = DOMAIN q
       /\ \A i \in DOMAIN q :
             /\ q2[i].ent = q[i].ent
             /\ i \notin S => q2[i].status = q[i].status
             /\ i \in S => q2[i].status = IF plan.step.ask THEN "conflict" ELSE "synchronized"
  <2> HIDE DEF q
  <2> QED
    BY <1>10, AnsweredCarries
<1> HIDE DEF q2
<1>13. S = IF plan.from = "answer" THEN {plan.id} ELSE {}
  BY DEF InConflict
<1>14. ASSUME spent.choices = 0 PROVE ConflictsOpen(q2, c)
  <2>1. Asked(q, conf[d], eng[d])
    BY <1>14 DEF QueueInv
  <2> SUFFICES ASSUME NEW i \in DOMAIN q, q2[i].status = "conflict"
               PROVE  c[q[i].ent] # NoConflict /\ q[i].ent \in Critical
    BY <1>12 DEF ConflictsOpen
  <2>2. q[i].ent \in Entity
    <3>1. q[i] \in QueuedOp
      BY <1>10
    <3> QED
      BY <3>1 DEF QueuedOp
  <2>3. CASE i \notin S
    <3>1. q[i].status = "conflict"
      BY <1>12, <2>3
    <3>2. conf[d][q[i].ent] # NoConflict /\ q[i].ent \in Critical
      BY <2>1, <3>1 DEF Asked
    <3> HIDE DEF q, e
    <3> QED
      BY <1>8, <1>11, <2>2, <3>2
  <2>4. CASE i \in S
    <3>1. plan.step.ask
      BY <1>12, <2>4
    <3>2. i = plan.id /\ plan.from = "answer"
      BY <1>13, <2>4
    <3>3. q[i].ent = e /\ e \in Critical
      BY <1>2, <2>1, <3>1, <3>2 DEF Asked
    <3> HIDE DEF q, e
    <3> QED
      BY <1>8, <1>11, <3>3
  <2> QED
    BY <2>3, <2>4
<1>15. ASSUME spent.choices = 0, spent.torn = 0 PROVE RowQueued(r, q2, b, e)
  <2>1. RowsQueued(row[d], q, b) /\ PlanQueued(q, b, eng[d]) /\ Asked(q, conf[d], eng[d])
    BY <1>15 DEF QueueInv, Remembered
  <2>2. ASSUME plan.from = "answer", plan.step.ask PROVE Unsent(q2, e)
    <3>1. plan.id \in DOMAIN q /\ q[plan.id].ent = e
      BY <1>2, <1>3, <2>1, <2>2 DEF Asked
    <3>2. q2[plan.id].status = "conflict" /\ q2[plan.id].ent = e /\ plan.id \in DOMAIN q2
      BY <1>12, <1>13, <2>2, <3>1
    <3> HIDE DEF e, plan
    <3> QED
      BY <3>2 DEF Unsent
  <2>3. ASSUME plan.from = "apply", Unsent(q, e) PROVE Unsent(q2, e)
    <3>1. S = {}
      BY <1>13, <2>3
    <3>2. \A i \in DOMAIN q : i \in DOMAIN q2 /\ q2[i].ent = q[i].ent /\ q2[i].status = q[i].status
      BY <1>12, <3>1
    <3> HIDE DEF q, e
    <3> QED
      BY <2>3, <3>2 DEF Unsent
  <2>4. /\ row[d][e].st = "pending" => Unsent(q, e)
        /\ row[d][e].st = "conflict" => Unsent(q, e) \/ b[e] = NoBase
    BY <1>3, <2>1 DEF RowsQueued
  <2>5. CASE plan.step.do = "park"
    <3>1. b[e] # NoBase => IF plan.from = "answer" THEN plan.step.ask ELSE Unsent(q, e)
      BY <1>2, <2>1, <2>5 DEF PlanQueued
    <3>2. r[e].st = "conflict"
      BY <1>7, <1>11, <2>5
    <3>3. b[e] # NoBase => Unsent(q2, e)
      BY <1>3, <2>2, <2>3, <3>1
    <3> HIDE DEF e
    <3> QED
      BY <3>2, <3>3 DEF RowQueued
  <2>6. CASE plan.step.do = "parkDelete"
    <3>1. plan.step.ask
      BY <1>2, <2>1, <2>6 DEF PlanQueued
    <3>2. r[e].st = row[d][e].st
      BY <1>7, <1>11, <2>6
    <3>3. Unsent(q, e) => Unsent(q2, e)
      BY <1>3, <2>2, <2>3, <3>1
    <3> HIDE DEF e
    <3> QED
      BY <2>4, <3>2, <3>3 DEF RowQueued
  <2> QED
    BY <1>1, <2>5, <2>6
<1>16. SameBut(e, row[d], base[d], r, b)
  BY <1>11 DEF SameBut
<1>17. Carried(queue[d], q2, InConflict(eng[d].plan)) /\ e = eng[d].plan.ent /\ UNCHANGED spent
  BY <1>1, <1>12
<1> HIDE DEF b, e, plan
<1> QED
  BY <1>1, <1>2, <1>6, <1>9, <1>14, <1>15, <1>16, <1>17, QueueResumed

(* The inductive invariant.                                                *)
LEMMA QueueInit ==
  ASSUME Init
  PROVE  QueueInv
<1>1. /\ IdleEngine.pc = "idle" /\ IdleEngine.acks = <<>> /\ IdleEngine.batch = <<>>
  BY DEF IdleEngine
<1>2. DOMAIN <<>> = {}
  OBVIOUS
<1>3. ASSUME NEW d \in Device
      PROVE  Asked(queue[d], conf[d], eng[d]) /\ Remembered(row[d], queue[d], base[d], eng[d])
  <2>1. row[d] = [e \in Entity |-> NoRow] /\ queue[d] = <<>> /\ eng[d] = IdleEngine
    BY DEF Init
  <2>2. ~Deciding(eng[d])
    BY <1>1, <2>1 DEF Deciding
  <2>3. Asked(queue[d], conf[d], eng[d])
    BY <1>2, <2>1, <2>2 DEF Asked
  <2>4. RowsQueued(row[d], queue[d], base[d])
    BY <2>1 DEF RowsQueued
  <2>5. PlanQueued(queue[d], base[d], eng[d])
    BY <2>2 DEF PlanQueued
  <2>6. AcksQueued(queue[d], eng[d])
    BY <1>1, <1>2, <2>1 DEF AcksQueued
  <2> QED
    BY <2>3, <2>4, <2>5, <2>6 DEF Remembered
<1> QED
  BY <1>3 DEF QueueInv

LEMMA QueueNext ==
  ASSUME EngineInv, QueueInv, [Next]_vars
  PROVE  QueueInv'
<1>1. CASE UNCHANGED vars
  BY <1>1 DEF vars, QueueInv
<1>2. ASSUME NEW d \in Device, User(d) PROVE QueueInv'
  BY <1>2, QueueCreate, QueueDelete, QueueDecision, QueueEdit DEF User
<1>3. ASSUME NEW d \in Device, StartCycle(d) PROVE QueueInv'
  BY <1>3, QueueStartCycle
<1>4. ASSUME NEW d \in Device, Execute(d) PROVE QueueInv'
  BY <1>4, QueueInsertRemote, QueueWriteRemote, QueueWriteMergedRow, QueueQueueMerged, QueuePark DEF Execute
<1>5. ASSUME NEW d \in Device, Engine(d) PROVE QueueInv'
  BY <1>4, <1>5, QueueServerPush, QueueAckApplied, QueueAckConflict, QueueEndPush, QueueServerPull,
     QueueApplyChange, QueueEndPull DEF Engine
<1>6. ASSUME NEW d \in Device, Failure(d) PROVE QueueInv'
  BY <1>6, QueuePushFails, QueuePullFails, QueueCrash, QueueCrashInEdit DEF Failure
<1> QED
  BY <1>1, <1>2, <1>3, <1>5, <1>6 DEF Next

LEMMA QueueAlways == Spec => []QueueInv
<1>1. Init => QueueInv
  BY QueueInit
<1>2. EngineInv /\ QueueInv /\ [Next]_vars => QueueInv'
  BY QueueNext
<1> QED
  BY <1>1, <1>2, EngineAlways, PTL DEF Spec

(* A row with unsent changes has an operation in the queue that is not     *)
(* done with, whatever merges, lost answers, retries, crashes and new      *)
(* edits came between: no change waits for a push that never comes         *)
(* (SyncEngine.push, acknowledge, handleConflict, mergeRemote).  An edit   *)
(* that is torn between its row and its operation is the known exception,  *)
(* and nothing is said once the user has decided a conflict.               *)
THEOREM QueueSafety == Spec => [](spent.torn = 0 /\ spent.choices = 0 => PendingIsQueued)
<1>1. QueueInv => (spent.torn = 0 /\ spent.choices = 0 => PendingIsQueued)
  BY DEF QueueInv, Remembered, RowsQueued, Unsent, PendingIsQueued
<1> QED
  BY <1>1, QueueAlways, PTL

(* An operation that waits for the user has its conflict open, so that     *)
(* what waits for a decision is always put before the user, until the user *)
(* decides the first conflict: no later merge, answer or change closes it  *)
(* (SyncEngine.recordConflict, resolveOpenConflicts).                      *)
THEOREM AskSafety == Spec => [](spent.choices = 0 => ConflictIsAsked)
<1>1. QueueInv => (spent.choices = 0 => ConflictIsAsked)
  BY DEF QueueInv, Asked, LiveOps, ConflictIsAsked
<1> QED
  BY <1>1, QueueAlways, PTL

-----------------------------------------------------------------------------
(* What the user said                                                      *)
(*                                                                         *)
(* On a single device the newest operation of an entity holds what the row *)
(* shows, and the server takes the operations of an entity in the order in *)
(* which they were queued, or reports a conflict that stays open.          *)

(* Until the user decides a conflict, an edit is torn, or so many messages *)
(* are lost that an operation may have run out of attempts.                *)
Few == spent.torn = 0 /\ spent.choices = 0 /\ spent.faults < MAX_ATTEMPTS

OneDevice == \A d1, d2 \in Device : d1 = d2

Plain(q, n) ==
    \A i \in DOMAIN q : /\ ~q[i].urgent /\ q[i].attempts <= n
                        /\ q[i].status = "failed" => q[i].attempts >= MAX_ATTEMPTS

(* The batch, and the acks that are left of it, have the operations of an  *)
(* entity in the order of the queue.                                       *)
Sorted(q, x) ==
    /\ x.pc = "push" =>
          \A k, l \in DOMAIN x.batch :
             k < l /\ q[x.batch[k]].ent = q[x.batch[l]].ent => x.batch[k] < x.batch[l]
    /\ \A k, l \in DOMAIN x.acks :
          k < l /\ q[x.acks[k].id].ent = q[x.acks[l].id].ent => x.acks[k].id < x.acks[l].id
    /\ Answering(x) =>
          /\ Len(x.acks) <= Len(x.batch)
          /\ Len(x.acks) = Len(x.batch) => \A k \in DOMAIN x.batch : x.acks[k].id = x.batch[k]

(* What is done with comes first, then what is in flight, then what waits. *)
InOrder(q, e) ==
    \A i, j \in DOMAIN q : q[i].ent = e /\ q[j].ent = e /\ i < j =>
        /\ q[j].status = "synchronized" => q[i].status = "synchronized"
        /\ q[i].status = "pending" => q[j].status = "pending"

InFlight(q, x, e) ==
    /\ x.pc = "push" =>
          \A k \in DOMAIN x.batch : q[x.batch[k]].ent = e => q[x.batch[k]].status = "in_flight"
    /\ \A k \in DOMAIN x.acks : q[x.acks[k].id].ent = e => q[x.acks[k].id].status = "in_flight"

NewestOf(q, e, n) == n \in DOMAIN q /\ q[n].ent = e /\ \A j \in DOMAIN q : q[j].ent = e => j <= n

LastAck(q, a, e, k) ==
    /\ k \in DOMAIN a /\ q[a[k].id].ent = e
    /\ \A l \in DOMAIN a : q[a[l].id].ent = e => l <= k

Holds(s, val) == s # NoRow /\ s.val = val

(* The row r, the base b and the server's row s of an entity e that nobody *)
(* has deleted; val is what the user said.                                 *)
Shown(r, q, b, x, s, val, e) ==
    /\ b = NoBase
    /\ r = NoRow => s = NoRow /\ val = [f \in Field |-> 0]
    /\ r # NoRow => r.val = val /\ ~r.del
    /\ s # NoRow => ~s.del
    /\ \A i \in DOMAIN q : q[i].ent = e => ~q[i].del
    /\ Deciding(x) /\ x.plan.ent = e => x.plan.step.do = "park"
    /\ \A k \in DOMAIN x.acks :
          q[x.acks[k].id].ent = e /\ x.acks[k].status = "conflict" => ~x.acks[k].remote.del

Taken(r, q, x, s, e) ==
    /\ InOrder(q, e) /\ InFlight(q, x, e)
    /\ r # NoRow => \E n \in DOMAIN q : NewestOf(q, e, n) /\ q[n].val = r.val
    /\ \A n \in DOMAIN q : NewestOf(q, e, n) /\ q[n].status = "synchronized" => Holds(s, q[n].val)
    /\ \A k \in DOMAIN x.acks :
          LastAck(q, x.acks, e, k) /\ x.acks[k].status = "applied" => Holds(s, q[x.acks[k].id].val)

KeptOf(r, q, b, c, x, s, val, e) == Shown(r, q, b, x, s, val, e) /\ (c = NoConflict => Taken(r, q, x, s, e))

Kept(r, q, b, c, x, s, sd, n) ==
    /\ Plain(q, n) /\ Sorted(q, x) /\ x.changes = {}
    /\ \A e \in Entity : ~sd[e].del => KeptOf(r[e], q, b[e], c[e], x, s[e], sd[e].val, e)

KeptInv ==
    Few => \A d \in Device :
              Kept(row[d], queue[d], base[d], conf[d], eng[d], srv, said, spent.faults)

LEMMA KeptStep ==
  ASSUME OneDevice, EngineInv, NEW d \in Device, NEW r, NEW q, NEW b, NEW c, NEW x,
         row' = Put(row, d, r), queue' = Put(queue, d, q), base' = Put(base, d, b),
         conf' = Put(conf, d, c), eng' = Put(eng, d, x),
         Few' => Kept(r, q, b, c, x, srv', said', spent'.faults)
  PROVE  KeptInv'
<1>1. row'[d] = r /\ queue'[d] = q /\ base'[d] = b /\ conf'[d] = c /\ eng'[d] = x
  BY DEF EngineInv, TypeOK, Put
<1>2. \A d2 \in Device : d2 = d
  BY DEF OneDevice
<1> QED
  BY <1>1, <1>2 DEF KeptInv

(* Of a list of acks at most the first is dealt with, or all are dropped.  *)
Left(a, a2) == a2 = a \/ a2 = <<>> \/ (a # <<>> /\ a2 = Tail(a))

Shifted(a, a2, o) ==
    /\ \A k \in DOMAIN a2 : k \in Nat /\ k + o \in DOMAIN a /\ a2[k] = a[k + o]
    /\ \A l \in DOMAIN a : l \in Nat /\ (l <= o \/ l - o \in DOMAIN a2)

LEMMA LeftOver ==
  ASSUME NEW a \in Seq(Ack), NEW a2, Left(a, a2)
  PROVE  /\ a2 \in Seq(Ack) /\ Len(a) \in Nat /\ Len(a2) \in Nat
         /\ Len(a2) <= Len(a) /\ (Len(a2) = Len(a) => a2 = a)
         /\ \E o \in Nat : Shifted(a, a2, o)
<1> DEFINE n == Len(a)
<1>1. n \in Nat /\ DOMAIN a = 1..n
  OBVIOUS
<1>2. CASE a2 = a
  <2>1. Shifted(a, a2, 0)
    BY <1>1, <1>2 DEF Shifted
  <2>2. \E o \in Nat : Shifted(a, a2, o)
    BY <2>1
  <2> QED
    BY <1>1, <1>2, <2>2
<1>3. CASE a2 = <<>>
  <2>1. Len(a2) = 0 /\ a2 \in Seq(Ack) /\ DOMAIN a2 = {}
    BY <1>3
  <2>2. Len(a2) = n => a2 = a
    BY <1>1, <1>3, <2>1
  <2>3. Shifted(a, a2, n)
    BY <1>1, <2>1 DEF Shifted
  <2>4. \E o \in Nat : Shifted(a, a2, o)
    BY <1>1, <2>3
  <2> QED
    BY <1>1, <2>1, <2>2, <2>4
<1>4. CASE a # <<>> /\ a2 = Tail(a)
  <2>1. a2 \in Seq(Ack) /\ n > 0 /\ Len(a2) = n - 1 /\ \A k \in 1..(n - 1) : a2[k] = a[k + 1]
    BY <1>1, <1>4
  <2>2. DOMAIN a2 = 1..(n - 1)
    BY <2>1
  <2>3. /\ \A k \in 1..(n - 1) : k + 1 \in 1..n /\ k \in Nat
        /\ \A l \in 1..n : l \in Nat /\ (l <= 1 \/ l - 1 \in 1..(n - 1))
    BY <1>1
  <2>4. Shifted(a, a2, 1)
    BY <1>1, <2>1, <2>2, <2>3 DEF Shifted
  <2>5. \E o \in Nat : Shifted(a, a2, o)
    BY <2>4
  <2>6. a2 \in Seq(Ack) /\ n > 0 /\ Len(a2) = n - 1
    BY <2>1
  <2> HIDE DEF n
  <2>7. Len(a2) \in Nat /\ Len(a2) <= n /\ Len(a2) # n
    BY <1>1, <2>6
  <2> QED
    BY <1>1, <2>5, <2>6, <2>7 DEF n
<1> QED
  BY <1>2, <1>3, <1>4 DEF Left

(* The engine goes on with what is left of its acks. *)
LEMMA SortedLeft ==
  ASSUME NEW q, NEW q2, NEW x, NEW y, Sorted(q, x), x.acks \in Seq(Ack), x.batch \in Seq(Nat),
         Left(x.acks, y.acks), y.batch = x.batch, y.pc # "push", Answering(y) => Answering(x),
         \A k \in DOMAIN x.acks : x.acks[k].id \in DOMAIN q,
         \A i \in DOMAIN q : q2[i].ent = q[i].ent
  PROVE  Sorted(q2, y)
<1> DEFINE a == x.acks
           a2 == y.acks
<1>1. Len(a) \in Nat /\ Len(a2) \in Nat /\ Len(a2) <= Len(a) /\ (Len(a2) = Len(a) => a2 = a)
  BY LeftOver
<1>2. PICK o \in Nat : Shifted(a, a2, o)
  BY LeftOver
<1>3. Len(x.batch) \in Nat
  OBVIOUS
<1>4. ASSUME Answering(y)
      PROVE  /\ Len(a2) <= Len(x.batch)
             /\ Len(a2) = Len(x.batch) => \A k \in DOMAIN x.batch : a2[k].id = x.batch[k]
  <2>1. /\ Len(a) <= Len(x.batch)
        /\ Len(a) = Len(x.batch) => \A k \in DOMAIN x.batch : a[k].id = x.batch[k]
    BY <1>4 DEF Sorted
  <2> HIDE DEF a, a2
  <2> QED
    BY <1>1, <1>3, <2>1
<1> HIDE DEF a, a2
<1>5. ASSUME NEW k \in DOMAIN a2, NEW l \in DOMAIN a2, k < l, q2[a2[k].id].ent = q2[a2[l].id].ent
      PROVE  a2[k].id < a2[l].id
  <2>1. k + o \in DOMAIN a /\ l + o \in DOMAIN a /\ k + o < l + o /\ a2[k] = a[k + o] /\ a2[l] = a[l + o]
    BY <1>2, <1>5 DEF Shifted
  <2>2. q[a[k + o].id].ent = q[a[l + o].id].ent
    BY <1>5, <2>1 DEF a
  <2>3. a[k + o].id < a[l + o].id
    BY <2>1, <2>2 DEF Sorted, a
  <2> QED
    BY <2>1, <2>3
<1> QED
  BY <1>4, <1>5 DEF Sorted, a2

(* Nothing of the entity e is different in q2. *)
SameFor(q, q2, e) ==
    /\ DOMAIN q \subseteq DOMAIN q2
    /\ \A i \in DOMAIN q :
          /\ q2[i].ent = q[i].ent
          /\ q[i].ent = e => q2[i].status = q[i].status /\ q2[i].val = q[i].val /\ q2[i].del = q[i].del
    /\ \A i \in DOMAIN q2 \ DOMAIN q : q2[i].ent # e

LEMMA SameNewest ==
  ASSUME NEW q, NEW q2, NEW e, SameFor(q, q2, e)
  PROVE  \A n : /\ NewestOf(q, e, n) => NewestOf(q2, e, n)
                /\ NewestOf(q2, e, n) => NewestOf(q, e, n)
BY DEF SameFor, NewestOf

(* A step elsewhere. *)
LEMMA KeptElsewhere ==
  ASSUME NEW q, NEW q2, NEW x, NEW y, NEW r, NEW b, NEW c, NEW s, NEW val, NEW e,
         KeptOf(r, q, b, c, x, s, val, e), SameFor(q, q2, e), x.acks \in Seq(Ack),
         Left(x.acks, y.acks), y.pc = "push" => x.pc = "push" /\ y.batch = x.batch,
         Deciding(y) /\ y.plan.ent = e => Deciding(x) /\ y.plan = x.plan,
         \A k \in DOMAIN x.acks : x.acks[k].id \in DOMAIN q,
         \A k \in DOMAIN x.batch : x.batch[k] \in DOMAIN q
  PROVE  KeptOf(r, q2, b, c, y, s, val, e)
<1> DEFINE a == x.acks
           a2 == y.acks
<1>1. PICK o \in Nat : Shifted(a, a2, o)
  BY LeftOver
<1>2. \A k \in DOMAIN a : a[k].id \in DOMAIN q
  OBVIOUS
<1> HIDE DEF a, a2
<1>3. \A k \in DOMAIN a2 : a2[k].id \in DOMAIN q /\ q2[a2[k].id].ent = q[a2[k].id].ent
  BY <1>1, <1>2 DEF SameFor, Shifted
<1>4. Shown(r, q2, b, y, s, val, e)
  <2>1. Shown(r, q, b, x, s, val, e)
    BY DEF KeptOf
  <2>2. \A i \in DOMAIN q2 : q2[i].ent = e => ~q2[i].del
    BY <2>1 DEF Shown, SameFor
  <2>3. Deciding(y) /\ y.plan.ent = e => y.plan.step.do = "park"
    BY <2>1 DEF Shown
  <2>4. ASSUME NEW k \in DOMAIN a2, q2[a2[k].id].ent = e, a2[k].status = "conflict"
        PROVE  ~a2[k].remote.del
    <3>1. k + o \in DOMAIN a /\ a2[k] = a[k + o] /\ q[a2[k].id].ent = e
      BY <1>1, <1>3, <2>4 DEF Shifted
    <3> QED
      BY <2>1, <2>4, <3>1 DEF Shown, a
  <2> QED
    BY <2>1, <2>2, <2>3, <2>4 DEF Shown, a2
<1>5. ASSUME c = NoConflict PROVE Taken(r, q2, y, s, e)
  <2>1. Taken(r, q, x, s, e)
    BY <1>5 DEF KeptOf
  <2>2. InOrder(q2, e)
    <3>1. InOrder(q, e)
      BY <2>1 DEF Taken
    <3>2. \A i \in DOMAIN q2 : q2[i].ent = e => i \in DOMAIN q /\ q[i].ent = e /\ q2[i].status = q[i].status
      BY DEF SameFor
    <3> QED
      BY <3>1, <3>2 DEF InOrder
  <2>3. InFlight(q2, y, e)
    <3>1. InFlight(q, x, e)
      BY <2>1 DEF Taken
    <3>2. ASSUME NEW k \in DOMAIN a2, q2[a2[k].id].ent = e PROVE q2[a2[k].id].status = "in_flight"
      <4>1. k + o \in DOMAIN a /\ a2[k] = a[k + o] /\ q[a2[k].id].ent = e
        BY <1>1, <1>3, <3>2 DEF Shifted
      <4>2. q[a2[k].id].status = "in_flight"
        BY <3>1, <4>1 DEF InFlight, a
      <4> QED
        BY <1>3, <4>1, <4>2 DEF SameFor
    <3>3. ASSUME y.pc = "push", NEW k \in DOMAIN y.batch, q2[y.batch[k]].ent = e
          PROVE  q2[y.batch[k]].status = "in_flight"
      <4>1. x.pc = "push" /\ y.batch = x.batch /\ x.batch[k] \in DOMAIN q
        BY <3>3
      <4>2. q[x.batch[k]].ent = e
        BY <3>3, <4>1 DEF SameFor
      <4>3. q[x.batch[k]].status = "in_flight"
        BY <3>1, <3>3, <4>1, <4>2 DEF InFlight
      <4> QED
        BY <4>1, <4>2, <4>3 DEF SameFor
    <3> QED
      BY <3>2, <3>3 DEF InFlight, a2
  <2>4. r # NoRow => \E n \in DOMAIN q2 : NewestOf(q2, e, n) /\ q2[n].val = r.val
    <3> SUFFICES ASSUME r # NoRow PROVE \E n \in DOMAIN q2 : NewestOf(q2, e, n) /\ q2[n].val = r.val
      OBVIOUS
    <3>1. PICK n \in DOMAIN q : NewestOf(q, e, n) /\ q[n].val = r.val
      BY <2>1 DEF Taken
    <3>2. NewestOf(q2, e, n) /\ q[n].ent = e
      BY <3>1, SameNewest DEF NewestOf
    <3>3. n \in DOMAIN q2 /\ q2[n].val = r.val
      BY <3>1, <3>2 DEF SameFor
    <3> QED
      BY <3>2, <3>3
  <2>5. ASSUME NEW n \in DOMAIN q2, NewestOf(q2, e, n), q2[n].status = "synchronized"
        PROVE  Holds(s, q2[n].val)
    <3>1. NewestOf(q, e, n) /\ n \in DOMAIN q /\ q[n].ent = e
      BY <2>5, SameNewest DEF NewestOf
    <3>2. q2[n].status = q[n].status /\ q2[n].val = q[n].val
      BY <3>1 DEF SameFor
    <3> QED
      BY <2>1, <2>5, <3>1, <3>2 DEF Taken
  <2>6. ASSUME NEW k \in DOMAIN a2, LastAck(q2, a2, e, k), a2[k].status = "applied"
        PROVE  Holds(s, q2[a2[k].id].val)
    <3> SUFFICES Holds(s, q[a2[k].id].val)
      BY <1>3, <2>6 DEF LastAck, SameFor
    <3>1. k + o \in DOMAIN a /\ a2[k] = a[k + o] /\ q[a[k + o].id].ent = e
      BY <1>1, <1>3, <2>6 DEF LastAck, Shifted
    <3>2. ASSUME NEW l \in DOMAIN a, q[a[l].id].ent = e PROVE l <= k + o
      <4>1. k \in Nat /\ l \in Nat /\ (l <= o \/ l - o \in DOMAIN a2)
        BY <1>1, <2>6 DEF LastAck, Shifted
      <4>2. CASE l <= o
        BY <4>1, <4>2
      <4>3. CASE l - o \in DOMAIN a2
        <5>1. a2[l - o] = a[(l - o) + o] /\ (l - o) + o = l
          BY <1>1, <4>1, <4>3 DEF Shifted
        <5>2. q2[a2[l - o].id].ent = e
          BY <1>3, <3>2, <4>3, <5>1
        <5>3. l - o <= k
          BY <2>6, <4>3, <5>2 DEF LastAck
        <5> QED
          BY <4>1, <5>3
      <4> QED
        BY <4>1, <4>2, <4>3
    <3>3. LastAck(q, a, e, k + o)
      BY <3>1, <3>2 DEF LastAck
    <3> QED
      BY <2>1, <2>6, <3>1, <3>3 DEF Taken, a
  <2> QED
    BY <2>1, <2>2, <2>3, <2>4, <2>5, <2>6 DEF Taken, a2
<1> QED
  BY <1>4, <1>5 DEF KeptOf

(* The bounds that Few speaks about, before a step. *)
LEMMA FewBefore ==
  ASSUME spent \in Spent, NEW what \in {"edits", "faults", "crashes", "torn", "choices"}, Spend(what), Few'
  PROVE  /\ Few /\ what # "choices" /\ what # "torn"
         /\ spent'.faults = IF what = "faults" THEN spent.faults + 1 ELSE spent.faults
         /\ spent.faults \in Nat /\ spent'.faults < MAX_ATTEMPTS
<1>1. spent' = [spent EXCEPT ![what] = spent[what] + 1]
  BY DEF Spend
<1>2. /\ spent.choices \in Nat /\ spent.torn \in Nat /\ spent.faults \in Nat
      /\ spent \in [{"edits", "faults", "crashes", "torn", "choices"} -> Nat] /\ MAX_ATTEMPTS \in Nat
  BY EngineAssumption DEF Spent
<1>3. what = "choices" => spent'.choices = spent.choices + 1
  BY <1>1, <1>2
<1>4. what = "torn" => spent'.torn = spent.torn + 1
  BY <1>1, <1>2
<1>5. what # "choices" => spent'.choices = spent.choices
  BY <1>1, <1>2
<1>6. what # "torn" => spent'.torn = spent.torn
  BY <1>1, <1>2
<1>7. spent'.faults = IF what = "faults" THEN spent.faults + 1 ELSE spent.faults
  BY <1>1, <1>2
<1>8. spent'.torn = 0 /\ spent'.choices = 0 /\ spent'.faults < MAX_ATTEMPTS
  BY DEF Few
<1>9. what # "choices" /\ what # "torn"
  BY <1>2, <1>3, <1>4, <1>8
<1>10. spent.torn = 0 /\ spent.choices = 0
  BY <1>5, <1>6, <1>8, <1>9
<1>11. spent.faults < MAX_ATTEMPTS
  BY <1>2, <1>7, <1>8
<1> QED
  BY <1>2, <1>7, <1>8, <1>9, <1>10, <1>11 DEF Few

LEMMA KeptHere ==
  ASSUME KeptInv, Few, NEW d \in Device
  PROVE  /\ Plain(queue[d], spent.faults) /\ Sorted(queue[d], eng[d]) /\ eng[d].changes = {}
         /\ \A e \in Entity : ~said[e].del =>
               /\ KeptOf(row[d][e], queue[d], base[d][e], conf[d][e], eng[d], srv[e], said[e].val, e)
               /\ Shown(row[d][e], queue[d], base[d][e], eng[d], srv[e], said[e].val, e)
BY DEF KeptInv, Kept, KeptOf

(* The user adds a change to the queue. *)
LEMMA AddedKept ==
  ASSUME NEW q \in Seq(QueuedOp), NEW op \in QueuedOp, op.status = "pending", ~op.del, NEW e, op.ent = e,
         NEW x, NEW r, NEW b, NEW c, NEW s, NEW val0, KeptOf(r, q, b, c, x, s, val0, e),
         NEW r2, r2 # NoRow, r2.val = op.val, ~r2.del,
         \A k \in DOMAIN x.acks : x.acks[k].id \in DOMAIN q,
         \A k \in DOMAIN x.batch : x.batch[k] \in DOMAIN q
  PROVE  KeptOf(r2, Append(q, op), b, c, x, s, op.val, e)
<1> DEFINE q2 == Append(q, op)
           n == Len(q) + 1
<1>1. /\ n \in Nat /\ n \in DOMAIN q2 /\ q2[n] = op /\ DOMAIN q2 = DOMAIN q \cup {n}
      /\ \A i \in DOMAIN q : i \in Nat /\ i < n /\ q2[i] = q[i]
  OBVIOUS
<1> HIDE DEF q2, n
<1>2. Shown(r2, q2, b, x, s, op.val, e)
  <2>1. Shown(r, q, b, x, s, val0, e)
    BY DEF KeptOf
  <2>2. \A i \in DOMAIN q2 : q2[i].ent = e => ~q2[i].del
    BY <1>1, <2>1 DEF Shown
  <2>3. \A k \in DOMAIN x.acks :
           q2[x.acks[k].id].ent = e /\ x.acks[k].status = "conflict" => ~x.acks[k].remote.del
    BY <1>1, <2>1 DEF Shown
  <2>4. /\ b = NoBase /\ (s # NoRow => ~s.del)
        /\ Deciding(x) /\ x.plan.ent = e => x.plan.step.do = "park"
    BY <2>1 DEF Shown
  <2> QED
    BY <2>2, <2>3, <2>4 DEF Shown
<1>3. ASSUME c = NoConflict PROVE Taken(r2, q2, x, s, e)
  <2>1. Taken(r, q, x, s, e)
    BY <1>3 DEF KeptOf
  <2>2. InOrder(q2, e)
    <3>1. InOrder(q, e)
      BY <2>1 DEF Taken
    <3>2. ASSUME NEW i \in DOMAIN q2, NEW j \in DOMAIN q2, q2[i].ent = e, q2[j].ent = e, i < j
          PROVE  /\ q2[j].status = "synchronized" => q2[i].status = "synchronized"
                 /\ q2[i].status = "pending" => q2[j].status = "pending"
      <4>1. CASE j = n
        BY <1>1, <4>1
      <4>2. CASE j # n
        <5>1. i \in DOMAIN q /\ j \in DOMAIN q
          BY <1>1, <3>2, <4>2
        <5> QED
          BY <1>1, <3>1, <3>2, <5>1 DEF InOrder
      <4> QED
        BY <4>1, <4>2
    <3> QED
      BY <3>2 DEF InOrder
  <2>3. InFlight(q2, x, e)
    BY <1>1, <2>1 DEF Taken, InFlight
  <2>4. NewestOf(q2, e, n)
    BY <1>1 DEF NewestOf
  <2>5. \A m \in DOMAIN q2 : NewestOf(q2, e, m) => m = n
    <3>1. \A i \in DOMAIN q2 : i \in Nat
      BY <1>1
    <3> SUFFICES ASSUME NEW m \in DOMAIN q2, NewestOf(q2, e, m) PROVE m = n
      OBVIOUS
    <3>2. n <= m /\ m <= n
      BY <1>1, <2>4 DEF NewestOf
    <3> QED
      BY <1>1, <3>1, <3>2
  <2>6. \A k \in DOMAIN x.acks :
          LastAck(q2, x.acks, e, k) /\ x.acks[k].status = "applied" => Holds(s, q2[x.acks[k].id].val)
    <3> TAKE k \in DOMAIN x.acks
    <3> HAVE LastAck(q2, x.acks, e, k) /\ x.acks[k].status = "applied"
    <3>1. LastAck(q, x.acks, e, k)
      BY <1>1 DEF LastAck
    <3>2. Holds(s, q[x.acks[k].id].val)
      BY <2>1, <3>1 DEF Taken
    <3> QED
      BY <1>1, <3>2
  <2>7. n \in DOMAIN q2 /\ q2[n].val = r2.val /\ q2[n].status # "synchronized"
    BY <1>1
  <2> QED
    BY <2>2, <2>3, <2>4, <2>5, <2>6, <2>7 DEF Taken
<1> QED
  BY <1>2, <1>3 DEF KeptOf, q2

LEMMA KeptQueued ==
  ASSUME OneDevice, EngineInv, KeptInv, NEW d \in Device, NEW e \in Entity, NEW n \in LocalRow,
         NEW op \in QueuedOp, op.ent = e, op.status = "pending", ~op.urgent, op.attempts = 0,
         op.val = n.val, op.del = n.del,
         SetRow(d, e, n), Enqueue(d, op), Spend("edits"), UNCHANGED <<base, conf, eng, srv>>,
         \A e2 \in Entity : e2 # e => said'[e2] = said[e2],
         Few /\ ~said'[e].del => ~said[e].del /\ ~n.del /\ said'[e].val = n.val
  PROVE  KeptInv'
<1> DEFINE r == [row[d] EXCEPT ![e] = n]
           q == queue[d]
           q2 == Append(q, op)
           b == base[d]
           c == conf[d]
           x == eng[d]
<1>1. row' = Put(row, d, r)
  BY Here DEF SetRow, Put, Rows, TypeOK
<1>2. queue' = Put(queue, d, q2)
  BY Here DEF Enqueue, Put, TypeOK
<1>3. base' = Put(base, d, b) /\ conf' = Put(conf, d, c) /\ eng' = Put(eng, d, x) /\ srv' = srv
  BY Here
<1>4. q \in Seq(QueuedOp) /\ row[d] \in Rows /\ n # NoRow
  BY Here, EngineAssumption
<1>5. r[e] = n /\ \A e2 \in Entity : e2 # e => r[e2] = row[d][e2]
  BY <1>4 DEF Rows
<1>6. /\ \A i \in DOMAIN q : q2[i] = q[i]
      /\ \A i \in DOMAIN q2 \ DOMAIN q : q2[i] = op
      /\ DOMAIN q \subseteq DOMAIN q2
  BY <1>4, AppendCarries DEF Carried
<1>7. /\ \A k \in DOMAIN x.batch : x.batch[k] \in DOMAIN q
      /\ \A k \in DOMAIN x.acks : x.acks[k].id \in DOMAIN q
      /\ x.acks \in Seq(Ack)
  BY Pointers
<1>8. ASSUME Few' PROVE Kept(r, q2, b, c, x, srv', said', spent'.faults)
  <2>1. Few /\ spent'.faults = spent.faults /\ spent.faults \in Nat
    BY <1>8, Here, FewBefore
  <2>2. Plain(q, spent.faults) /\ Sorted(q, x) /\ x.changes = {}
    BY <2>1, KeptHere
  <2>3. \A e2 \in Entity : ~said[e2].del => KeptOf(row[d][e2], q, b[e2], c[e2], x, srv[e2], said[e2].val, e2)
    BY <2>1, KeptHere
  <2> HIDE DEF q, q2, x, r, b, c
  <2>4. Plain(q2, spent'.faults)
    <3>1. \A i \in DOMAIN q2 : q2[i] = op \/ (i \in DOMAIN q /\ q2[i] = q[i])
      BY <1>6
    <3> QED
      BY <2>1, <2>2, <3>1 DEF Plain
  <2>5. Sorted(q2, x)
    BY <1>6, <1>7, <2>2 DEF Sorted
  <2>6. ASSUME NEW e2 \in Entity, ~said'[e2].del
        PROVE  KeptOf(r[e2], q2, b[e2], c[e2], x, srv'[e2], said'[e2].val, e2)
    <3>1. CASE e2 = e
      <4>1. ~said[e].del /\ ~n.del /\ said'[e].val = op.val
        BY <2>1, <2>6, <3>1
      <4>2. KeptOf(row[d][e], q, b[e], c[e], x, srv[e], said[e].val, e)
        BY <2>3, <4>1
      <4>3. n.val = op.val /\ ~op.del
        BY <4>1
      <4>4. KeptOf(n, q2, b[e], c[e], x, srv[e], op.val, e)
        BY <1>4, <1>7, <4>1, <4>2, <4>3, AddedKept DEF q2
      <4> QED
        BY <1>3, <1>5, <3>1, <4>1, <4>4
    <3>2. CASE e2 # e
      <4>1. KeptOf(row[d][e2], q, b[e2], c[e2], x, srv[e2], said[e2].val, e2)
        BY <2>3, <2>6, <3>2
      <4>2. SameFor(q, q2, e2)
        BY <1>6, <3>2 DEF SameFor
      <4>3. Left(x.acks, x.acks)
        BY DEF Left
      <4>4. KeptOf(row[d][e2], q2, b[e2], c[e2], x, srv[e2], said[e2].val, e2)
        BY <1>7, <4>1, <4>2, <4>3, KeptElsewhere
      <4> QED
        BY <1>3, <1>5, <3>2, <4>4
    <3> QED
      BY <3>1, <3>2
  <2> QED
    BY <2>2, <2>4, <2>5, <2>6 DEF Kept
<1> HIDE DEF r, q2, b, c, x
<1> QED
  BY <1>1, <1>2, <1>3, <1>8, KeptStep

LEMMA KeptCreate ==
  ASSUME OneDevice, EngineInv, KeptInv, NEW d \in Device, NEW e \in Entity, Create(d, e)
  PROVE  KeptInv'
<1> DEFINE zero == [f \in Field |-> 0]
           n == [ver |-> 1, val |-> zero, del |-> FALSE, st |-> "pending"]
           op == OpOf(e, "create", 0, n, FALSE)
<1>1. /\ SetRow(d, e, n) /\ Enqueue(d, op) /\ Spend("edits") /\ UNCHANGED <<base, conf, eng, srv, said>>
      /\ row[d][e] = NoRow
  BY DEF Create, server
<1>2. n \in LocalRow
  BY EngineAssumption DEF LocalRow, Values
<1>3. n.val = zero /\ n.del = FALSE
  OBVIOUS
<1> HIDE DEF n
<1>4. /\ op \in QueuedOp /\ op.ent = e /\ op.status = "pending" /\ ~op.urgent /\ op.attempts = 0
      /\ op.val = n.val /\ op.del = n.del
  BY <1>2, OpTyped DEF OpOf
<1> HIDE DEF op, zero
<1>5. ASSUME Few, ~said'[e].del PROVE ~said[e].del /\ ~n.del /\ said'[e].val = n.val
  <2>1. ~said[e].del /\ said'[e] = said[e]
    BY <1>1, <1>5
  <2>2. Shown(row[d][e], queue[d], base[d][e], eng[d], srv[e], said[e].val, e)
    BY <1>5, <2>1, KeptHere
  <2>3. said[e].val = zero
    BY <1>1, <2>2 DEF Shown, zero
  <2> QED
    BY <1>3, <2>1, <2>3
<1> QED
  BY <1>1, <1>2, <1>4, <1>5, KeptQueued

LEMMA KeptUpdate ==
  ASSUME OneDevice, EngineInv, KeptInv, NEW d \in Device, NEW e \in Entity, NEW n \in LocalRow,
         row[d][e] # NoRow, Update(d, e, n), Spend("edits"), UNCHANGED <<base, conf, eng, srv>>
  PROVE  KeptInv'
<1> DEFINE op == OpOf(e, "update", row[d][e].ver, n, FALSE)
           v == [f \in Field |-> IF n.val[f] # row[d][e].val[f] THEN n.val[f] ELSE said[e].val[f]]
           new == [val |-> v, del |-> said[e].del \/ n.del]
<1>1. SetRow(d, e, n) /\ Enqueue(d, op)
  BY DEF Update
<1>2. row[d][e].ver \in Nat /\ row[d][e].val \in Values /\ n.val \in Values /\ said \in [Entity -> Content]
  BY Here DEF Rows, LocalRow
<1>3. /\ op \in QueuedOp /\ op.ent = e /\ op.status = "pending" /\ ~op.urgent /\ op.attempts = 0
      /\ op.val = n.val /\ op.del = n.del
  BY <1>2, OpTyped DEF OpOf
<1>4. said' = [said EXCEPT ![e] = new]
  BY DEF Update
<1>5. said'[e].val = v /\ said'[e].del = (said[e].del \/ n.del)
  BY <1>2, <1>4
<1>6. \A e2 \in Entity : e2 # e => said'[e2] = said[e2]
  BY <1>2, <1>4
<1> HIDE DEF op
<1>7. ASSUME Few, ~said'[e].del PROVE ~said[e].del /\ ~n.del /\ said'[e].val = n.val
  <2>1. ~said[e].del /\ ~n.del
    BY <1>5, <1>7
  <2>2. Shown(row[d][e], queue[d], base[d][e], eng[d], srv[e], said[e].val, e)
    BY <1>7, <2>1, KeptHere
  <2>3. row[d][e].val = said[e].val
    BY <2>2 DEF Shown
  <2>4. v = [f \in Field |-> n.val[f]]
    BY <2>3
  <2>5. n.val = [f \in Field |-> n.val[f]]
    BY <1>2 DEF Values
  <2> QED
    BY <1>5, <2>1, <2>4, <2>5
<1> HIDE DEF v
<1> QED
  BY <1>1, <1>3, <1>6, <1>7, KeptQueued

LEMMA KeptEdit ==
  ASSUME OneDevice, EngineInv, KeptInv, NEW d \in Device, NEW e \in Entity, NEW f \in Field, Edit(d, e, f)
  PROVE  KeptInv'
<1> DEFINE n == Bumped(row[d][e], [row[d][e].val EXCEPT ![f] = spent.edits + 1], FALSE)
<1>1. n \in LocalRow /\ row[d][e] # NoRow
  BY Here, EditedRow DEF Edit, MayAct
<1>2. Update(d, e, n) /\ Spend("edits") /\ UNCHANGED <<base, conf, eng, srv>>
  BY DEF Edit, server
<1> HIDE DEF n
<1> QED
  BY <1>1, <1>2, KeptUpdate

LEMMA KeptDelete ==
  ASSUME OneDevice, EngineInv, KeptInv, NEW d \in Device, NEW e \in Entity, Delete(d, e)
  PROVE  KeptInv'
<1> DEFINE n == Bumped(row[d][e], row[d][e].val, TRUE)
<1>1. row[d][e] # NoRow
  BY DEF Delete, Visible
<1>2. row[d][e] \in LocalRow /\ row[d][e].val \in Values
  BY <1>1, Here DEF Rows, LocalRow
<1>3. n \in LocalRow
  BY <1>2, BumpedRow
<1>4. Update(d, e, n) /\ Spend("edits") /\ UNCHANGED <<base, conf, eng, srv>>
  BY DEF Delete, server
<1> HIDE DEF n
<1> QED
  BY <1>1, <1>3, <1>4, KeptUpdate

(* Once the user decides, or an edit is torn, nothing more is said. *)
LEMMA KeptDecision ==
  ASSUME EngineInv, NEW d \in Device, NEW e \in Entity, KeepLocal(d, e) \/ KeepRemote(d, e) \/ KeepMerged(d, e)
  PROVE  KeptInv'
<1>1. Spend("choices")
  BY DEF KeepLocal, KeepRemote, KeepMerged
<1>2. ~Few'
  BY <1>1, Here, FewBefore
<1> QED
  BY <1>2 DEF KeptInv

LEMMA KeptCrashInEdit ==
  ASSUME EngineInv, NEW d \in Device, NEW e \in Entity, NEW f \in Field, CrashInEdit(d, e, f)
  PROVE  KeptInv'
<1>1. spent' = [spent EXCEPT !.edits = spent.edits + 1, !.torn = spent.torn + 1] /\ spent \in Spent
  BY Here DEF CrashInEdit
<1>2. spent'.torn = spent.torn + 1 /\ spent.torn \in Nat
  BY <1>1 DEF Spent
<1>3. ~Few'
  BY <1>2 DEF Few
<1> QED
  BY <1>3 DEF KeptInv

(* A cycle begins, goes on or breaks off: operations are put in flight and *)
(* come back.                                                              *)
SameOps(q, q2) ==
    /\ DOMAIN q2 = DOMAIN q
    /\ \A i \in DOMAIN q :
          /\ q2[i].ent = q[i].ent /\ q2[i].val = q[i].val /\ q2[i].del = q[i].del
          /\ q2[i].urgent = q[i].urgent

LEMMA MarkedKeeps ==
  ASSUME NEW q \in Seq(QueuedOp), NEW S, NEW status \in Live \cup {"synchronized", "failed"}
  PROVE  /\ SameOps(q, Marked(q, S, status))
         /\ \A i \in DOMAIN q :
               /\ Marked(q, S, status)[i].attempts = q[i].attempts
               /\ Marked(q, S, status)[i].status = IF i \in S THEN status ELSE q[i].status
<1> DEFINE m == Marked(q, S, status)
<1>1. DOMAIN m = DOMAIN q
  BY DEF Marked
<1>2. ASSUME NEW i \in DOMAIN q
      PROVE  /\ m[i].ent = q[i].ent /\ m[i].val = q[i].val /\ m[i].del = q[i].del
             /\ m[i].urgent = q[i].urgent
  <2> DEFINE s == [q[i] EXCEPT !.status = status]
  <2>1. q[i] \in QueuedOp
    OBVIOUS
  <2>2. s.ent = q[i].ent /\ s.val = q[i].val /\ s.del = q[i].del /\ s.urgent = q[i].urgent
    BY <2>1 DEF QueuedOp
  <2>3. m[i] = IF i \in S THEN s ELSE q[i]
    BY DEF Marked
  <2> HIDE DEF s, m
  <2> QED
    BY <2>2, <2>3
<1>3. \A i \in DOMAIN q : m[i].attempts = q[i].attempts /\ m[i].status = IF i \in S THEN status ELSE q[i].status
  BY MarkedOps
<1> QED
  BY <1>1, <1>2, <1>3 DEF SameOps

(* While no conflict of an entity is open its operations wait, are in      *)
(* flight or are done with.                                                *)
Three(q, e) == \A i \in DOMAIN q : q[i].ent = e => q[i].status \in {"pending", "in_flight", "synchronized"}

LEMMA ThreeStates ==
  ASSUME EngineInv, QueueInv, KeptInv, Few, NEW d \in Device, NEW e \in Entity, conf[d][e] = NoConflict
  PROVE  Three(queue[d], e)
<1> DEFINE q == queue[d]
<1>1. q \in Seq(QueuedOp) /\ spent.faults \in Nat /\ MAX_ATTEMPTS \in Nat
  BY Here, EngineAssumption DEF Spent
<1>2. Plain(q, spent.faults)
  BY KeptHere
<1>3. spent.faults < MAX_ATTEMPTS /\ spent.choices = 0
  BY DEF Few
<1>4. Asked(q, conf[d], eng[d])
  BY <1>3 DEF QueueInv
<1> HIDE DEF q
<1>5. ASSUME NEW i \in DOMAIN q, q[i].ent = e PROVE q[i].status \in {"pending", "in_flight", "synchronized"}
  <2>1. q[i] \in QueuedOp
    BY <1>1
  <2>2. q[i].status \in Live \cup {"synchronized", "failed"} /\ q[i].attempts \in 0..MAX_ATTEMPTS
    BY <2>1 DEF QueuedOp
  <2>3. q[i].status # "conflict"
    BY <1>4, <1>5 DEF Asked
  <2>4. q[i].attempts <= spent.faults /\ (q[i].status = "failed" => q[i].attempts >= MAX_ATTEMPTS)
    BY <1>2 DEF Plain
  <2>5. q[i].attempts \in Nat
    BY <1>1, <2>2
  <2>6. q[i].status # "failed"
    BY <1>1, <1>3, <2>4, <2>5
  <2> QED
    BY <2>2, <2>3, <2>6 DEF Live
<1> QED
  BY <1>5 DEF Three, q

Launched(q, y, e) ==
    y.pc = "push" => \A k \in DOMAIN y.batch : q[y.batch[k]].ent = e => q[y.batch[k]].status = "in_flight"

LEMMA KeptOnward ==
  ASSUME NEW q, NEW q2, NEW x, NEW y, NEW r, NEW b, NEW c, NEW s, NEW val, NEW e,
         KeptOf(r, q, b, c, x, s, val, e), SameOps(q, q2),
         \A i \in DOMAIN q : q2[i].status = "synchronized" => q[i].status = "synchronized",
         ~Deciding(y), y.acks = <<>>,
         c = NoConflict /\ InOrder(q, e) /\ InFlight(q, x, e) => InOrder(q2, e) /\ Launched(q2, y, e)
  PROVE  KeptOf(r, q2, b, c, y, s, val, e)
<1>1. DOMAIN y.acks = {}
  OBVIOUS
<1>2. Shown(r, q2, b, y, s, val, e)
  BY <1>1 DEF KeptOf, Shown, SameOps
<1>3. ASSUME c = NoConflict PROVE Taken(r, q2, y, s, e)
  <2>1. Taken(r, q, x, s, e)
    BY <1>3 DEF KeptOf
  <2>2. InOrder(q2, e) /\ Launched(q2, y, e)
    BY <1>3, <2>1 DEF Taken
  <2>3. InFlight(q2, y, e)
    BY <1>1, <2>2 DEF InFlight, Launched
  <2>4. \A n : NewestOf(q2, e, n) <=> NewestOf(q, e, n)
    BY DEF NewestOf, SameOps
  <2>5. r # NoRow => \E n \in DOMAIN q2 : NewestOf(q2, e, n) /\ q2[n].val = r.val
    BY <2>1, <2>4 DEF Taken, SameOps
  <2>6. \A n \in DOMAIN q2 : NewestOf(q2, e, n) /\ q2[n].status = "synchronized" => Holds(s, q2[n].val)
    BY <2>1, <2>4 DEF Taken, SameOps
  <2> QED
    BY <1>1, <2>2, <2>3, <2>5, <2>6 DEF Taken
<1> QED
  BY <1>2, <1>3 DEF KeptOf

LEMMA KeptTurned ==
  ASSUME OneDevice, EngineInv, KeptInv, NEW d \in Device, NEW q, NEW y, SameOps(queue[d], q),
         \A i \in DOMAIN queue[d] : q[i].status = "synchronized" => queue[d][i].status = "synchronized",
         ~Deciding(y), y.acks = <<>>,
         Few' => Few /\ Plain(q, spent'.faults) /\ Sorted(q, y) /\ y.changes = {},
         Few' => \A e \in Entity :
                    conf[d][e] = NoConflict /\ InOrder(queue[d], e) /\ InFlight(queue[d], eng[d], e) =>
                        InOrder(q, e) /\ Launched(q, y, e),
         queue' = Put(queue, d, q), eng' = Put(eng, d, y), UNCHANGED <<row, base, conf, srv, said>>
  PROVE  KeptInv'
<1> DEFINE r == row[d]
           b == base[d]
           c == conf[d]
<1>1. row' = Put(row, d, r) /\ base' = Put(base, d, b) /\ conf' = Put(conf, d, c)
  BY Here
<1>2. ASSUME Few' PROVE Kept(r, q, b, c, y, srv', said', spent'.faults)
  <2>1. Few /\ Plain(q, spent'.faults) /\ Sorted(q, y) /\ y.changes = {}
    BY <1>2
  <2>2. ASSUME NEW e \in Entity, ~said[e].del PROVE KeptOf(r[e], q, b[e], c[e], y, srv[e], said[e].val, e)
    <3>1. KeptOf(r[e], queue[d], b[e], c[e], eng[d], srv[e], said[e].val, e)
      BY <2>1, <2>2, KeptHere
    <3>2. c[e] = NoConflict /\ InOrder(queue[d], e) /\ InFlight(queue[d], eng[d], e) =>
             InOrder(q, e) /\ Launched(q, y, e)
      BY <1>2
    <3> HIDE DEF r, b, c
    <3> QED
      BY <3>1, <3>2, KeptOnward
  <2> HIDE DEF r, b, c
  <2> QED
    BY <2>1, <2>2 DEF Kept
<1> HIDE DEF r, b, c
<1> QED
  BY <1>1, <1>2, KeptStep

LEMMA SortedIdle ==
  ASSUME NEW q, NEW y, y.acks = <<>>, y.pc \in {"idle", "pull", "apply"}
  PROVE  Sorted(q, y) /\ ~Deciding(y) /\ ~Answering(y)
<1>1. DOMAIN y.acks = {}
  OBVIOUS
<1> QED
  BY <1>1 DEF Sorted, Deciding, Answering

(* What was in flight waits again. *)
Back(q, q2, e) ==
    \A i \in DOMAIN q : q[i].ent = e =>
        q2[i].status = IF q[i].status = "in_flight" THEN "pending" ELSE q[i].status

LEMMA BackInOrder ==
  ASSUME NEW q, NEW q2, NEW e, SameOps(q, q2), Three(q, e), InOrder(q, e), Back(q, q2, e)
  PROVE  InOrder(q2, e)
<1>1. ASSUME NEW i \in DOMAIN q2, NEW j \in DOMAIN q2, q2[i].ent = e, q2[j].ent = e, i < j
      PROVE  /\ q2[j].status = "synchronized" => q2[i].status = "synchronized"
             /\ q2[i].status = "pending" => q2[j].status = "pending"
  <2>1. i \in DOMAIN q /\ j \in DOMAIN q /\ q[i].ent = e /\ q[j].ent = e
    BY <1>1 DEF SameOps
  <2>2. /\ q2[i].status = IF q[i].status = "in_flight" THEN "pending" ELSE q[i].status
        /\ q2[j].status = IF q[j].status = "in_flight" THEN "pending" ELSE q[j].status
    BY <2>1 DEF Back
  <2>3. q[j].status \in {"pending", "in_flight", "synchronized"}
    BY <2>1 DEF Three
  <2>4. /\ q[j].status = "synchronized" => q[i].status = "synchronized"
        /\ q[i].status = "pending" => q[j].status = "pending"
    BY <1>1, <2>1 DEF InOrder
  <2> QED
    BY <2>2, <2>3, <2>4
<1> QED
  BY <1>1 DEF InOrder

LEMMA KeptCrash ==
  ASSUME OneDevice, EngineInv, QueueInv, KeptInv, NEW d \in Device, Crash(d)
  PROVE  KeptInv'
<1> DEFINE q == queue[d]
           S == {i \in DOMAIN q : q[i].status = "in_flight"}
           q2 == Marked(q, S, "pending")
           y == IdleEngine
<1>1. /\ queue' = Put(queue, d, q2) /\ eng' = Put(eng, d, y) /\ UNCHANGED <<row, base, conf, srv, said>>
      /\ Spend("crashes")
  BY DEF Crash, Restart, Put, Reset, server
<1>2. /\ SameOps(q, q2)
      /\ \A i \in DOMAIN q :
            /\ q2[i].attempts = q[i].attempts
            /\ q2[i].status = IF i \in S THEN "pending" ELSE q[i].status
  BY Here, MarkedKeeps DEF Live
<1>3. y.acks = <<>> /\ y.pc = "idle" /\ y.changes = {}
  BY DEF IdleEngine
<1> HIDE DEF q2, y
<1>4. \A i \in DOMAIN q : q2[i].status = IF q[i].status = "in_flight" THEN "pending" ELSE q[i].status
  BY <1>2
<1> HIDE DEF S
<1>5. Sorted(q2, y) /\ ~Deciding(y)
  BY <1>3, SortedIdle
<1>6. ASSUME Few' PROVE Few /\ Plain(q2, spent'.faults)
  <2>1. Few /\ spent'.faults = spent.faults
    BY <1>1, <1>6, Here, FewBefore
  <2>2. Plain(q, spent.faults)
    BY <2>1, KeptHere
  <2> HIDE DEF q
  <2> QED
    BY <1>2, <1>4, <2>1, <2>2 DEF Plain, SameOps
<1>7. ASSUME Few', NEW e \in Entity, conf[d][e] = NoConflict, InOrder(q, e)
      PROVE  InOrder(q2, e) /\ Launched(q2, y, e)
  <2>1. Three(q, e)
    BY <1>6, <1>7, ThreeStates
  <2>2. Back(q, q2, e)
    BY <1>4 DEF Back
  <2> HIDE DEF q
  <2> QED
    BY <1>2, <1>3, <1>7, <2>1, <2>2, BackInOrder DEF Launched
<1>8. \A i \in DOMAIN queue[d] : q2[i].status = "synchronized" => queue[d][i].status = "synchronized"
  BY <1>4
<1> QED
  BY <1>1, <1>2, <1>3, <1>5, <1>6, <1>7, <1>8, KeptTurned

(* The engine goes on with no ack left, and the queue is left alone.       *)
LEMMA KeptStays ==
  ASSUME OneDevice, EngineInv, KeptInv, NEW d \in Device, NEW y, y.acks = <<>>, y.changes = {},
         y.pc \in {"idle", "pull", "apply"}, eng' = Put(eng, d, y), UNCHANGED <<local, srv, said>>,
         Few' => Few /\ spent'.faults \in Nat /\ spent.faults <= spent'.faults
  PROVE  KeptInv'
<1> DEFINE q == queue[d]
<1>1. queue' = Put(queue, d, q) /\ UNCHANGED <<row, base, conf>>
  BY Here DEF local
<1>2. SameOps(q, q)
  BY DEF SameOps
<1>3. Sorted(q, y) /\ ~Deciding(y)
  BY SortedIdle
<1>4. ASSUME Few' PROVE Few /\ Plain(q, spent'.faults)
  <2>1. Few /\ Plain(q, spent.faults) /\ spent'.faults \in Nat /\ spent.faults <= spent'.faults
    BY <1>4, KeptHere
  <2>2. spent.faults \in Nat /\ q \in Seq(QueuedOp)
    BY Here DEF Spent
  <2>3. ASSUME NEW i \in DOMAIN q PROVE q[i].attempts \in Nat
    <3>1. q[i] \in QueuedOp /\ MAX_ATTEMPTS \in Nat
      BY <2>2, EngineAssumption
    <3>2. q[i].attempts \in 0..MAX_ATTEMPTS
      BY <3>1 DEF QueuedOp
    <3> QED
      BY <3>1, <3>2
  <2> HIDE DEF q
  <2>4. \A i \in DOMAIN q : q[i].attempts <= spent'.faults
    BY <2>1, <2>2, <2>3 DEF Plain
  <2> QED
    BY <2>1, <2>4 DEF Plain
<1>5. \A e \in Entity : Launched(q, y, e)
  BY DEF Launched
<1> QED
  BY <1>1, <1>2, <1>3, <1>4, <1>5, KeptTurned

LEMMA KeptPullFails ==
  ASSUME OneDevice, EngineInv, KeptInv, NEW d \in Device, PullFails(d)
  PROVE  KeptInv'
<1>1. UNCHANGED <<local, srv, said>> /\ eng' = Put(eng, d, IdleEngine) /\ Spend("faults")
  BY DEF PullFails, Put, server
<1>2. Few' => Few /\ spent'.faults \in Nat /\ spent.faults <= spent'.faults
  BY <1>1, Here, FewBefore
<1>3. IdleEngine.acks = <<>> /\ IdleEngine.changes = {} /\ IdleEngine.pc = "idle"
  BY DEF IdleEngine
<1> QED
  BY <1>1, <1>2, <1>3, KeptStays

LEMMA FewStays ==
  ASSUME spent \in Spent, UNCHANGED spent
  PROVE  Few' => Few /\ spent'.faults \in Nat /\ spent.faults <= spent'.faults
BY DEF Few, Spent

LEMMA KeptEndPush ==
  ASSUME OneDevice, EngineInv, KeptInv, NEW d \in Device, EndPush(d)
  PROVE  KeptInv'
<1> DEFINE x == eng[d]
           y == [x EXCEPT !.pc = AfterPush(x.pass)]
<1>1. x.acks = <<>> /\ UNCHANGED <<local, srv, said, spent>> /\ eng' = Put(eng, d, Settled(y))
  BY DEF EndPush, Put, server
<1>2. AfterPush(x.pass) \in {"pull", "idle"}
  BY DEF AfterPush
<1>3. y.pc = AfterPush(x.pass) /\ y.acks = <<>> /\ y.changes = x.changes
  BY <1>1, Here DEF EngineState
<1> HIDE DEF y
<1>4. CASE ~Few'
  BY <1>4 DEF KeptInv
<1>5. CASE Few'
  <2>1. Few' => Few /\ spent'.faults \in Nat /\ spent.faults <= spent'.faults
    BY <1>1, Here, FewStays
  <2>2. x.changes = {}
    BY <1>5, <2>1, KeptHere
  <2>3. /\ Settled(y).acks = <<>> /\ Settled(y).changes = {}
        /\ Settled(y).pc \in {"idle", "pull", "apply"}
    BY <1>2, <1>3, <2>2 DEF Settled, IdleEngine
  <2> QED
    BY <1>1, <2>1, <2>3, KeptStays
<1> QED
  BY <1>4, <1>5

(* Nobody else has pushed anything. *)
LEMMA KeptServerPull ==
  ASSUME OneDevice, EngineInv, KeptInv, NEW d \in Device, ServerPull(d)
  PROVE  KeptInv'
<1> DEFINE x == eng[d]
           y == [x EXCEPT !.pc = "apply", !.changes = Page(d), !.next = PageCursor(d, Page(d))]
<1>1. x.pc = "pull" /\ UNCHANGED <<local, srv, said, spent>>
  BY DEF ServerPull, server
<1>2. eng' = Put(eng, d, y)
  BY Here DEF ServerPull, Put, TypeOK
<1>3. x \in EngineState /\ x.acks = <<>>
  BY <1>1, Here, Pointers, NotAnswering
<1>4. Page(d) = {}
  <2>1. \A i \in DOMAIN feed : feed[i].dev \in Device
    <3>1. \A i \in DOMAIN feed : feed[i] \in FeedEntry
      BY Here
    <3> QED
      BY <3>1 DEF FeedEntry
  <2>2. \A i \in DOMAIN feed : feed[i].dev = d
    BY <2>1 DEF OneDevice
  <2>3. Foreign(d) = {}
    BY <2>2 DEF Foreign
  <2> QED
    BY <2>3 DEF Page
<1>5. y.pc = "apply" /\ y.acks = <<>> /\ y.changes = {}
  BY <1>3, <1>4 DEF EngineState
<1>6. Few' => Few /\ spent'.faults \in Nat /\ spent.faults <= spent'.faults
  BY <1>1, Here, FewStays
<1> HIDE DEF y
<1> QED
  BY <1>1, <1>2, <1>5, <1>6, KeptStays

(* A request or its answer is lost: no operation runs out of attempts. *)
LEMMA KeptPushFails ==
  ASSUME OneDevice, EngineInv, QueueInv, KeptInv, NEW d \in Device, PushFails(d)
  PROVE  KeptInv'
<1> DEFINE x == eng[d]
           q == queue[d]
           sent == {x.batch[i] : i \in DOMAIN x.batch}
           q2 == [i \in DOMAIN q |-> IF i \in sent THEN FailedAttempt(q[i]) ELSE q[i]]
           y == [x EXCEPT !.pc = AfterPush(x.pass), !.acks = <<>>, !.offline = TRUE]
           z == Settled(y)
<1>1. /\ x.pc \in {"push", "answer"}
      /\ x.pc = "answer" => Len(x.acks) = Len(x.batch)
      /\ queue' = Put(queue, d, q2) /\ eng' = Put(eng, d, z) /\ Spend("faults")
      /\ UNCHANGED <<row, base, conf, srv, said>>
  BY DEF PushFails, Put, server
<1>2. x \in EngineState /\ q \in Seq(QueuedOp) /\ MAX_ATTEMPTS \in Nat
  BY Here, EngineAssumption
<1>3. AfterPush(x.pass) \in {"pull", "idle"}
  BY DEF AfterPush
<1>4. y.pc = AfterPush(x.pass) /\ y.acks = <<>> /\ y.changes = x.changes
  BY <1>2 DEF EngineState
<1> HIDE DEF y
<1>5. z.acks = <<>> /\ z.pc \in {"idle", "pull"} /\ (x.changes = {} => z.changes = {})
  BY <1>3, <1>4 DEF Settled, IdleEngine
<1>6. Sorted(q2, z) /\ ~Deciding(z)
  BY <1>5, SortedIdle
<1>7. \A i \in DOMAIN q : q[i].status = "in_flight" => i \in sent
  <2>1. Awaited(q, x) /\ BatchSound(q, x)
    BY Here DEF Sound
  <2> HIDE DEF q, x
  <2> QED
    BY <2>1 DEF Awaited, BatchSound
<1> HIDE DEF sent
<1>8. ASSUME NEW i \in DOMAIN q
      PROVE  /\ q2[i].ent = q[i].ent /\ q2[i].val = q[i].val /\ q2[i].del = q[i].del
             /\ q2[i].urgent = q[i].urgent
             /\ i \notin sent => q2[i] = q[i]
             /\ i \in sent => /\ q2[i].attempts = q[i].attempts + 1
                             /\ q2[i].status = IF q[i].attempts + 1 >= MAX_ATTEMPTS THEN "failed" ELSE "pending"
  <2>1. q[i] \in QueuedOp
    BY <1>2
  <2> DEFINE s == IF q[i].attempts + 1 >= MAX_ATTEMPTS THEN "failed" ELSE "pending"
             o == [q[i] EXCEPT !.attempts = q[i].attempts + 1, !.status = s]
  <2>2. q2[i] = IF i \in sent THEN o ELSE q[i]
    BY DEF FailedAttempt
  <2>3. /\ o.ent = q[i].ent /\ o.val = q[i].val /\ o.del = q[i].del /\ o.urgent = q[i].urgent
        /\ o.attempts = q[i].attempts + 1 /\ o.status = s
    BY <2>1 DEF QueuedOp
  <2> HIDE DEF q2, o
  <2> QED
    BY <2>2, <2>3
<1>9. DOMAIN q2 = DOMAIN q
  OBVIOUS
<1>10. SameOps(q, q2)
  BY <1>8, <1>9 DEF SameOps
<1>11. \A i \in DOMAIN queue[d] : q2[i].status = "synchronized" => queue[d][i].status = "synchronized"
  BY <1>8
<1> HIDE DEF q2, z
<1>12. ASSUME Few'
       PROVE  /\ Few /\ Plain(q2, spent'.faults) /\ z.changes = {}
              /\ \A i \in DOMAIN q : i \in sent => q2[i].status = "pending"
  <2>1. /\ Few /\ spent'.faults = spent.faults + 1 /\ spent.faults \in Nat
        /\ spent.faults + 1 < MAX_ATTEMPTS
    BY <1>1, <1>12, Here, FewBefore
  <2>2. Plain(q, spent.faults) /\ x.changes = {}
    BY <2>1, KeptHere
  <2> HIDE DEF q, x
  <2>3. ASSUME NEW i \in DOMAIN q
        PROVE  /\ ~q2[i].urgent /\ q2[i].attempts <= spent'.faults
               /\ q2[i].status = "failed" => q2[i].attempts >= MAX_ATTEMPTS
               /\ i \in sent => q2[i].status = "pending"
    <3>1. /\ ~q[i].urgent /\ q[i].attempts <= spent.faults
          /\ q[i].status = "failed" => q[i].attempts >= MAX_ATTEMPTS
      BY <2>2 DEF Plain
    <3>2. q[i].attempts \in Nat
      <4>1. q[i] \in QueuedOp
        BY <1>2
      <4>2. q[i].attempts \in 0..MAX_ATTEMPTS
        BY <4>1 DEF QueuedOp
      <4> QED
        BY <1>2, <4>2
    <3>3. CASE i \in sent
      <4>1. q2[i].attempts = q[i].attempts + 1 /\ q2[i].urgent = q[i].urgent
            /\ q2[i].status = IF q[i].attempts + 1 >= MAX_ATTEMPTS THEN "failed" ELSE "pending"
        BY <1>8, <3>3
      <4>2. ~(q[i].attempts + 1 >= MAX_ATTEMPTS) /\ q[i].attempts + 1 <= spent.faults + 1
        BY <1>2, <2>1, <3>1, <3>2
      <4> QED
        BY <2>1, <3>1, <4>1, <4>2
    <3>4. CASE i \notin sent
      <4>1. q2[i] = q[i]
        BY <1>8, <3>4
      <4> QED
        BY <2>1, <3>1, <3>2, <3>4, <4>1
    <3> QED
      BY <3>3, <3>4
  <2>4. Plain(q2, spent'.faults)
    BY <1>9, <2>3 DEF Plain
  <2> QED
    BY <1>5, <2>1, <2>2, <2>3, <2>4
<1>13. ASSUME Few', NEW e \in Entity, conf[d][e] = NoConflict, InOrder(q, e), InFlight(q, x, e)
       PROVE  InOrder(q2, e) /\ Launched(q2, z, e)
  <2>1. Three(q, e)
    BY <1>12, <1>13, ThreeStates
  <2>2. Sorted(q, x)
    BY <1>12, <1>13, KeptHere
  <2> HIDE DEF q, x
  <2>3. \A i \in DOMAIN q : i \in sent /\ q[i].ent = e => q[i].status = "in_flight"
    <3>1. CASE x.pc = "push"
      BY <1>13, <3>1 DEF InFlight, sent
    <3>2. CASE x.pc = "answer"
      <4>1. \A k \in DOMAIN x.batch : x.acks[k].id = x.batch[k]
        BY <1>1, <2>2, <3>2 DEF Sorted, Answering
      <4>2. DOMAIN x.acks = DOMAIN x.batch
        <5>1. x.acks \in Seq(Ack) /\ x.batch \in Seq(Nat)
          BY <1>2 DEF EngineState
        <5>2. Len(x.acks) = Len(x.batch)
          BY <1>1, <3>2
        <5> QED
          BY <5>1, <5>2
      <4>3. \A k \in DOMAIN x.batch : q[x.batch[k]].ent = e => q[x.batch[k]].status = "in_flight"
        BY <1>13, <4>1, <4>2 DEF InFlight
      <4> QED
        BY <4>3 DEF sent
    <3>3. x.pc = "push" \/ x.pc = "answer"
      BY <1>1
    <3> QED
      BY <3>1, <3>2, <3>3
  <2>4. Back(q, q2, e)
    BY <1>7, <1>8, <1>12, <1>13, <2>3 DEF Back
  <2>5. InOrder(q2, e)
    BY <1>10, <1>13, <2>1, <2>4, BackInOrder
  <2> QED
    BY <1>5, <2>5 DEF Launched
<1> QED
  BY <1>1, <1>5, <1>6, <1>10, <1>11, <1>12, <1>13, KeptTurned

(* A push begins with all that waits, in the order of the queue as far as  *)
(* one entity is concerned.                                                *)
LEMMA BatchInOrder ==
  ASSUME NEW q \in Seq(QueuedOp), \A i \in DOMAIN q : ~q[i].urgent,
         NEW k \in DOMAIN Batch(q), NEW l \in DOMAIN Batch(q), k < l,
         q[Batch(q)[k]].ent = q[Batch(q)[l]].ent
  PROVE  Batch(q)[k] < Batch(q)[l]
<1> DEFINE i == Batch(q)[k]
           j == Batch(q)[l]
<1>1. /\ i \in Waiting(q) /\ j \in Waiting(q) /\ Ahead(q, i) = k - 1 /\ Ahead(q, j) = l - 1
      /\ Before(q, j, i) => Ahead(q, j) < Ahead(q, i)
  BY BatchIsWaiting
<1>2. k \in Nat /\ l \in Nat
  <2>1. Batch(q) \in Seq(Nat)
    BY BatchIsWaiting
  <2> QED
    BY <2>1
<1>3. i \in DOMAIN q /\ j \in DOMAIN q /\ i \in Nat /\ j \in Nat
  BY <1>1 DEF Waiting
<1>4. ~q[i].urgent /\ ~q[j].urgent /\ q[i].ent = q[j].ent
  BY <1>3
<1> HIDE DEF i, j
<1>5. ~Before(q, j, i) /\ i # j
  BY <1>1, <1>2
<1>6. q[i].ent \in Entity /\ Priority[q[i].ent] \in Nat
  <2>1. q[i] \in QueuedOp
    BY <1>3
  <2>2. q[i].ent \in Entity
    BY <2>1 DEF QueuedOp
  <2> QED
    BY <2>2, EngineAssumption
<1>7. j < i => Before(q, j, i)
  BY <1>4, <1>6 DEF Before, Position
<1>8. i < j
  BY <1>3, <1>5, <1>7
<1> QED
  BY <1>8 DEF i, j

LEMMA KeptStarted ==
  ASSUME OneDevice, EngineInv, QueueInv, KeptInv, NEW d \in Device, NEW x \in EngineState, x.acks = <<>>,
         NEW pass \in {1, 2}, \A i \in DOMAIN queue[d] : queue[d][i].status # "in_flight",
         queue' = Put(queue, d, Sent(queue[d])),
         eng' = Put(eng, d, Settled(Started(x, queue[d], pass))),
         UNCHANGED <<row, base, conf, srv, said, spent>>
  PROVE  KeptInv'
<1> DEFINE q == queue[d]
           batch == Batch(q)
           sent == {batch[i] : i \in DOMAIN batch}
           m == Marked(q, sent, "in_flight")
           y == Started(x, q, pass)
           z == Settled(y)
<1>1. queue' = Put(queue, d, m) /\ eng' = Put(eng, d, z)
  BY DEF Sent
<1>2. q \in Seq(QueuedOp)
  BY Here
<1>3. /\ SameOps(q, m)
      /\ \A i \in DOMAIN q : /\ m[i].attempts = q[i].attempts
                             /\ m[i].status = IF i \in sent THEN "in_flight" ELSE q[i].status
  BY <1>2, MarkedKeeps DEF Live
<1>4. /\ batch \in Seq(Nat)
      /\ \A k \in DOMAIN batch : batch[k] \in Waiting(q)
      /\ \A i \in Waiting(q) : \E k \in DOMAIN batch : batch[k] = i
  BY <1>2, BatchIsWaiting
<1>5. \A i : i \in sent <=> i \in Waiting(q)
  BY <1>4
<1>6. \A k \in DOMAIN batch : batch[k] \in sent /\ batch[k] \in DOMAIN q
  BY <1>4 DEF Waiting
<1>7. AfterPush(pass) \in {"pull", "idle"}
  BY DEF AfterPush
<1>8. /\ y.batch = batch /\ y.acks = <<>> /\ y.changes = {}
      /\ y.pc = IF batch = <<>> THEN AfterPush(pass) ELSE "push"
  BY <1>4 DEF Started, EngineState
<1> HIDE DEF batch, y
<1>9. /\ z.acks = <<>> /\ z.changes = {} /\ z.pc \in {"push", "pull", "idle"}
      /\ z.pc = "push" => z.batch = batch
  BY <1>7, <1>8 DEF Settled, IdleEngine
<1> HIDE DEF m, sent, z
<1>10. ~Deciding(z) /\ ~Answering(z)
  BY <1>9, NotAnswering
<1>11. ASSUME Few' PROVE Few /\ Plain(q, spent.faults) /\ spent'.faults = spent.faults
  BY <1>11, KeptHere DEF Few
<1>12. ASSUME Few' PROVE Sorted(m, z)
  <2>1. CASE z.pc # "push"
    BY <1>9, <2>1, SortedIdle
  <2>2. CASE z.pc = "push"
    <3>1. \A i \in DOMAIN q : ~q[i].urgent
      BY <1>11, <1>12 DEF Plain
    <3>2. ASSUME NEW k \in DOMAIN batch, NEW l \in DOMAIN batch, k < l, m[batch[k]].ent = m[batch[l]].ent
          PROVE  batch[k] < batch[l]
      <4>1. q[batch[k]].ent = q[batch[l]].ent
        BY <1>3, <1>6, <3>2 DEF SameOps
      <4> HIDE DEF q
      <4> QED
        BY <1>2, <3>1, <3>2, <4>1, BatchInOrder DEF batch
    <3>3. DOMAIN z.acks = {} /\ z.batch = batch
      BY <1>9, <2>2
    <3> QED
      BY <1>10, <3>2, <3>3 DEF Sorted
  <2> QED
    BY <2>1, <2>2
<1>13. ASSUME Few' PROVE Plain(m, spent'.faults)
  <2>1. Plain(q, spent.faults) /\ spent'.faults = spent.faults
    BY <1>11, <1>13
  <2> HIDE DEF q
  <2>2. ASSUME NEW i \in DOMAIN m
        PROVE  /\ ~m[i].urgent /\ m[i].attempts <= spent.faults
               /\ m[i].status = "failed" => m[i].attempts >= MAX_ATTEMPTS
    <3>1. i \in DOMAIN q /\ m[i].urgent = q[i].urgent /\ m[i].attempts = q[i].attempts
      BY <1>3, <2>2 DEF SameOps
    <3>2. m[i].status = "failed" => q[i].status = "failed"
      BY <1>3, <3>1
    <3> QED
      BY <2>1, <3>1, <3>2 DEF Plain
  <2> QED
    BY <2>1, <2>2 DEF Plain
<1>14. ASSUME Few', NEW e \in Entity, conf[d][e] = NoConflict, InOrder(q, e)
       PROVE  InOrder(m, e) /\ Launched(m, z, e)
  <2>1. Three(q, e)
    BY <1>11, <1>14, ThreeStates
  <2>2. Plain(q, spent.faults) /\ spent.faults < MAX_ATTEMPTS
    BY <1>11, <1>14 DEF Few
  <2>3. spent.faults \in Nat /\ MAX_ATTEMPTS \in Nat
    BY Here, EngineAssumption DEF Spent
  <2>4. \A i \in DOMAIN q : q[i].status # "in_flight"
    OBVIOUS
  <2> HIDE DEF q
  <2>5. ASSUME NEW i \in DOMAIN q, q[i].ent = e
        PROVE  m[i].status = IF q[i].status = "synchronized" THEN "synchronized" ELSE "in_flight"
    <3>1. q[i].status \in {"pending", "synchronized"}
      BY <2>1, <2>4, <2>5 DEF Three
    <3>2. q[i].attempts < MAX_ATTEMPTS
      <4>1. q[i] \in QueuedOp
        BY <1>2
      <4>2. q[i].attempts \in 0..MAX_ATTEMPTS
        BY <4>1 DEF QueuedOp
      <4>3. q[i].attempts <= spent.faults
        BY <2>2 DEF Plain
      <4> QED
        BY <2>2, <2>3, <4>2, <4>3
    <3>3. i \in Waiting(q) <=> q[i].status = "pending"
      BY <3>1, <3>2 DEF Waiting
    <3> QED
      BY <1>3, <1>5, <3>1, <3>3
  <2>6. InOrder(m, e)
    <3>1. \A i \in DOMAIN m : m[i].ent = e =>
             /\ i \in DOMAIN q /\ q[i].ent = e
             /\ m[i].status = IF q[i].status = "synchronized" THEN "synchronized" ELSE "in_flight"
      BY <1>3, <2>5 DEF SameOps
    <3> QED
      BY <1>14, <3>1 DEF InOrder
  <2>7. Launched(m, z, e)
    BY <1>3, <1>6, <1>9 DEF Launched
  <2> QED
    BY <2>6, <2>7
<1>15. \A i \in DOMAIN queue[d] : m[i].status = "synchronized" => queue[d][i].status = "synchronized"
  BY <1>3
<1> QED
  BY <1>1, <1>3, <1>9, <1>10, <1>11, <1>12, <1>13, <1>14, <1>15, KeptTurned

LEMMA KeptStartCycle ==
  ASSUME OneDevice, EngineInv, QueueInv, KeptInv, NEW d \in Device, StartCycle(d)
  PROVE  KeptInv'
<1> DEFINE q == Sent(queue[d])
           y == Settled(Started(IdleEngine, queue[d], 1))
<1>1. eng' = Put(eng, d, y) /\ queue' = Put(queue, d, q) /\ UNCHANGED <<row, base, conf, srv, said, spent>>
  BY DEF StartCycle, StartPush, Put, Sent, Started, server
<1>2. IdleEngine \in EngineState /\ IdleEngine.acks = <<>>
  BY DEF IdleEngine, EngineState
<1>3. eng[d].pc = "idle"
  BY DEF StartCycle
<1>4. eng[d].acks = <<>>
  BY <1>3, Here, NotAnswering DEF Sound, BatchSound
<1>5. \A i \in DOMAIN queue[d] : queue[d][i].status # "in_flight"
  BY <1>3, <1>4, Here, NothingInFlight
<1> QED
  BY <1>1, <1>2, <1>5, KeptStarted

LEMMA KeptEndPull ==
  ASSUME OneDevice, EngineInv, QueueInv, KeptInv, NEW d \in Device, EndPull(d)
  PROVE  KeptInv'
<1> DEFINE x == eng[d]
           q == Sent(queue[d])
           y == Settled(Started(x, queue[d], 2))
<1>1. x.pc = "apply" /\ UNCHANGED <<row, base, conf, srv, said, spent>>
  BY DEF EndPull, server
<1>2. x \in EngineState /\ x.acks = <<>>
  BY <1>1, Here, Pointers, NotAnswering
<1>3. CASE eng' = Put(eng, d, y) /\ queue' = Put(queue, d, q)
  <2>1. \A i \in DOMAIN queue[d] : queue[d][i].status # "in_flight"
    BY <1>1, <1>2, Here, NothingInFlight
  <2> HIDE DEF x
  <2> QED
    BY <1>1, <1>2, <1>3, <2>1, KeptStarted
<1>4. CASE eng' = Put(eng, d, IdleEngine) /\ queue' = queue
  <2>1. queue' = Put(queue, d, queue[d])
    BY <1>4, Here
  <2>2. IdleEngine.acks = <<>> /\ IdleEngine.changes = {} /\ IdleEngine.pc = "idle"
    BY DEF IdleEngine
  <2>3. SameOps(queue[d], queue[d])
    BY DEF SameOps
  <2>4. Sorted(queue[d], IdleEngine) /\ ~Deciding(IdleEngine)
    BY <2>2, SortedIdle
  <2>5. Few' => Few /\ Plain(queue[d], spent'.faults)
    BY <1>1, KeptHere DEF Few
  <2>6. \A e \in Entity : Launched(queue[d], IdleEngine, e)
    BY <2>2 DEF Launched
  <2> QED
    BY <1>1, <1>4, <2>1, <2>2, <2>3, <2>4, <2>5, <2>6, KeptTurned
<1> QED
  BY <1>3, <1>4 DEF EndPull, StartPush, Put, Sent, Started

(* What the server does with one operation, seen from the entities. *)
Serves(s, t, op) ==
    LET ack == t.acks[Len(s.acks) + 1]
        e   == op.ent
    IN  /\ \A e2 \in Entity : e2 # e => t.srv[e2] = s.srv[e2]
        /\ ack.status = "applied" => Holds(t.srv[e], op.val) /\ (t.srv[e].del <=> op.del)
        /\ ack.status # "applied" => t.srv[e] = s.srv[e] /\ ack.remote = s.srv[e] /\ s.srv[e] # NoRow

LEMMA ServerStepServes ==
  ASSUME NEW s \in ServerState, NEW op \in QueuedOp, NEW id \in Nat, NEW d \in Device
  PROVE  Serves(s, ServerStep(s, op, id, d), op)
<1> DEFINE r == s.srv[op.ent]
           status == AckStatus(r, op)
           n == EntityRow(r, op, d)
           ack == [id |-> id, status |-> status, remote |-> r,
                   ver |-> IF status = "applied" THEN StoredVersion(r, op) ELSE r.ver]
           acks == Append(s.acks, ack)
           t == ServerStep(s, op, id, d)
           written == [srv |-> [s.srv EXCEPT ![op.ent] = n],
                       feed |-> Append(s.feed, FeedRow(r, op, d)), acks |-> acks]
           asked == [s EXCEPT !.acks = acks]
<1>1. op.ent \in Entity /\ op.valid = TRUE /\ op.kind # "delete" /\ op.del \in BOOLEAN
  BY DEF QueuedOp
<1>2. s.srv \in [Entity -> ServerRow \cup {NoRow}] /\ s.acks \in Seq(Ack)
  BY DEF ServerState
<1>3. r \in ServerRow \cup {NoRow} /\ NoRow \notin ServerRow
  BY <1>1, <1>2, EngineAssumption
<1>4. t = IF status = "applied" THEN written ELSE asked
  BY DEF ServerStep
<1>5. acks[Len(s.acks) + 1] = ack
  BY <1>2
<1>6. t.acks = acks
  <2>1. written.acks = acks /\ asked.acks = acks
    BY DEF ServerState
  <2> HIDE DEF written, asked, t
  <2> QED
    BY <1>4, <2>1
<1>7. ack.status = status /\ ack.remote = r
  OBVIOUS
<1>8. status # "applied" => r # NoRow
  BY <1>1 DEF AckStatus, Accepts
<1>9. n.val = op.val /\ (n.del <=> op.del)
  BY <1>1 DEF EntityRow, DeletedFlag
<1>10. n \in ServerRow
  <2>1. t \in ServerState
    BY ServerStepTyped DEF Adds
  <2>2. op.ver \in Nat /\ op.val \in Values /\ (r # NoRow => r.ver \in Nat)
    BY <1>3 DEF QueuedOp, ServerRow
  <2>3. StoredVersion(r, op) \in Nat
    BY <2>2 DEF StoredVersion, MaxOf
  <2>4. DeletedFlag(op) \in BOOLEAN
    BY <1>1 DEF DeletedFlag
  <2> HIDE DEF r
  <2> QED
    BY <2>2, <2>3, <2>4 DEF EntityRow, ServerRow
<1>11. n # NoRow
  BY <1>3, <1>10
<1>12. status = "applied" => t.srv[op.ent] = n /\ \A e2 \in Entity : e2 # op.ent => t.srv[e2] = s.srv[e2]
  <2> SUFFICES ASSUME status = "applied"
               PROVE  t.srv[op.ent] = n /\ \A e2 \in Entity : e2 # op.ent => t.srv[e2] = s.srv[e2]
    OBVIOUS
  <2>1. t = written
    BY <1>4
  <2> HIDE DEF n, acks, status, t
  <2>2. written.srv = [s.srv EXCEPT ![op.ent] = n]
    OBVIOUS
  <2> HIDE DEF written
  <2> QED
    BY <1>1, <1>2, <2>1, <2>2
<1>13. status # "applied" => t.srv = s.srv
  <2>1. asked.srv = s.srv
    BY DEF ServerState
  <2> HIDE DEF asked, written, t, status
  <2> QED
    BY <1>4, <2>1
<1> HIDE DEF t, n, status, ack, acks, written, asked
<1> QED
  BY <1>5, <1>6, <1>7, <1>8, <1>9, <1>11, <1>12, <1>13 DEF Serves, Holds, t, r

(* What the server holds of the entity e after the first m operations of   *)
(* the batch t, and what it answered to them.                              *)
Stage(q, t, s0, s, m, e) ==
    /\ Len(s.acks) = m
    /\ (\A j \in 1..m : q[t[j]].ent # e) => s.srv[e] = s0
    /\ s.srv[e] # NoRow => ~s.srv[e].del
    /\ \A j \in 1..m :
          q[t[j]].ent = e /\ s.acks[j].status = "conflict" => ~s.acks[j].remote.del
    /\ \A j \in 1..m :
          /\ q[t[j]].ent = e /\ s.acks[j].status = "applied"
          /\ \A l \in 1..m : q[t[l]].ent = e => l <= j
          => Holds(s.srv[e], q[t[j]].val)

LEMMA NextStage ==
  ASSUME NEW q, NEW t, NEW s0, NEW s, NEW s2, NEW m \in Nat, NEW e \in Entity, NEW d,
         Stage(q, t, s0, s, m, e), s.acks \in Seq(Ack),
         Adds(s, s2, q[t[m + 1]], t[m + 1], d), Serves(s, s2, q[t[m + 1]]),
         q[t[m + 1]].ent = e => ~q[t[m + 1]].del
  PROVE  Stage(q, t, s0, s2, m + 1, e)
<1> DEFINE op == q[t[m + 1]]
<1>1. Len(s.acks) = m /\ Len(s2.acks) = m + 1 /\ \A k \in 1..m : s2.acks[k] = s.acks[k]
  BY DEF Stage, Adds
<1>2. /\ \A e2 \in Entity : e2 # op.ent => s2.srv[e2] = s.srv[e2]
      /\ s2.acks[m + 1].status = "applied" => Holds(s2.srv[op.ent], op.val) /\ (s2.srv[op.ent].del <=> op.del)
      /\ s2.acks[m + 1].status # "applied" =>
            s2.srv[op.ent] = s.srv[op.ent] /\ s2.acks[m + 1].remote = s.srv[op.ent] /\ s.srv[op.ent] # NoRow
  BY <1>1 DEF Serves
<1>3. \A j \in 1..(m + 1) : j = m + 1 \/ j \in 1..m
  OBVIOUS
<1>4. m + 1 \in 1..(m + 1) /\ \A j \in 1..m : j \in 1..(m + 1) /\ ~(m + 1 <= j) /\ j <= m + 1
  OBVIOUS
<1>5. s.srv[e] # NoRow => ~s.srv[e].del
  BY DEF Stage
<1>6. \A j \in 1..m : q[t[j]].ent = e /\ s.acks[j].status = "conflict" => ~s.acks[j].remote.del
  BY DEF Stage
<1>7. CASE op.ent # e
  <2>1. s2.srv[e] = s.srv[e]
    BY <1>2, <1>7
  <2>2. (\A j \in 1..(m + 1) : q[t[j]].ent # e) => s2.srv[e] = s0
    BY <1>4, <2>1 DEF Stage
  <2>3. \A j \in 1..(m + 1) :
          q[t[j]].ent = e /\ s2.acks[j].status = "conflict" => ~s2.acks[j].remote.del
    BY <1>1, <1>3, <1>6, <1>7
  <2>4. ASSUME NEW j \in 1..(m + 1), q[t[j]].ent = e, s2.acks[j].status = "applied",
               \A l \in 1..(m + 1) : q[t[l]].ent = e => l <= j
        PROVE  Holds(s2.srv[e], q[t[j]].val)
    <3>1. j \in 1..m /\ s.acks[j].status = "applied"
      BY <1>1, <1>3, <1>7, <2>4
    <3>2. \A l \in 1..m : q[t[l]].ent = e => l <= j
      BY <1>4, <2>4
    <3> QED
      BY <2>1, <2>4, <3>1, <3>2 DEF Stage
  <2> QED
    BY <1>1, <1>5, <2>1, <2>2, <2>3, <2>4 DEF Stage
<1>8. CASE op.ent = e
  <2>1. ~op.del
    BY <1>8
  <2>2. s2.srv[e] # NoRow => ~s2.srv[e].del
    BY <1>2, <1>5, <1>8, <2>1
  <2>3. ~(\A j \in 1..(m + 1) : q[t[j]].ent # e)
    BY <1>4, <1>8
  <2>4. \A j \in 1..(m + 1) :
          q[t[j]].ent = e /\ s2.acks[j].status = "conflict" => ~s2.acks[j].remote.del
    <3>1. s2.acks[m + 1].status = "conflict" => ~s2.acks[m + 1].remote.del
      BY <1>2, <1>5, <1>8
    <3> QED
      BY <1>1, <1>3, <1>6, <3>1
  <2>5. ASSUME NEW j \in 1..(m + 1), s2.acks[j].status = "applied",
               \A l \in 1..(m + 1) : q[t[l]].ent = e => l <= j
        PROVE  Holds(s2.srv[e], q[t[j]].val)
    <3>1. j = m + 1
      BY <1>3, <1>4, <1>8, <2>5
    <3> QED
      BY <1>2, <1>8, <2>5, <3>1
  <2> QED
    BY <1>1, <2>2, <2>3, <2>4, <2>5 DEF Stage
<1> QED
  BY <1>7, <1>8

LEMMA ServedStage ==
  ASSUME EngineInv, NEW d \in Device, eng[d].pc = "push", NEW e \in Entity,
         srv[e] # NoRow => ~srv[e].del,
         \A i \in DOMAIN queue[d] : queue[d][i].ent = e => ~queue[d][i].del
  PROVE  Stage(queue[d], eng[d].batch, srv[e], Served(d), Len(eng[d].batch), e)
<1> DEFINE batch == eng[d].batch
           q == queue[d]
           n == Len(batch)
<1>1. batch \in Seq(Nat) /\ n \in Nat /\ DOMAIN batch = 1..n
  BY Here DEF EngineState
<1>2. PICK f : Runs(d, f)
  BY ServedSteps
<1>3. /\ f[0] = [srv |-> srv, feed |-> feed, acks |-> <<>>] /\ Served(d) = f[n]
      /\ \A k \in 0..n : f[k] \in ServerState
      /\ \A k \in 1..n : /\ q[batch[k]] \in QueuedOp /\ batch[k] \in Nat
                         /\ f[k] = ServerStep(f[k - 1], q[batch[k]], batch[k], d)
  BY <1>2 DEF Runs
<1>4. \A k \in 1..n : q[batch[k]].ent = e => ~q[batch[k]].del
  BY <1>1, Pointers
<1>5. f[0].srv = srv /\ f[0].acks = <<>>
  BY <1>3
<1> HIDE DEF batch, n, q
<1>6. Stage(q, batch, srv[e], f[0], 0, e)
  <2>1. 1..0 = {} /\ Len(f[0].acks) = 0
    BY <1>5
  <2> QED
    BY <1>5, <2>1 DEF Stage
<1> DEFINE T == {k \in 0..n : Stage(q, batch, srv[e], f[k], k, e)}
<1>7. 0 \in T
  BY <1>1, <1>6
<1>8. ASSUME NEW k \in 1..n, k - 1 \in T PROVE k \in T
  <2> DEFINE m == k - 1
             op == q[batch[k]]
             s == f[m]
             s2 == f[k]
  <2>1. m \in Nat /\ m \in 0..n /\ k = m + 1 /\ k \in 0..n
    BY <1>1
  <2>2. Stage(q, batch, srv[e], s, m, e) /\ s \in ServerState
    BY <1>3, <1>8, <2>1
  <2>3. op \in QueuedOp /\ batch[k] \in Nat /\ s2 = ServerStep(s, op, batch[k], d)
    BY <1>3
  <2>4. op.ent = e => ~op.del
    BY <1>4
  <2> HIDE DEF op, s, s2, m
  <2>5. Adds(s, s2, op, batch[k], d) /\ Serves(s, s2, op)
    BY <2>2, <2>3, ServerStepTyped, ServerStepServes
  <2>6. s.acks \in Seq(Ack)
    BY <2>2 DEF ServerState
  <2>7. Adds(s, s2, q[batch[m + 1]], batch[m + 1], d) /\ Serves(s, s2, q[batch[m + 1]])
    BY <2>1, <2>5 DEF op
  <2>8. q[batch[m + 1]].ent = e => ~q[batch[m + 1]].del
    BY <2>1, <2>4 DEF op
  <2>9. Stage(q, batch, srv[e], s2, m + 1, e)
    BY <2>1, <2>2, <2>6, <2>7, <2>8, NextStage
  <2> QED
    BY <2>1, <2>9 DEF s2
<1> HIDE DEF T
<1>9. 0..n \subseteq T
  BY <1>1, <1>7, <1>8, Climb
<1>10. Stage(q, batch, srv[e], f[n], n, e)
  BY <1>1, <1>9 DEF T
<1> QED
  BY <1>3, <1>10 DEF q, batch, n

(* What the user said is still there when the server has answered. *)
LEMMA KeptAnswered ==
  ASSUME NEW q \in Seq(QueuedOp), NEW x, NEW y, NEW r, NEW b, NEW c, NEW s, NEW s2, NEW val, NEW e,
         NEW end, NEW n \in Nat,
         KeptOf(r, q, b, c, x, s, val, e), Stage(q, x.batch, s, end, n, e), end.srv[e] = s2,
         DOMAIN x.batch = 1..n, DOMAIN y.acks = 1..n, \A k \in 1..n : y.acks[k].id = x.batch[k],
         \A k \in 1..n : end.acks[k] = y.acks[k], \A k \in 1..n : x.batch[k] \in DOMAIN q,
         \A k \in 1..n : r = NoRow => q[x.batch[k]].ent # e,
         x.pc = "push", y.pc = "answer"
  PROVE  KeptOf(r, q, b, c, y, s2, val, e)
<1>1. ~Deciding(y) /\ y.pc # "push"
  BY DEF Deciding
<1>2. Shown(r, q, b, y, s2, val, e)
  <2>1. Shown(r, q, b, x, s, val, e)
    BY DEF KeptOf
  <2>2. r = NoRow => s2 = s
    BY DEF Stage
  <2>3. s2 # NoRow => ~s2.del
    BY DEF Stage
  <2>4. \A k \in DOMAIN y.acks :
          q[y.acks[k].id].ent = e /\ y.acks[k].status = "conflict" => ~y.acks[k].remote.del
    BY DEF Stage
  <2> QED
    BY <1>1, <2>1, <2>2, <2>3, <2>4 DEF Shown
<1>3. ASSUME c = NoConflict PROVE Taken(r, q, y, s2, e)
  <2>1. Taken(r, q, x, s, e)
    BY <1>3 DEF KeptOf
  <2>2. InOrder(q, e) /\ InFlight(q, x, e)
    BY <2>1 DEF Taken
  <2>3. InFlight(q, y, e)
    BY <1>1, <2>2 DEF InFlight
  <2>4. r # NoRow => \E m \in DOMAIN q : NewestOf(q, e, m) /\ q[m].val = r.val
    BY <2>1 DEF Taken
  <2>5. ASSUME NEW m \in DOMAIN q, NewestOf(q, e, m), q[m].status = "synchronized"
        PROVE  Holds(s2, q[m].val)
    <3>1. ASSUME NEW i \in DOMAIN q, q[i].ent = e, i < m PROVE q[i].status = "synchronized"
      BY <2>2, <2>5, <3>1 DEF InOrder, NewestOf
    <3>2. ASSUME NEW i \in DOMAIN q, q[i].ent = e, q[i].status = "in_flight" PROVE FALSE
      <4>1. i <= m /\ i # m
        BY <2>5, <3>2 DEF NewestOf
      <4>2. i \in Nat /\ m \in Nat
        OBVIOUS
      <4>3. i < m
        BY <4>1, <4>2
      <4> QED
        BY <3>1, <3>2, <4>3
    <3>3. ASSUME NEW k \in 1..n, q[x.batch[k]].ent = e PROVE FALSE
      <4>1. x.batch[k] \in DOMAIN q /\ q[x.batch[k]].status = "in_flight"
        BY <2>2, <3>3 DEF InFlight
      <4> QED
        BY <3>3, <3>2, <4>1
    <3>4. s2 = s
      BY <3>3 DEF Stage
    <3> QED
      BY <2>1, <2>5, <3>4 DEF Taken
  <2>6. ASSUME NEW k \in DOMAIN y.acks, LastAck(q, y.acks, e, k), y.acks[k].status = "applied"
        PROVE  Holds(s2, q[y.acks[k].id].val)
    <3>1. k \in 1..n /\ q[x.batch[k]].ent = e /\ end.acks[k].status = "applied"
      BY <2>6 DEF LastAck
    <3>2. \A l \in 1..n : q[x.batch[l]].ent = e => l <= k
      BY <2>6 DEF LastAck
    <3> QED
      BY <3>1, <3>2 DEF Stage
  <2> QED
    BY <2>2, <2>3, <2>4, <2>5, <2>6 DEF Taken
<1> QED
  BY <1>2, <1>3 DEF KeptOf

LEMMA KeptServerPush ==
  ASSUME OneDevice, EngineInv, KeptInv, NEW d \in Device, ServerPush(d)
  PROVE  KeptInv'
<1> DEFINE x == eng[d]
           q == queue[d]
           r == row[d]
           b == base[d]
           c == conf[d]
           n == Len(x.batch)
           end == Served(d)
           y == [x EXCEPT !.pc = "answer", !.acks = end.acks]
<1>1. /\ x.pc = "push" /\ UNCHANGED <<said, spent>> /\ eng' = Put(eng, d, y) /\ srv' = end.srv
      /\ UNCHANGED local
  BY DEF ServerPush, Put
<1>2. /\ row' = Put(row, d, r) /\ queue' = Put(queue, d, q) /\ base' = Put(base, d, b)
      /\ conf' = Put(conf, d, c)
  BY <1>1, Here DEF local
<1>3. /\ end.acks \in Seq(Ack) /\ Len(end.acks) = n
      /\ \A k \in 1..n : end.acks[k].id = x.batch[k]
  BY <1>1, ServerAnswers DEF Answers, ServerState
<1>4. q \in Seq(QueuedOp) /\ x \in EngineState /\ x.batch \in Seq(Nat) /\ n \in Nat /\ DOMAIN x.batch = 1..n
  BY Here DEF EngineState
<1>5. \A k \in 1..n : x.batch[k] \in DOMAIN q
  BY <1>4, Pointers
<1>6. \A i \in DOMAIN q : r[q[i].ent] # NoRow
  BY Here DEF Sound, HasRows
<1>7. ASSUME Few' PROVE Few /\ spent'.faults = spent.faults
  BY <1>1, <1>7 DEF Few
<1>8. ASSUME Few', NEW e \in Entity, ~said[e].del
      PROVE  /\ Stage(q, x.batch, srv[e], end, n, e)
             /\ KeptOf(r[e], q, b[e], c[e], x, srv[e], said[e].val, e)
  <2>1. /\ KeptOf(r[e], q, b[e], c[e], x, srv[e], said[e].val, e)
        /\ Shown(r[e], q, b[e], x, srv[e], said[e].val, e)
    BY <1>7, <1>8, KeptHere
  <2>2. (srv[e] # NoRow => ~srv[e].del) /\ \A i \in DOMAIN q : q[i].ent = e => ~q[i].del
    BY <2>1 DEF Shown
  <2>3. Stage(q, x.batch, srv[e], end, n, e)
    BY <1>1, <2>2, ServedStage
  <2> QED
    BY <2>1, <2>3
<1> HIDE DEF end
<1>9. y.pc = "answer" /\ y.acks = end.acks /\ y.batch = x.batch /\ y.changes = x.changes
  BY <1>4 DEF EngineState
<1> HIDE DEF y
<1>10. DOMAIN y.acks = 1..n /\ \A k \in 1..n : y.acks[k].id = x.batch[k] /\ end.acks[k] = y.acks[k]
  <2>1. DOMAIN end.acks = 1..n
    BY <1>3, <1>4
  <2> QED
    BY <1>3, <1>9, <2>1
<1>11. ASSUME Few' PROVE Kept(r, q, b, c, y, srv', said', spent'.faults)
  <2>1. Plain(q, spent'.faults) /\ Sorted(q, x) /\ x.changes = {}
    BY <1>7, <1>11, KeptHere
  <2>2. Sorted(q, y)
    <3>1. y.pc # "push" /\ Answering(y)
      BY <1>9 DEF Answering
    <3>2. Len(y.acks) = Len(y.batch) /\ Len(y.acks) <= Len(y.batch)
      BY <1>3, <1>4, <1>9
    <3>3. \A k \in DOMAIN y.batch : y.acks[k].id = y.batch[k]
      BY <1>4, <1>9, <1>10
    <3> HIDE DEF x, q, n
    <3>4. \A k, l \in DOMAIN y.acks :
             k < l /\ q[y.acks[k].id].ent = q[y.acks[l].id].ent => y.acks[k].id < y.acks[l].id
      <4>1. \A k, l \in DOMAIN x.batch :
               k < l /\ q[x.batch[k]].ent = q[x.batch[l]].ent => x.batch[k] < x.batch[l]
        BY <1>1, <2>1 DEF Sorted
      <4>2. DOMAIN y.acks = DOMAIN x.batch /\ \A k \in DOMAIN x.batch : y.acks[k].id = x.batch[k]
        BY <1>4, <1>10
      <4> HIDE DEF y
      <4> QED
        BY <4>1, <4>2
    <3> QED
      BY <3>1, <3>2, <3>3, <3>4 DEF Sorted
  <2>3. ASSUME NEW e \in Entity, ~said'[e].del
        PROVE  KeptOf(r[e], q, b[e], c[e], y, srv'[e], said'[e].val, e)
    <3>1. /\ Stage(q, x.batch, srv[e], end, n, e)
          /\ KeptOf(r[e], q, b[e], c[e], x, srv[e], said[e].val, e)
      BY <1>1, <1>8, <1>11, <2>3
    <3>2. \A k \in 1..n : r[e] = NoRow => q[x.batch[k]].ent # e
      BY <1>5, <1>6
    <3>3. end.srv[e] = srv'[e] /\ said' = said
      BY <1>1
    <3> HIDE DEF r, q, b, c, x, n
    <3> QED
      BY <1>1, <1>4, <1>5, <1>9, <1>10, <3>1, <3>2, <3>3, KeptAnswered
  <2> HIDE DEF r, q, b, c, x
  <2> QED
    BY <1>9, <2>1, <2>2, <2>3 DEF Kept
<1> HIDE DEF r, q, b, c
<1> QED
  BY <1>1, <1>2, <1>11, KeptStep

(* The engine goes on with what is left of its acks and does something     *)
(* about the entity e.                                                     *)
Aside(x, y, e) ==
    /\ Left(x.acks, y.acks) /\ y.batch = x.batch /\ y.changes = x.changes /\ y.pc # "push"
    /\ Answering(y) => Answering(x)
    /\ Deciding(y) /\ y.plan.ent # e => Deciding(x) /\ y.plan = x.plan

OnlyFor(e, r, b, c, r2, b2, c2) ==
    \A e2 \in Entity : e2 # e => r2[e2] = r[e2] /\ b2[e2] = b[e2] /\ c2[e2] = c[e2]

OpsAside(q, q2, e) ==
    /\ \A i \in DOMAIN q : q2[i].ent = q[i].ent
    /\ \A e2 \in Entity : e2 # e => SameFor(q, q2, e2)

LEMMA KeptAside ==
  ASSUME OneDevice, EngineInv, KeptInv, NEW d \in Device, NEW e \in Entity,
         NEW r, NEW q, NEW b, NEW c, NEW y,
         row' = Put(row, d, r), queue' = Put(queue, d, q), base' = Put(base, d, b),
         conf' = Put(conf, d, c), eng' = Put(eng, d, y), UNCHANGED <<srv, said, spent>>,
         OnlyFor(e, row[d], base[d], conf[d], r, b, c),
         Few => Aside(eng[d], y, e) /\ OpsAside(queue[d], q, e) /\ Plain(q, spent.faults),
         Few /\ ~said[e].del => KeptOf(r[e], q, b[e], c[e], y, srv[e], said[e].val, e)
  PROVE  KeptInv'
<1> DEFINE x == eng[d]
           q0 == queue[d]
           r0 == row[d]
           b0 == base[d]
           c0 == conf[d]
<1>1. /\ x.acks \in Seq(Ack) /\ x.batch \in Seq(Nat)
      /\ \A k \in DOMAIN x.acks : x.acks[k].id \in DOMAIN q0
      /\ \A k \in DOMAIN x.batch : x.batch[k] \in DOMAIN q0
  BY Pointers
<1>2. ASSUME Few' PROVE Kept(r, q, b, c, y, srv', said', spent'.faults)
  <2>1. Few /\ Sorted(q0, x) /\ x.changes = {}
    BY <1>2, KeptHere DEF Few
  <2>2. Aside(x, y, e) /\ OpsAside(q0, q, e) /\ Plain(q, spent'.faults)
    BY <2>1
  <2>3. Sorted(q, y)
    <3>1. /\ Left(x.acks, y.acks) /\ y.batch = x.batch /\ y.pc # "push" /\ (Answering(y) => Answering(x))
          /\ \A i \in DOMAIN q0 : q[i].ent = q0[i].ent
      BY <2>2 DEF Aside, OpsAside
    <3> HIDE DEF x, q0
    <3> QED
      BY <1>1, <2>1, <3>1, SortedLeft
  <2>4. ASSUME NEW e2 \in Entity, ~said[e2].del
        PROVE  KeptOf(r[e2], q, b[e2], c[e2], y, srv[e2], said[e2].val, e2)
    <3>1. CASE e2 = e
      BY <2>1, <2>4, <3>1
    <3>2. CASE e2 # e
      <4>1. KeptOf(r0[e2], q0, b0[e2], c0[e2], x, srv[e2], said[e2].val, e2)
        BY <2>1, <2>4, KeptHere
      <4>2. r[e2] = r0[e2] /\ b[e2] = b0[e2] /\ c[e2] = c0[e2]
        BY <3>2 DEF OnlyFor
      <4>3. SameFor(q0, q, e2)
        BY <2>2, <3>2 DEF OpsAside
      <4>4. /\ Left(x.acks, y.acks) /\ y.pc # "push"
            /\ Deciding(y) /\ y.plan.ent = e2 => Deciding(x) /\ y.plan = x.plan
        BY <2>2, <3>2 DEF Aside
      <4> HIDE DEF x, q0, r0, b0, c0
      <4>5. KeptOf(r0[e2], q, b0[e2], c0[e2], y, srv[e2], said[e2].val, e2)
        BY <1>1, <4>1, <4>3, <4>4, KeptElsewhere
      <4> QED
        BY <4>2, <4>5
    <3> QED
      BY <3>1, <3>2
  <2>5. y.changes = {}
    BY <2>1, <2>2 DEF Aside
  <2> QED
    BY <2>2, <2>3, <2>4, <2>5 DEF Kept
<1> QED
  BY <1>2, KeptStep

(* Nothing but the status of operations of e changes. *)
LEMMA AsideMarked ==
  ASSUME NEW q, NEW q2, NEW e, SameOps(q, q2),
         \A i \in DOMAIN q : q[i].ent # e => q2[i].status = q[i].status
  PROVE  OpsAside(q, q2, e)
BY DEF OpsAside, SameOps, SameFor

(* The first ack is that of an operation that was taken.                   *)
FirstTaken(q, q2, x, y, id) ==
    /\ q \in Seq(QueuedOp) /\ x.acks \in Seq(Ack) /\ x.acks # <<>>
    /\ id = Head(x.acks).id /\ id \in DOMAIN q /\ Head(x.acks).status = "applied"
    /\ \A k \in DOMAIN x.acks : x.acks[k].id \in DOMAIN q
    /\ \A i \in DOMAIN q : q[i].status = "in_flight" => \E k \in DOMAIN x.acks : x.acks[k].id = i
    /\ SameOps(q, q2)
    /\ \A i \in DOMAIN q : q2[i].status = IF i = id THEN "synchronized" ELSE q[i].status
    /\ y.pc = "answer" /\ y.acks = Tail(x.acks)

LEMMA KeptTaken ==
  ASSUME NEW q, NEW q2, NEW x, NEW y, NEW r, NEW r2, NEW b, NEW c, NEW s, NEW val, NEW e, NEW id,
         FirstTaken(q, q2, x, y, id), q[id].ent = e,
         KeptOf(r, q, b, c, x, s, val, e), Sorted(q, x), c = NoConflict => Three(q, e),
         r # NoRow, r2 # NoRow, r2.val = r.val, r2.del = r.del
  PROVE  KeptOf(r2, q2, b, c, y, s, val, e)
<1> DEFINE a == x.acks
           a2 == y.acks
           n == Len(a)
<1>0. /\ q \in Seq(QueuedOp) /\ a \in Seq(Ack) /\ a # <<>>
      /\ id = Head(a).id /\ id \in DOMAIN q /\ Head(a).status = "applied"
      /\ y.pc = "answer" /\ a2 = Tail(a) /\ SameOps(q, q2)
  BY DEF FirstTaken
<1>1. n \in Nat /\ n > 0 /\ DOMAIN a = 1..n /\ Head(a) = a[1]
  BY <1>0
<1>2. DOMAIN a2 = 1..(n - 1) /\ \A k \in 1..(n - 1) : a2[k] = a[k + 1]
  BY <1>0, <1>1
<1>3. \A k \in DOMAIN a2 : k \in Nat /\ k + 1 # 1 /\ k + 1 \in DOMAIN a /\ a2[k] = a[k + 1]
  BY <1>1, <1>2
<1>4. \A l \in DOMAIN a : l \in Nat /\ (l = 1 \/ (l > 1 /\ l - 1 \in DOMAIN a2 /\ a2[l - 1] = a[l]))
  BY <1>1, <1>2
<1>5. 1 \in DOMAIN a /\ a[1].id = id /\ a[1].status = "applied"
  BY <1>0, <1>1
<1>6. \A k \in DOMAIN a : a[k].id \in DOMAIN q
  BY DEF FirstTaken
<1> HIDE DEF a, a2, n
<1>7. /\ \A i \in DOMAIN q : i \in Nat
      /\ id \in DOMAIN q /\ id \in Nat
  BY <1>0
<1>8. \A i \in DOMAIN q : q2[i].ent = q[i].ent /\ q2[i].val = q[i].val /\ q2[i].del = q[i].del
  BY <1>0 DEF SameOps
<1>9. DOMAIN q2 = DOMAIN q
  BY <1>0 DEF SameOps
<1>10. ~Deciding(y) /\ y.pc # "push"
  BY <1>0 DEF Deciding
<1>11. ASSUME NEW k \in DOMAIN a, q[a[k].id].ent = e, k # 1 PROVE id < a[k].id
  <2>1. 1 < k /\ q[a[1].id].ent = q[a[k].id].ent
    BY <1>4, <1>5, <1>11
  <2> QED
    BY <1>5, <2>1 DEF Sorted, a
<1>12. Shown(r2, q2, b, y, s, val, e)
  <2>1. Shown(r, q, b, x, s, val, e)
    BY DEF KeptOf
  <2>2. ASSUME NEW k \in DOMAIN a2, q2[a2[k].id].ent = e, a2[k].status = "conflict"
        PROVE  ~a2[k].remote.del
    <3>1. k + 1 \in DOMAIN a /\ a2[k] = a[k + 1] /\ q[a[k + 1].id].ent = e
      BY <1>3, <1>6, <1>8, <2>2
    <3> QED
      BY <2>1, <2>2, <3>1 DEF Shown, a
  <2>3. \A i \in DOMAIN q2 : q2[i].ent = e => ~q2[i].del
    BY <1>8, <1>9, <2>1 DEF Shown
  <2>4. r2.val = val /\ ~r2.del /\ b = NoBase /\ (s # NoRow => ~s.del)
    BY <2>1 DEF Shown
  <2> QED
    BY <1>10, <2>2, <2>3, <2>4 DEF Shown, a2
<1>13. ASSUME c = NoConflict PROVE Taken(r2, q2, y, s, e)
  <2>1. /\ Taken(r, q, x, s, e) /\ InOrder(q, e) /\ InFlight(q, x, e) /\ Three(q, e)
    BY <1>13 DEF KeptOf, Taken
  <2>2. \A k \in DOMAIN a : q[a[k].id].ent = e => q[a[k].id].status = "in_flight"
    BY <2>1 DEF InFlight, a
  <2>3. q[id].status = "in_flight"
    BY <1>5, <2>2
  <2>4. ASSUME NEW i \in DOMAIN q, q[i].ent = e, i < id PROVE q[i].status = "synchronized"
    <3>1. q[i].status # "pending"
      BY <1>7, <2>1, <2>3, <2>4 DEF InOrder
    <3>2. ASSUME q[i].status = "in_flight" PROVE FALSE
      <4>1. PICK k \in DOMAIN a : a[k].id = i
        BY <3>2 DEF FirstTaken, a
      <4>2. id < i \/ i = id
        BY <1>5, <1>11, <2>4, <4>1
      <4>3. i \in Nat /\ id \in Nat /\ i < id
        BY <1>7, <2>4
      <4> QED
        BY <4>2, <4>3
    <3> QED
      BY <2>1, <2>4, <3>1, <3>2 DEF Three
  <2>5. InOrder(q2, e)
    <3> SUFFICES ASSUME NEW i \in DOMAIN q, NEW j \in DOMAIN q, q[i].ent = e, q[j].ent = e, i < j
                 PROVE  /\ q2[j].status = "synchronized" => q2[i].status = "synchronized"
                        /\ q2[i].status = "pending" => q2[j].status = "pending"
      BY <1>8, <1>9 DEF InOrder
    <3>1. /\ q2[i].status = IF i = id THEN "synchronized" ELSE q[i].status
          /\ q2[j].status = IF j = id THEN "synchronized" ELSE q[j].status
      BY DEF FirstTaken
    <3>2. j = id => q[i].status = "synchronized"
      BY <2>4
    <3>3. /\ q[j].status = "synchronized" => q[i].status = "synchronized"
          /\ q[i].status = "pending" => q[j].status = "pending"
      BY <2>1 DEF InOrder
    <3> QED
      BY <2>3, <3>1, <3>2, <3>3
  <2>6. InFlight(q2, y, e)
    <3> SUFFICES ASSUME NEW k \in DOMAIN a2, q2[a2[k].id].ent = e
                 PROVE  q2[a2[k].id].status = "in_flight"
      BY <1>10 DEF InFlight, a2
    <3>0. k \in Nat /\ k + 1 \in DOMAIN a /\ a2[k] = a[k + 1]
      BY <1>3
    <3>1. /\ k \in Nat /\ k + 1 \in DOMAIN a /\ a2[k] = a[k + 1] /\ a2[k].id \in DOMAIN q
          /\ q[a[k + 1].id].ent = e
      BY <1>6, <1>8, <3>0
    <3>2. k + 1 # 1
      BY <1>3
    <3>3. id < a[k + 1].id
      BY <1>11, <3>1, <3>2
    <3>4. id \in Nat /\ a[k + 1].id \in Nat
      BY <1>6, <1>7, <3>0
    <3>5. a[k + 1].id # id
      BY <3>3, <3>4
    <3> QED
      BY <2>2, <3>1, <3>5 DEF FirstTaken
  <2>7. \A m : NewestOf(q2, e, m) <=> NewestOf(q, e, m)
    BY <1>8, <1>9 DEF NewestOf
  <2>8. \E m \in DOMAIN q2 : NewestOf(q2, e, m) /\ q2[m].val = r2.val
    <3>1. PICK m \in DOMAIN q : NewestOf(q, e, m) /\ q[m].val = r.val
      BY <2>1 DEF Taken
    <3> QED
      BY <1>8, <1>9, <2>7, <3>1
  <2>9. ASSUME NEW m \in DOMAIN q2, NewestOf(q2, e, m), q2[m].status = "synchronized"
        PROVE  Holds(s, q2[m].val)
    <3>1. m \in DOMAIN q /\ NewestOf(q, e, m) /\ q2[m].val = q[m].val
      BY <1>8, <1>9, <2>7, <2>9
    <3>2. CASE m # id
      <4>1. q[m].status = "synchronized"
        BY <2>9, <3>1, <3>2 DEF FirstTaken
      <4> QED
        BY <2>1, <3>1, <4>1 DEF Taken
    <3>3. CASE m = id
      <4>1. ASSUME NEW l \in DOMAIN a, q[a[l].id].ent = e PROVE l <= 1
        <5>1. l # 1 => id < a[l].id
          BY <1>11, <4>1
        <5>2. a[l].id <= id /\ a[l].id \in Nat /\ id \in Nat
          BY <1>6, <1>7, <3>1, <3>3, <4>1 DEF NewestOf
        <5>3. l = 1
          BY <5>1, <5>2
        <5> QED
          BY <5>3
      <4>2. LastAck(q, a, e, 1)
        BY <1>5, <4>1 DEF LastAck
      <4> QED
        BY <1>5, <2>1, <3>1, <3>3, <4>2 DEF Taken, a
    <3> QED
      BY <3>2, <3>3
  <2>10. ASSUME NEW k \in DOMAIN a2, LastAck(q2, a2, e, k), a2[k].status = "applied"
         PROVE  Holds(s, q2[a2[k].id].val)
    <3>1. /\ k \in Nat /\ k + 1 \in DOMAIN a /\ a2[k] = a[k + 1] /\ a[k + 1].id \in DOMAIN q
          /\ q[a[k + 1].id].ent = e
      BY <1>3, <1>6, <1>8, <2>10 DEF LastAck
    <3>2. ASSUME NEW l \in DOMAIN a, q[a[l].id].ent = e PROVE l <= k + 1
      <4>1. CASE l = 1
        BY <3>1, <4>1
      <4>2. CASE l # 1
        <5>1. l \in Nat /\ l - 1 \in DOMAIN a2 /\ a2[l - 1] = a[l]
          BY <1>4, <4>2
        <5>2. q2[a2[l - 1].id].ent = e
          BY <1>6, <1>8, <3>2, <5>1
        <5>3. l - 1 <= k
          BY <2>10, <5>1, <5>2 DEF LastAck
        <5> QED
          BY <3>1, <5>1, <5>3
      <4> QED
        BY <4>1, <4>2
    <3>3. LastAck(q, a, e, k + 1)
      BY <3>1, <3>2 DEF LastAck
    <3>4. Holds(s, q[a[k + 1].id].val)
      BY <2>1, <2>10, <3>1, <3>3 DEF Taken, a
    <3> QED
      BY <1>8, <3>1, <3>4
  <2> QED
    BY <2>5, <2>6, <2>8, <2>9, <2>10 DEF Taken, a2
<1> QED
  BY <1>12, <1>13 DEF KeptOf

LEMMA KeptAckApplied ==
  ASSUME OneDevice, EngineInv, QueueInv, KeptInv, NEW d \in Device, AckApplied(d)
  PROVE  KeptInv'
<1> DEFINE x == eng[d]
           id == Head(x.acks).id
           q == queue[d]
           e == q[id].ent
           S == {id}
           q2 == Marked(q, S, "synchronized")
           r0 == row[d][e]
           n == [r0 EXCEPT !.ver = Head(x.acks).ver, !.st = "synchronized"]
           r == [row[d] EXCEPT ![e] = n]
           b == base[d]
           c == conf[d]
           y == [x EXCEPT !.acks = Tail(x.acks)]
<1>1. /\ x.pc = "answer" /\ x.acks # <<>> /\ Head(x.acks).status = "applied"
      /\ UNCHANGED <<base, conf, srv, said, spent>>
  BY DEF AckApplied, server
<1>2. id \in DOMAIN q /\ e \in Entity /\ r0 \in LocalRow /\ r0 # NoRow
  BY <1>1, FirstAck
<1>3. queue' = Put(queue, d, q2) /\ eng' = Put(eng, d, y)
  BY DEF AckApplied, Put
<1>4. row' = Put(row, d, r)
  BY Here DEF AckApplied, SetRow, Put, Rows, TypeOK
<1>5. base' = Put(base, d, b) /\ conf' = Put(conf, d, c)
  BY <1>1, Here
<1>6. n \in LocalRow /\ n.val = r0.val /\ n.del = r0.del
  <2>1. Head(x.acks).ver \in Nat
    BY <1>1, FirstAck DEF Ack
  <2> QED
    BY <1>2, <2>1 DEF LocalRow
<1> HIDE DEF n
<1>7. n # NoRow
  <2>1. n \in LocalRow
    BY <1>6
  <2> HIDE DEF x, id, q, e, r0
  <2> QED
    BY <2>1, EngineAssumption
<1>8. r[e] = n /\ \A e2 \in Entity : e2 # e => r[e2] = row[d][e2]
  BY <1>2, Here DEF Rows
<1>9. /\ q \in Seq(QueuedOp) /\ x \in EngineState /\ x.acks \in Seq(Ack) /\ x.batch \in Seq(Nat)
      /\ \A k \in DOMAIN x.acks : x.acks[k].id \in DOMAIN q
      /\ \A k \in DOMAIN x.batch : x.batch[k] \in DOMAIN q
      /\ Awaited(q, x)
  BY Here, Pointers DEF Sound
<1>10. /\ SameOps(q, q2)
       /\ \A i \in DOMAIN q :
             /\ q2[i].attempts = q[i].attempts
             /\ q2[i].status = IF i = id THEN "synchronized" ELSE q[i].status
  <2>1. "synchronized" \in Live \cup {"synchronized", "failed"}
    OBVIOUS
  <2>2. \A i : i \in S <=> i = id
    OBVIOUS
  <2> HIDE DEF q, S
  <2> QED
    BY <1>9, <2>1, <2>2, MarkedKeeps
<1>11. y.pc = "answer" /\ y.acks = Tail(x.acks) /\ y.batch = x.batch /\ y.changes = x.changes
  BY <1>1, <1>9 DEF EngineState
<1> HIDE DEF q2, r, y
<1>12. ~Deciding(y) /\ y.pc # "push" /\ Left(x.acks, y.acks) /\ Answering(x)
  BY <1>1, <1>11 DEF Deciding, Left, Answering
<1>13. OnlyFor(e, row[d], base[d], conf[d], r, b, c)
  BY <1>8 DEF OnlyFor
<1>14. Few => Aside(eng[d], y, e) /\ OpsAside(queue[d], q2, e) /\ Plain(q2, spent.faults)
  <2>1. Aside(x, y, e)
    BY <1>11, <1>12 DEF Aside
  <2>2. OpsAside(q, q2, e)
    <3>1. \A i \in DOMAIN q : q[i].ent # e => q2[i].status = q[i].status
      BY <1>10
    <3> HIDE DEF q, e
    <3> QED
      BY <1>10, <3>1, AsideMarked
  <2>3. Few => Plain(q2, spent.faults)
    <3>1. Few => Plain(q, spent.faults)
      BY KeptHere
    <3> HIDE DEF q, id
    <3> QED
      BY <1>10, <3>1 DEF Plain, SameOps
  <2> QED
    BY <2>1, <2>2, <2>3
<1>15. ASSUME Few, ~said[e].del PROVE KeptOf(r[e], q2, b[e], c[e], y, srv[e], said[e].val, e)
  <2>1. KeptOf(r0, q, b[e], c[e], x, srv[e], said[e].val, e) /\ Sorted(q, x)
    BY <1>2, <1>15, KeptHere
  <2>2. c[e] = NoConflict => Three(q, e)
    BY <1>2, <1>15, ThreeStates
  <2>3. \A i \in DOMAIN q : q[i].status = "in_flight" => \E k \in DOMAIN x.acks : x.acks[k].id = i
    BY <1>1, <1>9 DEF Awaited
  <2>4. FirstTaken(q, q2, x, y, id)
    BY <1>1, <1>2, <1>9, <1>10, <1>11, <2>3 DEF FirstTaken
  <2>5. q[id].ent = e
    OBVIOUS
  <2> HIDE DEF q, x, r0, id, b, c, e
  <2>6. KeptOf(n, q2, b[e], c[e], y, srv[e], said[e].val, e)
    BY <1>2, <1>6, <1>7, <2>1, <2>2, <2>4, <2>5, KeptTaken
  <2> QED
    BY <1>8, <2>6
<1>16. UNCHANGED <<srv, said, spent>> /\ e \in Entity
  BY <1>1, <1>2
<1>17. Few /\ ~said[e].del => KeptOf(r[e], q2, b[e], c[e], y, srv[e], said[e].val, e)
  BY <1>15
<1> HIDE DEF b, c, x, q, e
<1> QED
  BY <1>3, <1>4, <1>5, <1>13, <1>14, <1>16, <1>17, KeptAside

(* Nothing happens to the queue. *)
LEMMA AsideSame ==
  ASSUME NEW q, NEW e
  PROVE  OpsAside(q, q, e)
BY DEF OpsAside, SameFor

(* The engine holds its acks and decides.                                  *)
LEMMA KeptHolding ==
  ASSUME NEW q, NEW x, NEW y, NEW r, NEW b, NEW c, NEW s, NEW val, NEW e, KeptOf(r, q, b, c, x, s, val, e),
         y.acks = x.acks, y.pc # "push", Deciding(y) /\ y.plan.ent = e => y.plan.step.do = "park"
  PROVE  KeptOf(r, q, b, c, y, s, val, e)
<1>1. Shown(r, q, b, y, s, val, e)
  BY DEF KeptOf, Shown
<1>2. ASSUME c = NoConflict PROVE Taken(r, q, y, s, e)
  <2>1. Taken(r, q, x, s, e)
    BY <1>2 DEF KeptOf
  <2>2. InFlight(q, y, e)
    BY <2>1 DEF Taken, InFlight
  <2> QED
    BY <2>1, <2>2 DEF Taken
<1> QED
  BY <1>1, <1>2 DEF KeptOf

(* Without a base, two contents that are both there are left to the user.  *)
LEMMA VerdictParks ==
  ASSUME NEW d \in Device, NEW e \in Entity, NEW remote, NEW step \in Verdict(d, e, remote),
         base[d][e] = NoBase, row[d][e].del = remote.del
  PROVE  step.do = "park"
<1> DEFINE mine == row[d][e]
           b == base[d][e]
           crit == e \in Critical
           made(do, val, merged, ask) == [do |-> do, val |-> val, merged |-> merged, ask |-> ask]
<1>1. PICK newer \in {"local", "remote"} : step = Resolve(mine, remote, b, crit, newer)
  BY DEF Verdict
<1>2. step = made("park", mine.val, FALSE, crit)
  BY <1>1 DEF Resolve
<1> QED
  BY <1>2

LEMMA KeptAckConflict ==
  ASSUME OneDevice, EngineInv, KeptInv, NEW d \in Device, AckConflict(d)
  PROVE  KeptInv'
<1> DEFINE x == eng[d]
           ack == Head(x.acks)
           q == queue[d]
           r == row[d]
           b == base[d]
           c == conf[d]
           e == q[ack.id].ent
<1>1. /\ x.pc = "answer" /\ x.acks # <<>> /\ ack.status = "conflict"
      /\ UNCHANGED <<local, srv, said, spent>>
  BY DEF AckConflict, server
<1>2. e \in Entity /\ r[e] \in LocalRow /\ r[e] # NoRow /\ ack \in Ack
  BY <1>1, FirstAck
<1>3. PICK step \in Verdict(d, e, ack.remote) :
         Decide(d, Plan("answer", ack.id, e, ack.remote, ack.ver, step, TRUE))
  BY DEF AckConflict
<1> DEFINE plan == Plan("answer", ack.id, e, ack.remote, ack.ver, step, TRUE)
           y == [x EXCEPT !.pc = "decided", !.plan = plan]
<1>4. plan.step = step /\ plan.ent = e
  BY DEF Plan
<1>5. eng' = Put(eng, d, y)
  BY <1>3, Here DEF Decide, Put, TypeOK
<1>6. /\ y.pc = "decided" /\ y.plan = plan /\ y.acks = x.acks /\ y.batch = x.batch
      /\ y.changes = x.changes
  BY Here DEF EngineState
<1> HIDE DEF y
<1>7. /\ row' = Put(row, d, r) /\ queue' = Put(queue, d, q) /\ base' = Put(base, d, b)
      /\ conf' = Put(conf, d, c)
  BY <1>1, Here DEF local
<1>8. ack.remote.del \in BOOLEAN /\ r[e].del \in BOOLEAN
  <2>1. ack.remote \in ServerRow
    BY <1>1, <1>2 DEF Ack
  <2> QED
    BY <1>2, <2>1 DEF ServerRow, LocalRow
<1>9. 1 \in DOMAIN x.acks /\ x.acks[1] = ack
  <2>1. x.acks \in Seq(Ack)
    BY Pointers
  <2> QED
    BY <1>1, <2>1
<1>10. ASSUME Few, ~said[e].del PROVE KeptOf(r[e], q, b[e], c[e], y, srv[e], said[e].val, e)
  <2>1. KeptOf(r[e], q, b[e], c[e], x, srv[e], said[e].val, e)
    BY <1>2, <1>10, KeptHere
  <2>2. b[e] = NoBase /\ ~r[e].del /\ ~ack.remote.del
    <3>1. Shown(r[e], q, b[e], x, srv[e], said[e].val, e)
      BY <2>1 DEF KeptOf
    <3> HIDE DEF r, b, q, x, e
    <3>2. q[x.acks[1].id].ent = e /\ x.acks[1].status = "conflict"
      BY <1>1, <1>9 DEF e
    <3> QED
      BY <1>2, <1>9, <3>1, <3>2 DEF Shown
  <2>3. step.do = "park"
    BY <1>2, <1>8, <2>2, VerdictParks
  <2> HIDE DEF r, q, b, c, x, e, plan
  <2> QED
    BY <1>4, <1>6, <2>1, <2>3, KeptHolding
<1>11. Aside(x, y, e)
  BY <1>1, <1>4, <1>6 DEF Aside, Left, Answering, Deciding
<1>12. OnlyFor(e, row[d], base[d], conf[d], r, b, c)
  BY DEF OnlyFor
<1>13. Few => Aside(eng[d], y, e) /\ OpsAside(queue[d], q, e) /\ Plain(q, spent.faults)
  BY <1>11, AsideSame, KeptHere
<1>14. UNCHANGED <<srv, said, spent>>
  BY <1>1
<1> HIDE DEF r, q, b, c, x, e
<1> QED
  BY <1>2, <1>5, <1>7, <1>10, <1>12, <1>13, <1>14, KeptAside

-----------------------------------------------------------------------------
(* Nothing is pulled on a single device: a decision is about an ack.       *)
LEMMA AboutAnAck ==
  ASSUME EngineInv, QueueInv, KeptInv, Few, NEW d \in Device, Deciding(eng[d])
  PROVE  LET x == eng[d]
             y == Resumed(x)
         IN  /\ x.plan.from = "answer" /\ queue[d][x.plan.id].ent = x.plan.ent
             /\ x.plan.step.do # "insert"
             /\ ~Deciding(y) /\ y.pc # "push" /\ y.acks = Tail(x.acks) /\ Aside(x, y, x.plan.ent)
<1> DEFINE x == eng[d]
           y == Resumed(x)
<1>1. x.plan \in PlanOf /\ x.changes = {} /\ PlanSound(row[d], x, feed) /\ x \in EngineState
  BY PlanAtHand, KeptHere, Here DEF Sound
<1>2. x.plan.from = "answer" /\ x.plan.step.do # "insert" /\ x.acks # <<>>
  BY <1>1 DEF PlanSound, PlanOf
<1>3. y.pc = "answer" /\ y.acks = Tail(x.acks) /\ y.batch = x.batch /\ y.changes = x.changes
  BY <1>1, <1>2 DEF Resumed, EngineState
<1>4. queue[d][x.plan.id].ent = x.plan.ent
  BY <1>2 DEF QueueInv, Asked, Few
<1> HIDE DEF x, y
<1>5. ~Deciding(y) /\ y.pc # "push"
  BY <1>3 DEF Deciding
<1>6. Answering(x)
  BY <1>2 DEF Answering, x
<1>7. Aside(x, y, x.plan.ent)
  BY <1>2, <1>3, <1>5, <1>6 DEF Aside, Left
<1> QED
  BY <1>2, <1>3, <1>4, <1>5, <1>7 DEF x, y

(* What becomes of an entity nobody has deleted is left to the user.       *)
LEMMA OnlyParked ==
  ASSUME KeptInv, Few, NEW d \in Device, Deciding(eng[d]), eng[d].plan.ent \in Entity,
         eng[d].plan.step.do # "park"
  PROVE  said[eng[d].plan.ent].del
<1> DEFINE e == eng[d].plan.ent
<1> SUFFICES ASSUME ~said[e].del PROVE FALSE
  OBVIOUS
<1>1. Shown(row[d][e], queue[d], base[d][e], eng[d], srv[e], said[e].val, e)
  BY KeptHere
<1> QED
  BY <1>1 DEF Shown

LEMMA AnsweredKeeps ==
  ASSUME NEW q \in Seq(QueuedOp), NEW plan, plan.from = "answer", NEW n, Plain(q, n),
         q[plan.id].ent = plan.ent
  PROVE  /\ SameOps(q, Answered(q, plan)) /\ Plain(Answered(q, plan), n)
         /\ OpsAside(q, Answered(q, plan), plan.ent)
<1> DEFINE status == IF plan.step.ask THEN "conflict" ELSE "synchronized"
           S == {plan.id}
           q2 == Marked(q, S, status)
<1>1. status \in {"conflict", "synchronized"}
  OBVIOUS
<1>2. Answered(q, plan) = q2
  BY DEF Answered
<1>3. \A i : i \in S <=> i = plan.id
  OBVIOUS
<1> HIDE DEF status, S
<1>4. /\ SameOps(q, q2)
      /\ \A i \in DOMAIN q :
            /\ q2[i].attempts = q[i].attempts
            /\ q2[i].status = IF i \in S THEN status ELSE q[i].status
  <2>1. status \in Live \cup {"synchronized", "failed"}
    BY <1>1 DEF Live
  <2> QED
    BY <2>1, MarkedKeeps
<1> HIDE DEF q2
<1>5. Plain(q2, n)
  <2>1. \A i \in DOMAIN q : q2[i].status = "failed" => q[i].status = "failed"
    BY <1>1, <1>4
  <2> QED
    BY <1>4, <2>1 DEF Plain, SameOps
<1>6. \A i \in DOMAIN q : q[i].ent # plan.ent => q2[i].status = q[i].status
  BY <1>3, <1>4
<1>7. OpsAside(q, q2, plan.ent)
  BY <1>4, <1>6, AsideMarked
<1> QED
  BY <1>2, <1>4, <1>5, <1>7

LEMMA KeptInsertRemote ==
  ASSUME OneDevice, EngineInv, QueueInv, KeptInv, NEW d \in Device, InsertRemote(d)
  PROVE  KeptInv'
<1>1. eng[d].pc = "decided" /\ eng[d].plan.step.do = "insert" /\ UNCHANGED spent
  BY DEF InsertRemote
<1>2. Deciding(eng[d])
  BY <1>1 DEF Deciding
<1>3. ~Few
  BY <1>1, <1>2, AboutAnAck
<1> QED
  BY <1>1, <1>3 DEF KeptInv, Few

LEMMA KeptApplyChange ==
  ASSUME KeptInv, NEW d \in Device, ApplyChange(d)
  PROVE  KeptInv'
<1>1. eng[d].changes # {} /\ UNCHANGED spent
  BY DEF ApplyChange
<1>2. ~Few
  BY <1>1, KeptHere
<1> QED
  BY <1>1, <1>2 DEF KeptInv, Few

LEMMA KeptWriteRemote ==
  ASSUME OneDevice, EngineInv, QueueInv, KeptInv, NEW d \in Device, WriteRemote(d)
  PROVE  KeptInv'
<1> DEFINE x == eng[d]
           plan == x.plan
           e == plan.ent
           q == queue[d]
           q2 == Answered(q, plan)
           y == Resumed(x)
           n == Fetched(plan)
           r == [row[d] EXCEPT ![e] = n]
           b == [base[d] EXCEPT ![e] = plan.remote.val]
           left == IF plan.closes THEN NoConflict ELSE conf[d][e]
           c == [conf[d] EXCEPT ![e] = left]
<1>1. /\ x.pc = "decided" /\ plan.step.do = "remote" /\ SetRow(d, e, n) /\ UNCHANGED <<srv, said, spent>>
      /\ queue' = Put(queue, d, q2) /\ eng' = Put(eng, d, y)
  BY DEF WriteRemote, Put, server
<1>2. Deciding(x)
  BY <1>1 DEF Deciding
<1>3. e \in Entity /\ q \in Seq(QueuedOp)
  BY <1>2, PlanAtHand, Here
<1>4. base' = Put(base, d, b) /\ conf' = Put(conf, d, c)
  BY <1>3, Here DEF WriteRemote, Put, TypeOK
<1> HIDE DEF n
<1>5. row' = Put(row, d, r)
  BY <1>1, Here DEF SetRow, Put, Rows, TypeOK
<1>6. OnlyFor(e, row[d], base[d], conf[d], r, b, c)
  BY Here DEF OnlyFor, Rows
<1> HIDE DEF r, b, c, y, q2
<1>7. ~Few \/ said[e].del
  BY <1>1, <1>2, <1>3, OnlyParked
<1>8. Few => Aside(eng[d], y, e) /\ OpsAside(queue[d], q2, e) /\ Plain(q2, spent.faults)
  <2> SUFFICES ASSUME Few PROVE Aside(eng[d], y, e) /\ OpsAside(queue[d], q2, e) /\ Plain(q2, spent.faults)
    OBVIOUS
  <2>1. plan.from = "answer" /\ q[plan.id].ent = plan.ent /\ Aside(x, y, e) /\ Plain(q, spent.faults)
    BY <1>2, AboutAnAck, KeptHere DEF y
  <2> HIDE DEF plan, q
  <2>2. OpsAside(q, q2, plan.ent) /\ Plain(q2, spent.faults)
    BY <1>3, <2>1, AnsweredKeeps DEF q2
  <2> QED
    BY <2>1, <2>2 DEF q
<1>9. Few /\ ~said[e].del => KeptOf(r[e], q2, b[e], c[e], y, srv[e], said[e].val, e)
  BY <1>7
<1> HIDE DEF e
<1> QED
  BY <1>1, <1>3, <1>4, <1>5, <1>6, <1>8, <1>9, KeptAside

LEMMA KeptWriteMergedRow ==
  ASSUME OneDevice, EngineInv, KeptInv, NEW d \in Device, WriteMergedRow(d)
  PROVE  KeptInv'
<1> DEFINE x == eng[d]
           plan == x.plan
           e == plan.ent
           q == queue[d]
           c == conf[d]
           n == Merged(plan.ver, plan.step.val, plan.remote.del)
           r == [row[d] EXCEPT ![e] = n]
           b == [base[d] EXCEPT ![e] = plan.step.val]
           y == [x EXCEPT !.pc = "requeue"]
<1>1. /\ x.pc = "decided" /\ plan.step.do = "merge" /\ SetRow(d, e, n)
      /\ UNCHANGED <<queue, conf, srv, said, spent>>
  BY DEF WriteMergedRow, server
<1>2. Deciding(x)
  BY <1>1 DEF Deciding
<1>3. e \in Entity
  BY <1>2, PlanAtHand
<1>4. eng' = Put(eng, d, y)
  BY Here DEF WriteMergedRow, GoTo, Put, TypeOK
<1> HIDE DEF n
<1>5. row' = Put(row, d, r)
  BY <1>1, Here DEF SetRow, Put, Rows, TypeOK
<1>6. base' = Put(base, d, b) /\ queue' = Put(queue, d, q) /\ conf' = Put(conf, d, c)
  BY <1>1, Here DEF WriteMergedRow, Put, TypeOK
<1>7. /\ y.pc = "requeue" /\ y.plan = plan /\ y.acks = x.acks /\ y.batch = x.batch
      /\ y.changes = x.changes
  BY Here DEF EngineState
<1>8. OnlyFor(e, row[d], base[d], conf[d], r, b, c)
  BY Here DEF OnlyFor, Rows
<1> HIDE DEF y, r, b
<1>9. Aside(x, y, e)
  BY <1>2, <1>7 DEF Aside, Left, Answering, Deciding
<1>10. Few => Aside(eng[d], y, e) /\ OpsAside(queue[d], q, e) /\ Plain(q, spent.faults)
  BY <1>9, AsideSame, KeptHere
<1>11. ~Few \/ said[e].del
  BY <1>1, <1>2, <1>3, OnlyParked
<1>12. Few /\ ~said[e].del => KeptOf(r[e], q, b[e], c[e], y, srv[e], said[e].val, e)
  BY <1>11
<1>13. UNCHANGED <<srv, said, spent>>
  BY <1>1
<1> HIDE DEF e, q, c
<1> QED
  BY <1>3, <1>4, <1>5, <1>6, <1>8, <1>10, <1>12, <1>13, KeptAside

(* The operation of a merge is as good as a new one.                       *)
LEMMA RequeuedKeeps ==
  ASSUME NEW d \in Device, NEW e \in Entity, NEW v \in Nat, NEW n \in LocalRow, NEW plan, NEW m \in Nat,
         queue[d] \in Seq(QueuedOp), Plain(queue[d], m), plan.from = "answer", plan.ent = e,
         plan.id \in DOMAIN queue[d], queue[d][plan.id].ent = e
  PROVE  LET q2 == Answered(Requeued(queue[d], d, e, v, n), plan)
         IN  OpsAside(queue[d], q2, e) /\ Plain(q2, m)
<1> DEFINE q == queue[d]
           L == LiveOps(d, e)
           w == Marked(q, L, "synchronized")
           op == OpOf(e, "update", v, n, FALSE)
           a == Append(w, op)
           q2 == Answered(a, plan)
           j == Len(w) + 1
<1>1. op \in QueuedOp /\ op.ent = e /\ ~op.urgent /\ op.attempts = 0 /\ op.status = "pending"
  BY OpTyped DEF OpOf
<1>2. /\ SameOps(q, w) /\ w \in Seq(QueuedOp)
      /\ \A i \in DOMAIN q : /\ w[i].attempts = q[i].attempts
                             /\ w[i].status = IF i \in L THEN "synchronized" ELSE q[i].status
  BY MarkedKeeps, MarkedOps
<1>3. \A i \in L : q[i].ent = e
  BY DEF LiveOps
<1> HIDE DEF w, op, L
<1>4. /\ a \in Seq(QueuedOp) /\ DOMAIN a = DOMAIN w \cup {j} /\ j \notin DOMAIN w /\ a[j] = op
      /\ \A i \in DOMAIN w : a[i] = w[i]
  BY <1>1, <1>2
<1> HIDE DEF a, j, q
<1>5. DOMAIN w = DOMAIN q
  BY <1>2 DEF SameOps
<1>6. \A i \in DOMAIN q : /\ a[i].ent = q[i].ent /\ a[i].val = q[i].val /\ a[i].del = q[i].del
                          /\ a[i].urgent = q[i].urgent /\ a[i].attempts = q[i].attempts
                          /\ a[i].status = IF i \in L THEN "synchronized" ELSE q[i].status
  BY <1>2, <1>4, <1>5 DEF SameOps
<1>7. Plain(a, m)
  <2>1. Plain(q, m)
    BY DEF q
  <2>2. ASSUME NEW i \in DOMAIN q
        PROVE  ~a[i].urgent /\ a[i].attempts <= m /\ (a[i].status = "failed" => a[i].attempts >= MAX_ATTEMPTS)
    BY <1>6, <2>1 DEF Plain
  <2>3. ~a[j].urgent /\ a[j].attempts <= m /\ a[j].status # "failed"
    BY <1>1, <1>4
  <2>4. \A i \in DOMAIN a : i \in DOMAIN q \/ i = j
    BY <1>4, <1>5
  <2> QED
    BY <2>2, <2>3, <2>4 DEF Plain
<1>8. OpsAside(q, a, e)
  <2>1. \A i \in DOMAIN a \ DOMAIN q : a[i].ent = e
    BY <1>1, <1>4, <1>5
  <2>2. DOMAIN q \subseteq DOMAIN a
    BY <1>4, <1>5
  <2> QED
    BY <1>3, <1>6, <2>1, <2>2 DEF OpsAside, SameFor
<1>9. SameOps(a, q2) /\ Plain(q2, m) /\ OpsAside(a, q2, e)
  <2>1. a[plan.id].ent = plan.ent
    BY <1>6 DEF q
  <2> QED
    BY <1>4, <1>7, <2>1, AnsweredKeeps
<1> HIDE DEF q2
<1>10. DOMAIN q \subseteq DOMAIN a /\ DOMAIN q2 = DOMAIN a
  BY <1>4, <1>5, <1>9 DEF SameOps
<1>11. OpsAside(q, q2, e)
  <2>1. \A i \in DOMAIN q : q2[i].ent = q[i].ent
    BY <1>6, <1>9, <1>10 DEF SameOps
  <2>2. ASSUME NEW e2 \in Entity, e2 # e PROVE SameFor(q, q2, e2)
    <3>1. SameFor(q, a, e2) /\ SameFor(a, q2, e2)
      BY <1>8, <1>9, <2>2 DEF OpsAside
    <3>2. \A i \in DOMAIN q : q[i].ent = e2 =>
             q2[i].status = q[i].status /\ q2[i].val = q[i].val /\ q2[i].del = q[i].del
      BY <1>10, <3>1 DEF SameFor
    <3>3. \A i \in DOMAIN q2 \ DOMAIN q : q2[i].ent # e2
      BY <1>10, <3>1 DEF SameFor
    <3> QED
      BY <1>10, <2>1, <3>2, <3>3 DEF SameFor
  <2> QED
    BY <2>1, <2>2 DEF OpsAside
<1> QED
  BY <1>9, <1>11 DEF q, q2, a, w, op, L, Requeued

LEMMA KeptQueueMerged ==
  ASSUME OneDevice, EngineInv, QueueInv, KeptInv, NEW d \in Device, QueueMerged(d)
  PROVE  KeptInv'
<1> DEFINE x == eng[d]
           plan == x.plan
           e == plan.ent
           q == queue[d]
           n == Merged(plan.ver, plan.step.val, plan.remote.del)
           q2 == Answered(Requeued(q, d, e, plan.ver, n), plan)
           y == Resumed(x)
           r == row[d]
           b == base[d]
           c == [conf[d] EXCEPT ![e] = NoConflict]
<1>1. /\ x.pc = "requeue" /\ queue' = Put(queue, d, q2) /\ eng' = Put(eng, d, y)
      /\ UNCHANGED <<row, base, srv, said, spent>>
  BY DEF QueueMerged, Put, server
<1>2. Deciding(x)
  BY <1>1 DEF Deciding
<1>3. plan.step.do = "merge"
  BY <1>1, <1>2, Here DEF Sound, PlanSound
<1>4. /\ e \in Entity /\ n \in LocalRow /\ plan.ver \in Nat /\ q \in Seq(QueuedOp)
      /\ plan.from = "answer" => plan.id \in DOMAIN q
  BY <1>2, PlanAtHand, Here
<1>5. conf' = Put(conf, d, c) /\ row' = Put(row, d, r) /\ base' = Put(base, d, b)
  BY <1>1, Here DEF QueueMerged, Put, TypeOK
<1>6. OnlyFor(e, row[d], base[d], conf[d], r, b, c)
  BY Here DEF OnlyFor
<1> HIDE DEF n, r, b, c, y, q2
<1>7. ~Few \/ said[e].del
  BY <1>2, <1>3, <1>4, OnlyParked
<1>8. Few => Aside(eng[d], y, e) /\ OpsAside(queue[d], q2, e) /\ Plain(q2, spent.faults)
  <2> SUFFICES ASSUME Few PROVE Aside(eng[d], y, e) /\ OpsAside(queue[d], q2, e) /\ Plain(q2, spent.faults)
    OBVIOUS
  <2>1. /\ plan.from = "answer" /\ q[plan.id].ent = e /\ Aside(x, y, e)
        /\ Plain(q, spent.faults) /\ spent.faults \in Nat
    BY <1>2, AboutAnAck, KeptHere, Here DEF y, Spent
  <2>2. e = plan.ent
    OBVIOUS
  <2> HIDE DEF plan, e
  <2>3. OpsAside(q, q2, e) /\ Plain(q2, spent.faults)
    BY <1>4, <2>1, <2>2, RequeuedKeeps DEF q2
  <2> QED
    BY <2>1, <2>3
<1>9. Few /\ ~said[e].del => KeptOf(r[e], q2, b[e], c[e], y, srv[e], said[e].val, e)
  BY <1>7
<1>10. UNCHANGED <<srv, said, spent>>
  BY <1>1
<1> HIDE DEF e
<1> QED
  BY <1>1, <1>4, <1>5, <1>6, <1>8, <1>9, <1>10, KeptAside

(* A conflict is left to the user: the row stays what the user said.       *)
LEMMA ShownLeft ==
  ASSUME NEW q, NEW q2, NEW x, NEW y, NEW r, NEW r2, NEW b, NEW s, NEW val, NEW e,
         Shown(r, q, b, x, s, val, e), SameOps(q, q2), x.acks \in Seq(Ack), Left(x.acks, y.acks),
         \A k \in DOMAIN x.acks : x.acks[k].id \in DOMAIN q,
         ~Deciding(y), r # NoRow, r2 # NoRow, r2.val = r.val, r2.del = r.del
  PROVE  Shown(r2, q2, b, y, s, val, e)
<1> DEFINE a == x.acks
           a2 == y.acks
<1>1. PICK o \in Nat : Shifted(a, a2, o)
  BY LeftOver
<1>2. \A k \in DOMAIN a : a[k].id \in DOMAIN q
  OBVIOUS
<1> HIDE DEF a, a2
<1>3. ASSUME NEW k \in DOMAIN a2, q2[a2[k].id].ent = e, a2[k].status = "conflict"
      PROVE  ~a2[k].remote.del
  <2>1. k + o \in DOMAIN a /\ a2[k] = a[k + o]
    BY <1>1 DEF Shifted
  <2>2. q[a[k + o].id].ent = e
    BY <1>2, <1>3, <2>1 DEF SameOps
  <2> QED
    BY <1>3, <2>1, <2>2 DEF Shown, a
<1>4. \A i \in DOMAIN q2 : q2[i].ent = e => ~q2[i].del
  BY DEF Shown, SameOps
<1> QED
  BY <1>3, <1>4 DEF Shown, a2

LEMMA KeptPark ==
  ASSUME OneDevice, EngineInv, QueueInv, KeptInv, NEW d \in Device, Park(d)
  PROVE  KeptInv'
<1> DEFINE x == eng[d]
           plan == x.plan
           e == plan.ent
           q == queue[d]
           q2 == Answered(q, plan)
           y == Resumed(x)
           r0 == row[d][e]
           s == IF plan.step.do = "park" THEN "conflict" ELSE r0.st
           n == [r0 EXCEPT !.st = s]
           r == [row[d] EXCEPT ![e] = n]
           b == base[d]
           k == [remote |-> [val |-> plan.remote.val, del |-> plan.remote.del],
                 mine |-> [val |-> plan.step.val, del |-> r0.del], ver |-> plan.ver]
           c == [conf[d] EXCEPT ![e] = k]
<1>1. /\ x.pc = "decided" /\ plan.step.do \in {"park", "parkDelete"} /\ queue' = Put(queue, d, q2)
      /\ eng' = Put(eng, d, y) /\ UNCHANGED <<base, srv, said, spent>>
  BY DEF Park, Put, server
<1>2. Deciding(x)
  BY <1>1 DEF Deciding
<1>3. /\ e \in Entity /\ plan.ver \in Nat /\ r0 # NoRow /\ plan.step.val \in Values
      /\ plan.remote.val \in Values /\ plan.remote.del \in BOOLEAN /\ q \in Seq(QueuedOp)
  BY <1>1, <1>2, PlanAtHand, Here
<1>4. r0 \in LocalRow
  BY <1>3, Here DEF Rows
<1>5. SetRow(d, e, n)
  BY <1>4 DEF Park, LocalRow
<1>6. conf' = Put(conf, d, c) /\ base' = Put(base, d, b)
  BY <1>1, Here DEF Park, Put, TypeOK
<1>7. n \in LocalRow /\ n.val = r0.val /\ n.del = r0.del
  BY <1>4 DEF LocalRow
<1>8. n # NoRow
  BY <1>7, EngineAssumption
<1>9. k # NoConflict
  <2>1. k \in OpenConflict
    BY <1>3, <1>4 DEF OpenConflict, Content, LocalRow
  <2> HIDE DEF k
  <2> QED
    BY <2>1, EngineAssumption
<1> HIDE DEF n, k
<1>10. row' = Put(row, d, r)
  BY <1>5, Here DEF SetRow, Put, Rows, TypeOK
<1>11. OnlyFor(e, row[d], base[d], conf[d], r, b, c) /\ r[e] = n /\ c[e] = k
  BY <1>3, Here DEF OnlyFor, Rows
<1> HIDE DEF r, b, c, y, q2
<1>12. ASSUME Few
       PROVE  /\ Aside(x, y, e) /\ OpsAside(q, q2, e) /\ Plain(q2, spent.faults)
              /\ SameOps(q, q2) /\ ~Deciding(y) /\ y.acks = Tail(x.acks)
  <2>1. /\ plan.from = "answer" /\ q[plan.id].ent = plan.ent /\ Aside(x, y, e) /\ Plain(q, spent.faults)
        /\ ~Deciding(y) /\ y.acks = Tail(x.acks)
    BY <1>2, <1>12, AboutAnAck, KeptHere DEF y
  <2> HIDE DEF plan, q
  <2>2. OpsAside(q, q2, plan.ent) /\ Plain(q2, spent.faults) /\ SameOps(q, q2)
    BY <1>3, <2>1, AnsweredKeeps DEF q2
  <2> QED
    BY <2>1, <2>2
<1>13. ASSUME Few, ~said[e].del PROVE KeptOf(r[e], q2, b[e], c[e], y, srv[e], said[e].val, e)
  <2>1. Shown(r0, q, b[e], x, srv[e], said[e].val, e)
    BY <1>3, <1>13, KeptHere DEF b
  <2>2. SameOps(q, q2) /\ ~Deciding(y) /\ Left(x.acks, y.acks)
    BY <1>12, <1>13 DEF Aside
  <2>3. x.acks \in Seq(Ack) /\ \A l \in DOMAIN x.acks : x.acks[l].id \in DOMAIN q
    BY Pointers
  <2> HIDE DEF x, q, r0, e
  <2>4. Shown(n, q2, b[e], y, srv[e], said[e].val, e)
    BY <1>3, <1>7, <1>8, <2>1, <2>2, <2>3, ShownLeft
  <2> QED
    BY <1>9, <1>11, <2>4 DEF KeptOf
<1>14. Few => Aside(eng[d], y, e) /\ OpsAside(queue[d], q2, e) /\ Plain(q2, spent.faults)
  BY <1>12
<1>15. UNCHANGED <<srv, said, spent>>
  BY <1>1
<1>16. Few /\ ~said[e].del => KeptOf(r[e], q2, b[e], c[e], y, srv[e], said[e].val, e)
  BY <1>13
<1>17. queue' = Put(queue, d, q2) /\ eng' = Put(eng, d, y)
  BY <1>1
<1> HIDE DEF e, q, x
<1> QED
  BY <1>3, <1>6, <1>10, <1>11, <1>14, <1>15, <1>16, <1>17, KeptAside

-----------------------------------------------------------------------------
LEMMA KeptInit ==
  ASSUME Init
  PROVE  KeptInv
<1> SUFFICES ASSUME NEW d \in Device
             PROVE  Kept(row[d], queue[d], base[d], conf[d], eng[d], srv, said, spent.faults)
  BY DEF KeptInv
<1>1. queue[d] = <<>> /\ eng[d] = IdleEngine /\ DOMAIN <<>> = {}
  BY DEF Init
<1>2. eng[d].acks = <<>> /\ eng[d].pc = "idle" /\ eng[d].changes = {}
  BY <1>1 DEF IdleEngine
<1>3. Plain(queue[d], spent.faults)
  BY <1>1 DEF Plain
<1>4. Sorted(queue[d], eng[d]) /\ ~Deciding(eng[d])
  BY <1>2, SortedIdle
<1>5. ASSUME NEW e \in Entity
      PROVE  KeptOf(row[d][e], queue[d], base[d][e], conf[d][e], eng[d], srv[e], said[e].val, e)
  <2>1. row[d][e] = NoRow /\ base[d][e] = NoBase /\ srv[e] = NoRow /\ said[e].val = [f \in Field |-> 0]
    BY DEF Init
  <2>2. Shown(row[d][e], queue[d], base[d][e], eng[d], srv[e], said[e].val, e)
    BY <1>1, <1>2, <1>4, <2>1 DEF Shown
  <2>3. Taken(row[d][e], queue[d], eng[d], srv[e], e)
    BY <1>1, <1>2, <2>1 DEF Taken, InOrder, InFlight
  <2> QED
    BY <2>2, <2>3 DEF KeptOf
<1> QED
  BY <1>2, <1>3, <1>4, <1>5 DEF Kept

LEMMA KeptNext ==
  ASSUME OneDevice, EngineInv, QueueInv, KeptInv, [Next]_vars
  PROVE  KeptInv'
<1>1. CASE UNCHANGED vars
  BY <1>1 DEF vars, KeptInv, Few
<1>2. ASSUME NEW d \in Device, User(d) PROVE KeptInv'
  BY <1>2, KeptCreate, KeptDelete, KeptDecision, KeptEdit DEF User
<1>3. ASSUME NEW d \in Device, StartCycle(d) PROVE KeptInv'
  BY <1>3, KeptStartCycle
<1>4. ASSUME NEW d \in Device, Execute(d) PROVE KeptInv'
  BY <1>4, KeptInsertRemote, KeptWriteRemote, KeptWriteMergedRow, KeptQueueMerged, KeptPark DEF Execute
<1>5. ASSUME NEW d \in Device, Engine(d) PROVE KeptInv'
  BY <1>4, <1>5, KeptServerPush, KeptAckApplied, KeptAckConflict, KeptEndPush, KeptServerPull,
     KeptApplyChange, KeptEndPull DEF Engine
<1>6. ASSUME NEW d \in Device, Failure(d) PROVE KeptInv'
  BY <1>6, KeptPushFails, KeptPullFails, KeptCrash, KeptCrashInEdit DEF Failure
<1> QED
  BY <1>1, <1>2, <1>3, <1>5, <1>6 DEF Next

LEMMA KeptAlways ==
  ASSUME OneDevice
  PROVE  Spec => []KeptInv
<1>1. Init => KeptInv
  BY KeptInit
<1>2. EngineInv /\ QueueInv /\ KeptInv /\ [Next]_vars => KeptInv'
  BY KeptNext
<1> QED
  BY <1>1, <1>2, EngineAlways, QueueAlways, PTL DEF Spec

(* What Few and KeptInv mean at rest for an entity with no open conflict:  *)
(* the server has exactly what the row shows.                              *)
LEMMA WorkedOff ==
  ASSUME EngineInv, QueueInv, KeptInv, Few, Rest, NEW d \in Device, NEW e \in Entity, ~said[e].del,
         conf[d][e] = NoConflict, row[d][e] # NoRow
  PROVE  Holds(srv[e], row[d][e].val)
<1> DEFINE q == queue[d]
           r == row[d][e]
<1>1. Three(q, e) /\ Taken(r, q, eng[d], srv[e], e)
  BY ThreeStates, KeptHere DEF KeptOf
<1>2. PICK n \in DOMAIN q : NewestOf(q, e, n) /\ q[n].val = r.val
  BY <1>1 DEF Taken
<1>3. q[n].status \notin Live
  BY <1>2 DEF Rest, AtWork, LiveOps, NewestOf
<1>4. q[n].status = "synchronized"
  BY <1>1, <1>2, <1>3 DEF Three, NewestOf, Live
<1> HIDE DEF q, r
<1> QED
  BY <1>1, <1>2, <1>4 DEF Taken, r

LEMMA NothingLostOnOne ==
  ASSUME EngineInv, QueueInv, KeptInv, Few, NEW d \in Device, \A e \in Entity : ~said[e].del
  PROVE  NothingLost /\ (OneDevice => Converged)
<1>1. ASSUME Rest, NEW e \in Entity, NEW f \in Field, srv[e] # NoRow, srv[e].val[f] # said[e].val[f]
      PROVE  conf[d][e] # NoConflict /\ said[e].val[f] = row[d][e].val[f]
  <2>1. Shown(row[d][e], queue[d], base[d][e], eng[d], srv[e], said[e].val, e)
    BY KeptHere
  <2>2. row[d][e] # NoRow /\ row[d][e].val = said[e].val
    BY <1>1, <2>1 DEF Shown
  <2>3. conf[d][e] # NoConflict
    BY <1>1, <2>2, WorkedOff DEF Holds
  <2> QED
    BY <2>2, <2>3
<1>2. ASSUME Quiescent, NEW e \in Entity, srv[e] # NoRow
      PROVE  row[d][e] # NoRow /\ Same(row[d][e], srv[e])
  <2>1. Shown(row[d][e], queue[d], base[d][e], eng[d], srv[e], said[e].val, e)
    BY KeptHere
  <2>2. row[d][e] # NoRow /\ ~row[d][e].del /\ ~srv[e].del
    BY <1>2, <2>1 DEF Shown
  <2>3. Holds(srv[e], row[d][e].val)
    BY <1>2, <2>2, WorkedOff DEF Quiescent
  <2>4. row[d][e].del \in BOOLEAN /\ srv[e].del \in BOOLEAN
    BY <1>2, <2>2, Here DEF Rows, LocalRow, ServerRow, EngineInv, TypeOK
  <2> QED
    BY <2>2, <2>3, <2>4 DEF Holds, Same
<1> QED
  BY <1>1, <1>2 DEF NothingLost, OneDevice, Converged

(* On a single device nothing the user said is lost, and the server ends   *)
(* up with what the device shows: whatever requests and answers get lost,  *)
(* however often an operation is sent again, and wherever the process      *)
(* dies, when nothing is left to do the server has the last value of every *)
(* field or a conflict that still holds it is open, and without an open    *)
(* conflict row and server agree (SyncEngine.push, failAttempt,            *)
(* resetInFlight, resolveWithRemote, SyncStore.push).  That is said of     *)
(* histories in which no edit was torn, the user has decided no conflict,  *)
(* fewer messages were lost than an operation has attempts, and nothing    *)
(* has been deleted.                                                       *)
THEOREM LossSafety ==
  ASSUME OneDevice, Device # {}
  PROVE  Spec => [](Few /\ (\A e \in Entity : ~said[e].del) => NothingLost /\ Converged)
<1>1. EngineInv /\ QueueInv /\ KeptInv =>
         (Few /\ (\A e \in Entity : ~said[e].del) => NothingLost /\ Converged)
  BY NothingLostOnOne
<1> QED
  BY <1>1, EngineAlways, QueueAlways, KeptAlways, PTL
=============================================================================
