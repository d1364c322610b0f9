----------------------------- MODULE SyncEngine -----------------------------
(***************************************************************************)
(* Several devices of one user, each with its local database and its       *)
(* SyncEngine (packages/core/src/services/sync.ts over EntityRepo of       *)
(* packages/core/src/db/repo.ts), and the server they push to and pull     *)
(* from (StoreRules).                                                      *)
(*                                                                         *)
(*   row      per device and entity, the local row or NoRow                *)
(*   queue    per device, sync_queue in insertion order; an operation is   *)
(*            known by its position                                        *)
(*   base     what findBase returns: the content the engine wrote last     *)
(*   conf     the open sync_conflicts row of the entity, or NoConflict     *)
(*   cursor   sync_cursors: the last pulled seq                            *)
(*   eng      where syncOnce is, and its local variables                   *)
(*   srv      sync_entities of the server                                  *)
(*   feed     sync_feed of the server, the position of a row is its seq    *)
(*   spent    how much of the bounds below is used up                      *)
(*   said     history: the last thing the user said about each field       *)
(*                                                                         *)
(* A push or a pull is one atomic step of the server: SyncStore looks      *)
(* inside it.  The user acts while the engine is between two steps, as far *)
(* as EditWindow lets them.                                                *)
(***************************************************************************)
EXTENDS StoreRules, ConflictRules, FiniteSets

CONSTANTS
    Device,       \* the user's devices
    Entity,       \* the synced entities
    Critical,     \* those of a type in CRITICAL_ENTITY_TYPES
    Parent,       \* per entity, the entity a foreign key refers to, or itself
    Priority,     \* per entity, syncPriority of its repository
    Editor,       \* the <<device, entity, field>> the user edits
    Deleter,      \* the <<device, entity>> the user deletes
    Choice,       \* decisions on conflicts: subset of local, remote, merged
    EditWindow,   \* values of eng[d].pc while which the user acts
    OneAtATime,   \* the cycles of different devices do not overlap
    NoConflict,   \* no open conflict row
    MAX_ATTEMPTS, \* the engine's constant
    PageLimit,    \* the limit of a pull
    MaxEdits,     \* bound: what the user does, all devices together
    MaxFaults,    \* bound: requests and answers that get lost
    MaxCrashes,   \* bound: processes that die in a cycle
    MaxTorn,      \* bound: processes that die in the middle of an edit
    MaxChoices    \* bound: conflicts the user decides

(* What a field can hold: the number of the edit that wrote it. *)
Values == [Field -> 0..MaxEdits]

Content == [val : Values, del : BOOLEAN]

LocalRow == [ver : Nat, val : Values, del : BOOLEAN,
             st : {"pending", "synchronized", "conflict"}]

ServerRow == [ver : Nat, val : Values, del : BOOLEAN, dev : Device]

OpenConflict == [remote : Content, mine : Content, ver : Nat]

ASSUME EngineAssumption ==
    /\ NoRow \notin LocalRow \cup ServerRow
    /\ NoBase \notin Values
    /\ NoConflict \notin OpenConflict
    /\ Parent \in [Entity -> Entity]
    /\ Priority \in [Entity -> Nat]
    /\ Editor \subseteq Device \X Entity \X Field
    /\ {MAX_ATTEMPTS, PageLimit} \subseteq Nat \ {0}
    /\ {MaxEdits, MaxFaults, MaxCrashes, MaxTorn, MaxChoices} \subseteq Nat

VARIABLES row, queue, base, conf, cursor, eng, srv, feed, spent, said

vars == <<row, queue, base, conf, cursor, eng, srv, feed, spent, said>>
local == <<row, queue, base, conf, cursor>>
server == <<srv, feed>>

Live == {"pending", "conflict", "in_flight"}

IdleEngine ==
    [pc |-> "idle", pass |-> 1, batch |-> <<>>, acks |-> <<>>, changes |-> {},
     next |-> 0, plan |-> <<>>, offline |-> FALSE, merged |-> FALSE]

Init ==
    /\ row = [d \in Device |-> [e \in Entity |-> NoRow]]
    /\ queue = [d \in Device |-> <<>>]
    /\ base = [d \in Device |-> [e \in Entity |-> NoBase]]
    /\ conf = [d \in Device |-> [e \in Entity |-> NoConflict]]
    /\ cursor = [d \in Device |-> 0]
    /\ eng = [d \in Device |-> IdleEngine]
    /\ srv = [e \in Entity |-> NoRow]
    /\ feed = <<>>
    /\ spent = [edits |-> 0, faults |-> 0, crashes |-> 0, torn |-> 0, choices |-> 0]
    /\ said = [e \in Entity |-> [val |-> [f \in Field |-> 0], del |-> FALSE]]

-----------------------------------------------------------------------------
(* The local database *)

LiveOps(d, e) == {i \in DOMAIN queue[d] : queue[d][i].ent = e /\ queue[d][i].status \in Live}

(* queueIdFor: the newest live operation of an entity. *)
Newest(d, e) == CHOOSE i \in LiveOps(d, e) : \A j \in LiveOps(d, e) : j <= i

(* The operation enqueue writes for a new state of a row. *)
OpOf(e, kind, b, r, urgent) ==
    [ent |-> e, kind |-> kind, base |-> b, ver |-> r.ver, val |-> r.val, del |-> r.del,
     urgent |-> urgent, attempts |-> 0, status |-> "pending", valid |-> TRUE]

SetRow(d, e, r) == row' = [row EXCEPT ![d][e] = r]
Enqueue(d, op) == queue' = [queue EXCEPT ![d] = Append(@, op)]

(* mark, for the operations whose positions are in S. *)
Marked(q, S, status) ==
    [i \in DOMAIN q |-> IF i \in S THEN [q[i] EXCEPT !.status = status] ELSE q[i]]

-----------------------------------------------------------------------------
(* The user *)

MayAct(d) == eng[d].pc \in EditWindow /\ spent.edits < MaxEdits

Spend(what) == spent' = [spent EXCEPT ![what] = @ + 1]

(* EntityRepo.insert.  An id is generated on the device that creates the   *)
(* entity, and its foreign key refers to a row that exists there.          *)
Create(d, e) ==
    /\ MayAct(d)
    /\ srv[e] = NoRow /\ \A d2 \in Device : row[d2][e] = NoRow
    /\ Parent[e] = e \/ row[d][Parent[e]] # NoRow
    /\ \E f \in Field : <<d, e, f>> \in Editor
    /\ LET r == [ver |-> 1, val |-> [f \in Field |-> 0], del |-> FALSE, st |-> "pending"]
       IN  /\ SetRow(d, e, r)
           /\ Enqueue(d, OpOf(e, "create", 0, r, FALSE))
    /\ Spend("edits")
    /\ UNCHANGED <<base, conf, cursor, eng, server, said>>

(* What EntityRepo.update makes of a row with new content. *)
Bumped(r, val, del) ==
    [ver |-> r.ver + 1, val |-> val, del |-> del, st |-> "pending"]

Update(d, e, r) ==
    /\ SetRow(d, e, r)
    /\ Enqueue(d, OpOf(e, "update", row[d][e].ver, r, FALSE))
    /\ said' = [said EXCEPT ![e] = [val |-> [f \in Field |->
                                        IF r.val[f] # row[d][e].val[f] THEN r.val[f]
                                        ELSE said[e].val[f]],
                                    del |-> @.del \/ r.del]]

Visible(d, e) == row[d][e] # NoRow /\ ~row[d][e].del

Edit(d, e, f) ==
    /\ MayAct(d)
    /\ <<d, e, f>> \in Editor
    /\ Visible(d, e)
    /\ Update(d, e, Bumped(row[d][e], [row[d][e].val EXCEPT ![f] = spent.edits + 1], FALSE))
    /\ Spend("edits")
    /\ UNCHANGED <<base, conf, cursor, eng, server>>

(* softDelete: an update of the deleted column. *)
Delete(d, e) ==
    /\ MayAct(d)
    /\ <<d, e>> \in Deleter
    /\ Visible(d, e)
    /\ Update(d, e, Bumped(row[d][e], row[d][e].val, TRUE))
    /\ Spend("edits")
    /\ UNCHANGED <<base, conf, cursor, eng, server>>

-----------------------------------------------------------------------------
(* syncOnce: pushPending *)

Position(q, i) == <<IF q[i].urgent THEN 10 ELSE Priority[q[i].ent], i>>

(* ORDER BY priority DESC, created_at ASC. *)
Before(q, i, j) ==
    LET a == Position(q, i)
        b == Position(q, j)
    IN  a[1] > b[1] \/ (a[1] = b[1] /\ a[2] < b[2])

(* The operations that wait, without those that ran out of attempts. *)
Waiting(q) == {i \in DOMAIN q : /\ q[i].status \in {"pending", "conflict"}
                                /\ q[i].attempts < MAX_ATTEMPTS}

(* How many of them go before operation i. *)
Ahead(q, i) == Cardinality({j \in Waiting(q) : Before(q, j, i)})

Batch(q) ==
    [k \in 1..Cardinality(Waiting(q)) |-> CHOOSE i \in Waiting(q) : Ahead(q, i) = k - 1]

GoTo(d, pc) == eng' = [eng EXCEPT ![d].pc = pc]

(* Nothing to push: straight on to the pull, or to the end after the       *)
(* second pass.                                                            *)
AfterPush(pass) == IF pass = 1 THEN "pull" ELSE "idle"

Settled(x) == IF x.pc = "idle" THEN IdleEngine ELSE x

StartPush(d, pass, x) ==
    LET batch == Batch(queue[d])
    IN  /\ eng' = [eng EXCEPT ![d] =
                     Settled([x EXCEPT !.pass = pass, !.batch = batch, !.changes = {},
                              !.pc = IF batch = <<>> THEN AfterPush(pass) ELSE "push"])]
        /\ queue' = [queue EXCEPT ![d] = Marked(@, {batch[i] : i \in DOMAIN batch}, "in_flight")]

(* The timer, the network coming back or the user starts a cycle. *)
StartCycle(d) ==
    /\ eng[d].pc = "idle"
    /\ OneAtATime => \A d2 \in Device : eng[d2].pc = "idle"
    /\ StartPush(d, 1, IdleEngine)
    /\ UNCHANGED <<row, base, conf, cursor, server, spent, said>>

(* SyncStore.push of one operation, as a step of a fold over the batch. *)
ServerStep(s, op, id, d) ==
    LET r == s.srv[op.ent]
        status == AckStatus(r, op)
        ack == [id |-> id, status |-> status, remote |-> r,
                ver |-> IF status = "applied" THEN StoredVersion(r, op) ELSE r.ver]
    IN  IF status = "applied"
        THEN [srv |-> [s.srv EXCEPT ![op.ent] = EntityRow(r, op, d)],
              feed |-> Append(s.feed, FeedRow(r, op, d)),
              acks |-> Append(s.acks, ack)]
        ELSE [s EXCEPT !.acks = Append(@, ack)]

(* What the server holds and answers after the whole batch. *)
Served(d) ==
    LET batch == eng[d].batch
        after[k \in 0..Len(batch)] ==
            IF k = 0 THEN [srv |-> srv, feed |-> feed, acks |-> <<>>]
            ELSE ServerStep(after[k - 1], queue[d][batch[k]], batch[k], d)
    IN  after[Len(batch)]

ServerPush(d) ==
    /\ eng[d].pc = "push"
    /\ LET end == Served(d)
       IN  /\ srv' = end.srv
           /\ feed' = end.feed
           /\ eng' = [eng EXCEPT ![d] = [eng[d] EXCEPT !.pc = "answer", !.acks = end.acks]]
    /\ UNCHANGED <<local, spent, said>>

(* failAttempt(op, _, 'pending'). *)
FailedAttemptGivesUp(op) == [op EXCEPT !.attempts = @ + 1, !.status = "failed"]
FailedAttemptForgets(op) == [op EXCEPT !.attempts = @ + 1, !.status = "synchronized"]
FailedAttemptStuck(op) == [op EXCEPT !.attempts = @ + 1]
FailedAttempt(op) ==
    [op EXCEPT !.attempts = @ + 1,
               !.status = IF op.attempts + 1 >= MAX_ATTEMPTS THEN "failed" ELSE "pending"]

(* The request or the answer is lost: transport.push throws. *)
PushFails(d) ==
    /\ eng[d].pc \in {"push", "answer"}
    /\ eng[d].pc = "answer" => Len(eng[d].acks) = Len(eng[d].batch)
    /\ spent.faults < MaxFaults
    /\ LET sent == {eng[d].batch[i] : i \in DOMAIN eng[d].batch}
       IN  queue' = [queue EXCEPT ![d] =
                       [i \in DOMAIN queue[d] |-> IF i \in sent THEN FailedAttempt(queue[d][i])
                                                  ELSE queue[d][i]]]
    /\ eng' = [eng EXCEPT ![d] = Settled([eng[d] EXCEPT !.pc = AfterPush(eng[d].pass),
                                                        !.acks = <<>>, !.offline = TRUE])]
    /\ Spend("faults")
    /\ UNCHANGED <<row, base, conf, cursor, server, said>>

(* The local row a decision is about and what it will do, kept over the    *)
(* awaits between reading and writing.  from says what the engine was at:  *)
(* the answer of a push or a pulled change.                                *)
Plan(from, id, e, remote, ver, step, closes) ==
    [from |-> from, id |-> id, ent |-> e, remote |-> remote, ver |-> ver,
     step |-> step, closes |-> closes]

Decide(d, plan) == eng' = [eng EXCEPT ![d] = [eng[d] EXCEPT !.pc = "decided", !.plan = plan]]

Verdict(d, e, remote) ==
    {Resolve(row[d][e], remote, base[d][e], e \in Critical, newer) :
        newer \in {"local", "remote"}}

(* An applied operation: mark and markEntitySynced. *)
AckApplied(d) ==
    /\ eng[d].pc = "answer"
    /\ eng[d].acks # <<>>
    /\ LET ack == Head(eng[d].acks)
           e   == queue[d][ack.id].ent
       IN  /\ ack.status = "applied"
           /\ queue' = [queue EXCEPT ![d] = Marked(@, {ack.id}, "synchronized")]
           /\ SetRow(d, e, [row[d][e] EXCEPT !.ver = ack.ver, !.st = "synchronized"])
    /\ eng' = [eng EXCEPT ![d].acks = Tail(@)]
    /\ UNCHANGED <<base, conf, cursor, server, spent, said>>

(* A conflict: resolveWithRemote reads the row and the base. *)
AckConflict(d) ==
    /\ eng[d].pc = "answer"
    /\ eng[d].acks # <<>>
    /\ LET ack == Head(eng[d].acks)
           e   == queue[d][ack.id].ent
       IN  /\ ack.status = "conflict"
           /\ \E step \in Verdict(d, e, ack.remote) :
                  Decide(d, Plan("answer", ack.id, e, ack.remote, ack.ver, step, TRUE))
    /\ UNCHANGED <<local, server, spent, said>>

EndPush(d) ==
    /\ eng[d].pc = "answer"
    /\ eng[d].acks = <<>>
    /\ eng' = [eng EXCEPT ![d] = Settled([eng[d] EXCEPT !.pc = AfterPush(eng[d].pass)])]
    /\ UNCHANGED <<local, server, spent, said>>

-----------------------------------------------------------------------------
(* syncOnce: pullChanges *)

Foreign(d) == {i \in DOMAIN feed : i > cursor[d] /\ feed[i].dev # d}

(* Its first rows, in the order of their positions. *)
Page(d) == {i \in Foreign(d) : Cardinality({j \in Foreign(d) : j < i}) < PageLimit}

Earliest(S) == CHOOSE i \in S : \A j \in S : i <= j
Latest(S) == CHOOSE i \in S : \A j \in S : j <= i

PageCursorHead(d, page) == MaxOf(Len(feed), cursor[d])
PageCursor(d, page) ==
    IF page = {} THEN MaxOf(Len(feed), cursor[d]) ELSE Latest(page)

ServerPull(d) ==
    /\ eng[d].pc = "pull"
    /\ eng' = [eng EXCEPT ![d].pc = "apply", ![d].changes = Page(d),
                          ![d].next = PageCursor(d, Page(d))]
    /\ UNCHANGED <<local, server, spent, said>>

(* transport.pull throws; offline, so there is no second pass. *)
PullFails(d) ==
    /\ eng[d].pc = "pull"
    /\ spent.faults < MaxFaults
    /\ eng' = [eng EXCEPT ![d] = IdleEngine]
    /\ Spend("faults")
    /\ UNCHANGED <<local, server, said>>

(* A queued operation already builds on this server version. *)
AlreadyReconciled(d, e, ver) ==
    LiveOps(d, e) # {} /\ queue[d][Newest(d, e)].base >= ver

Dirty(d, e) == row[d][e].st \in {"pending", "conflict"} \/ LiveOps(d, e) # {}

Take(remote) == [do |-> "remote", val |-> remote.val, merged |-> FALSE, ask |-> FALSE]

(* applyRemoteChange reads the local row and decides. *)
ApplyChange(d) ==
    /\ eng[d].pc = "apply"
    /\ eng[d].changes # {}
    /\ LET first == Earliest(eng[d].changes)
           change == feed[first]
           e == change.ent
           clean == ~Dirty(d, e) \/ row[d][e].ver <= change.base
           decide(step, closes) ==
               Decide(d, Plan("apply", 0, e, change, change.ver, step, closes))
       IN  IF row[d][e] = NoRow
           THEN decide([Take(change) EXCEPT !.do = "insert"], FALSE)
           ELSE IF AlreadyReconciled(d, e, change.ver)
           THEN eng' = [eng EXCEPT ![d].changes = @ \ {first}]
           ELSE IF clean THEN decide(Take(change), FALSE)
           ELSE \E step \in Verdict(d, e, change) : decide(step, TRUE)
    /\ UNCHANGED <<local, server, spent, said>>

(* The cursor is stored whatever became of the changes; then the second    *)
(* pass if something was merged.                                           *)
EndPull(d) ==
    /\ eng[d].pc = "apply"
    /\ eng[d].changes = {}
    /\ cursor' = [cursor EXCEPT ![d] = eng[d].next]
    /\ IF eng[d].merged /\ ~eng[d].offline
       THEN StartPush(d, 2, eng[d])
       ELSE eng' = [eng EXCEPT ![d] = IdleEngine] /\ UNCHANGED queue
    /\ UNCHANGED <<row, base, conf, server, spent, said>>

-----------------------------------------------------------------------------
(* Carrying out a decision *)

(* Back to the next ack or the next change. *)
Resumed(x) ==
    LET y == [x EXCEPT !.pc = x.plan.from, !.plan = <<>>,
                       !.merged = @ \/ x.plan.step.merged]
    IN  IF x.plan.from = "answer" THEN [y EXCEPT !.acks = Tail(@)]
                                  ELSE [y EXCEPT !.changes = @ \ {Earliest(@)}]

(* The operation that was in conflict, after its resolution. *)
AnsweredUnknown(q, plan) ==
    IF plan.from = "answer"
    THEN Marked(q, {plan.id}, IF plan.step.ask THEN "conflict" ELSE "merged")
    ELSE q
AnsweredAlwaysAsks(q, plan) ==
    IF plan.from = "answer" THEN Marked(q, {plan.id}, "conflict") ELSE q
Answered(q, plan) ==
    IF plan.from = "answer"
    THEN Marked(q, {plan.id}, IF plan.step.ask THEN "conflict" ELSE "synchronized")
    ELSE q

Fetched(plan) ==
    [ver |-> plan.ver, val |-> plan.remote.val, del |-> plan.remote.del,
     st |-> "synchronized"]

(* insertRemote.  It throws before it wrote anything when the foreign key  *)
(* refers to a row that is not there, and after the row was written when   *)
(* the row is deleted.                                                     *)
InsertRemote(d) ==
    LET plan == eng[d].plan
        e    == plan.ent
    IN  /\ eng[d].pc = "decided"
        /\ plan.step.do = "insert"
        /\ IF Parent[e] # e /\ row[d][Parent[e]] = NoRow
           THEN UNCHANGED <<row, base>>
           ELSE /\ SetRow(d, e, Fetched(plan))
                /\ base' = [base EXCEPT ![d][e] = IF plan.remote.del THEN @ ELSE plan.remote.val]
        /\ eng' = [eng EXCEPT ![d] = Resumed(@)]
        /\ UNCHANGED <<queue, conf, cursor, server, spent, said>>

(* writeRemote; a conflict it decided is recorded and closed. *)
WriteRemote(d) ==
    LET plan == eng[d].plan
        e    == plan.ent
    IN  /\ eng[d].pc = "decided"
        /\ plan.step.do = "remote"
        /\ SetRow(d, e, Fetched(plan))
        /\ base' = [base EXCEPT ![d][e] = plan.remote.val]
        /\ conf' = [conf EXCEPT ![d][e] = IF plan.closes THEN NoConflict ELSE @]
        /\ queue' = [queue EXCEPT ![d] = Answered(@, plan)]
        /\ eng' = [eng EXCEPT ![d] = Resumed(@)]
        /\ UNCHANGED <<cursor, server, spent, said>>

(* writeMerged, first half: the row and its journal entry. *)
Merged(ver, val, del) == [ver |-> ver + 1, val |-> val, del |-> del, st |-> "pending"]

WriteMergedRow(d) ==
    LET plan == eng[d].plan
        e    == plan.ent
    IN  /\ eng[d].pc = "decided"
        /\ plan.step.do = "merge"
        /\ SetRow(d, e, Merged(plan.ver, plan.step.val, plan.remote.del))
        /\ base' = [base EXCEPT ![d][e] = plan.step.val]
        /\ GoTo(d, "requeue")
        /\ UNCHANGED <<queue, conf, cursor, server, spent, said>>

(* writeMerged, second half: what was queued for the entity is retired and *)
(* the merged state is queued.                                             *)
RequeuedNothing(q, d, e, ver, r) == Marked(q, LiveOps(d, e), "synchronized")
Requeued(q, d, e, ver, r) ==
    Append(Marked(q, LiveOps(d, e), "synchronized"), OpOf(e, "update", ver, r, FALSE))

QueueMerged(d) ==
    LET plan == eng[d].plan
        e    == plan.ent
    IN  /\ eng[d].pc = "requeue"
        /\ queue' = [queue EXCEPT ![d] =
                        Answered(Requeued(@, d, e, plan.ver,
                                          Merged(plan.ver, plan.step.val, plan.remote.del)),
                                 plan)]
        /\ conf' = [conf EXCEPT ![d][e] = NoConflict]
        /\ eng' = [eng EXCEPT ![d] = Resumed(@)]
        /\ UNCHANGED <<row, base, cursor, server, spent, said>>

(* A conflict is left to the user: recordConflict, which keeps one open    *)
(* row per entity.                                                         *)
Park(d) ==
    LET plan == eng[d].plan
        e    == plan.ent
    IN  /\ eng[d].pc = "decided"
        /\ plan.step.do \in {"park", "parkDelete"}
        /\ conf' = [conf EXCEPT ![d][e] =
                       [remote |-> [val |-> plan.remote.val, del |-> plan.remote.del],
                        mine |-> [val |-> plan.step.val, del |-> row[d][e].del], ver |-> plan.ver]]
        /\ SetRow(d, e, [row[d][e] EXCEPT !.st = IF plan.step.do = "park" THEN "conflict" ELSE @])
        /\ queue' = [queue EXCEPT ![d] = Answered(@, plan)]
        /\ eng' = [eng EXCEPT ![d] = Resumed(@)]
        /\ UNCHANGED <<base, cursor, server, spent, said>>

-----------------------------------------------------------------------------
(* resolveConflict: the user decides. *)

MayDecide(d, e, choice) ==
    /\ choice \in Choice
    /\ conf[d][e] # NoConflict
    /\ eng[d].pc \in EditWindow
    /\ spent.choices < MaxChoices

(* The open row is closed and the newest live operation of the entity is   *)
(* marked synchronized.  q is the queue as the decision left it.           *)
Close(d, e, q) ==
    LET alive == {i \in DOMAIN q : q[i].ent = e /\ q[i].status \in Live}
    IN  /\ queue' = [queue EXCEPT ![d] =
                        IF alive = {} THEN q
                        ELSE Marked(q, {CHOOSE i \in alive : \A j \in alive : j <= i},
                                    "synchronized")]
        /\ conf' = [conf EXCEPT ![d][e] = NoConflict]

(* requeueLocal *)
KeepLocal(d, e) ==
    /\ MayDecide(d, e, "local")
    /\ Close(d, e, Append(queue[d], OpOf(e, "update", row[d][e].ver, row[d][e], TRUE)))
    /\ said' = [said EXCEPT ![e] = [val |-> row[d][e].val, del |-> row[d][e].del]]
    /\ Spend("choices")
    /\ UNCHANGED <<row, base, cursor, eng, server>>

KeepRemote(d, e) ==
    /\ MayDecide(d, e, "remote")
    /\ LET c == conf[d][e]
       IN  /\ SetRow(d, e, [ver |-> c.ver, val |-> c.remote.val, del |-> c.remote.del,
                            st |-> "synchronized"])
           /\ base' = [base EXCEPT ![d][e] = c.remote.val]
           /\ said' = [said EXCEPT ![e] = c.remote]
    /\ Close(d, e, queue[d])
    /\ Spend("choices")
    /\ UNCHANGED <<cursor, eng, server>>

(* The user picks a side for every field. *)
KeepMerged(d, e) ==
    /\ MayDecide(d, e, "merged")
    /\ \E mine \in SUBSET Field :
          LET c   == conf[d][e]
              val == [f \in Field |-> IF f \in mine THEN c.mine.val[f] ELSE c.remote.val[f]]
              r   == Merged(c.ver, val, c.mine.del)
          IN  /\ SetRow(d, e, r)
              /\ base' = [base EXCEPT ![d][e] = val]
              /\ Close(d, e, Requeued(queue[d], d, e, c.ver, r))
              /\ said' = [said EXCEPT ![e] = [val |-> val, del |-> c.mine.del]]
    /\ Spend("choices")
    /\ UNCHANGED <<cursor, eng, server>>

-----------------------------------------------------------------------------
(* Crashes *)

(* The process dies; the recovery at the next start calls resetInFlight.   *)
Restart(d) == eng' = [eng EXCEPT ![d] = IdleEngine]

ResetNothing(q) == q
Reset(q) == Marked(q, {i \in DOMAIN q : q[i].status = "in_flight"}, "pending")

Crash(d) ==
    /\ eng[d].pc # "idle"
    /\ spent.crashes < MaxCrashes
    /\ Restart(d)
    /\ queue' = [queue EXCEPT ![d] = Reset(@)]
    /\ Spend("crashes")
    /\ UNCHANGED <<row, base, conf, cursor, server, said>>

(* The process dies between the UPDATE and the INSERT INTO sync_queue of   *)
(* EntityRepo.update, which open no transaction.                           *)
CrashInEdit(d, e, f) ==
    /\ MayAct(d)
    /\ spent.torn < MaxTorn
    /\ <<d, e, f>> \in Editor
    /\ Visible(d, e)
    /\ LET r == Bumped(row[d][e], [row[d][e].val EXCEPT ![f] = spent.edits + 1], FALSE)
       IN  /\ SetRow(d, e, r)
           /\ said' = [said EXCEPT ![e].val[f] = r.val[f]]
    /\ Restart(d)
    /\ queue' = [queue EXCEPT ![d] = Reset(@)]
    /\ spent' = [spent EXCEPT !.edits = @ + 1, !.torn = @ + 1]
    /\ UNCHANGED <<base, conf, cursor, server>>

-----------------------------------------------------------------------------
User(d) ==
    \E e \in Entity :
        \/ Create(d, e)
        \/ Delete(d, e)
        \/ KeepLocal(d, e)
        \/ KeepRemote(d, e)
        \/ KeepMerged(d, e)
        \/ \E f \in Field : Edit(d, e, f)

Execute(d) ==
    \/ InsertRemote(d)
    \/ WriteRemote(d)
    \/ WriteMergedRow(d)
    \/ QueueMerged(d)
    \/ Park(d)

(* What goes on by itself once a cycle has started. *)
Engine(d) ==
    \/ ServerPush(d)
    \/ AckApplied(d)
    \/ AckConflict(d)
    \/ EndPush(d)
    \/ ServerPull(d)
    \/ ApplyChange(d)
    \/ EndPull(d)
    \/ Execute(d)

Failure(d) ==
    \/ PushFails(d)
    \/ PullFails(d)
    \/ Crash(d)
    \/ \E e \in Entity, f \in Field : CrashInEdit(d, e, f)

Next == \E d \in Device : User(d) \/ StartCycle(d) \/ Engine(d) \/ Failure(d)

Spec == Init /\ [][Next]_vars

(* The timer keeps firing and a started cycle goes on; nobody has to edit, *)
(* decide, lose a message or crash.                                        *)
Fairness == \A d \in Device : WF_vars(StartCycle(d)) /\ WF_vars(Engine(d))

FairSpec == Spec /\ Fairness

-----------------------------------------------------------------------------
(* The types of all variables. *)
Rows == [Entity -> LocalRow \cup {NoRow}]

QueuedOp == [ent : Entity, kind : {"create", "update"}, base : Nat, ver : Nat, val : Values,
             del : BOOLEAN, urgent : BOOLEAN, attempts : 0..MAX_ATTEMPTS, valid : {TRUE},
             status : Live \cup {"synchronized", "failed"}]

FeedEntry == [ent : Entity, ver : Nat, base : Nat, val : Values, del : BOOLEAN, dev : Device]

Ack == [id : Nat, status : {"applied"}, remote : ServerRow \cup {NoRow}, ver : Nat]
         \cup [id : Nat, status : {"conflict"}, remote : ServerRow, ver : Nat]

Step == [do : {"insert", "remote", "merge", "park", "parkDelete"}, val : Values,
         merged : BOOLEAN, ask : BOOLEAN]

PlanOf == [from : {"answer", "apply"}, id : Nat, ent : Entity, remote : ServerRow \cup FeedEntry,
           ver : Nat, step : Step, closes : BOOLEAN]

EngineState ==
    [pc : {"idle", "push", "answer", "pull", "apply", "decided", "requeue"}, pass : {1, 2},
     batch : Seq(Nat), acks : Seq(Ack), changes : SUBSET Nat, next : Nat,
     plan : PlanOf \cup {<<>>}, offline : BOOLEAN, merged : BOOLEAN]

TypeOK ==
    /\ row \in [Device -> Rows]
    /\ queue \in [Device -> Seq(QueuedOp)]
    /\ base \in [Device -> [Entity -> Values \cup {NoBase}]]
    /\ conf \in [Device -> [Entity -> OpenConflict \cup {NoConflict}]]
    /\ cursor \in [Device -> Nat]
    /\ eng \in [Device -> EngineState]
    /\ srv \in [Entity -> ServerRow \cup {NoRow}]
    /\ feed \in Seq(FeedEntry)
    /\ said \in [Entity -> Content]

(* An operation is in_flight only while the engine still waits for its     *)
(* answer: nothing sits in the queue in a state no cycle will pick up.     *)
InFlightIsAwaited ==
    \A d \in Device : \A i \in DOMAIN queue[d] :
        queue[d][i].status = "in_flight" =>
            \/ eng[d].pc = "push" /\ \E k \in DOMAIN eng[d].batch : eng[d].batch[k] = i
            \/ \E k \in DOMAIN eng[d].acks : eng[d].acks[k].id = i

(* No operation is stuck in flight, whatever crashes, resets and lost      *)
(* answers came between (SyncEngine.push, resetInFlight).                  *)
InFlightIsSound == TypeOK /\ InFlightIsAwaited

(* Nothing is left to do: every engine rests, every queue is worked off    *)
(* and every device has pulled everything; and no conflict is open.        *)
AtWork(d) == eng[d].pc # "idle" \/ Foreign(d) # {} \/ \E e \in Entity : LiveOps(d, e) # {}

Rest == \A d \in Device : ~AtWork(d)

Quiescent == Rest /\ \A d \in Device, e \in Entity : conf[d][e] = NoConflict

Same(a, b) == a.val = b.val /\ a.del = b.del

(* When nothing is left to do every device shows what the server holds:    *)
(* no device believes itself synchronised and shows something else.        *)
Converged ==
    Quiescent =>
        \A d \in Device, e \in Entity :
            srv[e] # NoRow => row[d][e] # NoRow /\ Same(row[d][e], srv[e])

(* When nothing is left to do, the last value the user gave a field is the *)
(* one the server holds, or a device that keeps a conflict about it open   *)
(* still has it.  Meant for fields that are edited on one device only.     *)
NothingLost ==
    Rest =>
        \A e \in Entity, f \in Field :
            srv[e] # NoRow /\ srv[e].val[f] # said[e].val[f] =>
                \E d \in Device :
                    /\ conf[d][e] # NoConflict
                    /\ said[e].val[f] \in {row[d][e].val[f], conf[d][e].mine.val[f],
                                           conf[d][e].remote.val[f]}

(* "Delete wins over update": when nothing is left to do, what the user    *)
(* deleted on some device is deleted on the server (resolveWithRemote).    *)
DeletionSurvives ==
    Quiescent => \A e \in Entity : srv[e] # NoRow /\ said[e].del => srv[e].del

(* A critical entity with unsynchronised local edits is never changed by   *)
(* the engine, the user is asked (resolveWithRemote).                      *)
NeverSilent ==
    [][\A d \in Device : Execute(d) =>
           \A e \in Critical :
               LiveOps(d, e) # {} => Same(row'[d][e], row[d][e])]_vars

(* While a conflict about a critical entity is open the engine leaves the  *)
(* local row alone, whatever is pulled meanwhile (applyRemoteChange).      *)
WaitsForUser ==
    [][\A d \in Device : Execute(d) =>
           \A e \in Critical :
               conf[d][e] # NoConflict => Same(row'[d][e], row[d][e])]_vars

(* What lies before the cursor is in the local database: pullChanges will  *)
(* never ask for it again.  An entity that refers to another one may be    *)
(* missing (insertRemote).                                                 *)
CursorMeansApplied ==
    \A d \in Device : \A i \in DOMAIN feed :
        i <= cursor[d] /\ Parent[feed[i].ent] = feed[i].ent => row[d][feed[i].ent] # NoRow

(* A row that waits to be pushed has an operation in sync_queue that will  *)
(* push it, or that is shown as failed.                                    *)
PendingIsQueued ==
    \A d \in Device, e \in Entity :
        /\ eng[d].pc = "idle"
        /\ row[d][e] # NoRow
        /\ row[d][e].st = "pending"
        => \E i \in DOMAIN queue[d] : queue[d][i].ent = e /\ queue[d][i].status # "synchronized"

(* An operation that waits for the user has an open conflict to decide:    *)
(* pushing it again would ask a question that is already answered.         *)
ConflictIsAsked ==
    \A d \in Device, e \in Entity :
        /\ eng[d].pc = "idle"
        /\ \E i \in LiveOps(d, e) : queue[d][i].status = "conflict"
        => conf[d][e] # NoConflict

(* Only a conflict about a critical entity is left to the user.           *)
OnlyCriticalWaits ==
    [][\A d \in Device : Park(d) => eng[d].plan.ent \in Critical]_vars

(* A conflict is about an entity another device has changed: an operation  *)
(* sent twice does not collide with itself.                                *)
ConflictNeedsTwo ==
    \A d \in Device, e \in Entity :
        conf[d][e] # NoConflict => \E i \in DOMAIN feed : feed[i].ent = e /\ feed[i].dev # d

(* What the user keeps when a conflict is decided for the local or the     *)
(* merged state is queued for the server.                                  *)
DecisionIsQueued ==
    [][\A d \in Device, e \in Entity :
           KeepLocal(d, e) \/ KeepMerged(d, e) =>
               \E i \in LiveOps(d, e)' : Same(queue'[d][i], row'[d][e])]_vars

(* No operation is given up for good because the network was away: the     *)
(* attempts failAttempt counts are those of a request that went out.       *)
NothingGivenUp ==
    \A d \in Device : \A i \in DOMAIN queue[d] : queue[d][i].status # "failed"

(* Whatever is queued is eventually worked off or waits for the user: no   *)
(* operation is left behind by crashes and failed attempts, and cycles     *)
(* that merge do not feed each other for ever.                             *)
EventuallyQuiet ==
    <>[](\A d \in Device, e \in Entity :
            \A i \in LiveOps(d, e) :
                conf[d][e] # NoConflict)
=============================================================================
