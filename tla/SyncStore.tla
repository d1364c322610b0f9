------------------------------ MODULE SyncStore ------------------------------
(***************************************************************************)
(* The server half of the sync protocol for one user: the SyncStore class  *)
(* of apps/server/src/services/sync-store.ts over ServerDb.transaction     *)
(* (apps/server/src/db/index.ts).                                          *)
(*                                                                         *)
(*   entity   sync_entities: the current row of every entity, or NoRow     *)
(*   feed     sync_feed: append-only, the position of a row is its seq     *)
(*   txn      the push transaction that is open on the one connection      *)
(*   page     per device, a pull request between its two queries           *)
(*   cursor   per device, the cursor of the last answer it received        *)
(*   got      per device, the feed rows (with their seq) it received       *)
(*                                                                         *)
(* The handlers share one connection and each await of a handler is a      *)
(* point where another handler may run: a pull that runs between two       *)
(* statements of a push sees that transaction's writes.  Overlap says      *)
(* whether the runtime lets that happen.  node:sqlite answers in the same  *)
(* turn of the event loop, so requests that arrive in different turns do   *)
(* not overlap (FALSE); a driver that really waits, or two requests read   *)
(* in one turn, do (TRUE).  A second push that starts while one is open    *)
(* fails at BEGIN IMMEDIATE and changes nothing, so it has no action.      *)
(***************************************************************************)
EXTENDS StoreRules, FiniteSets

CONSTANTS
    Device,      \* device ids, from x-device-id
    Entity,      \* (entity_type, entity_id) pairs
    Value,       \* payloads, opaque to the server
    Sent,        \* the operations the clients of this instance send
    MaxVersion,  \* bound: largest base_version / version a client sends
    MaxFeed,     \* bound: no new push once the feed has this many rows
    MaxBatch,    \* bound: operations in one push
    PageLimit,   \* `limit` of a pull
    Overlap      \* do two requests in progress interleave at an await?

ASSUME BoundsAssumption ==
    /\ MaxVersion \in Nat \ {0}
    /\ MaxFeed \in Nat
    /\ MaxBatch \in Nat \ {0}
    /\ PageLimit \in Nat \ {0}
    /\ Overlap \in BOOLEAN

VARIABLES entity, feed, txn, page, cursor, got

vars == <<entity, feed, txn, page, cursor, got>>

Row == [ver : Nat, val : Value, del : BOOLEAN, dev : Device]

ASSUME NoRowAssumption == NoRow \notin Row

(* Operations a client sends: enqueue writes (0, 1) for a create and       *)
(* (v, v + 1) for an update, requeueLocal (v, v).                          *)
Operation ==
    {op \in [ent : Entity, kind : {"create", "update", "delete"},
             base : 0..MaxVersion, ver : 1..MaxVersion,
             val : Value, del : BOOLEAN, valid : BOOLEAN] :
        /\ op.kind = "create" => op.base = 0 /\ op.ver = 1
        /\ op.kind # "create" => op.base \in {op.ver - 1, op.ver}}

ASSUME SentAssumption == Sent \subseteq Operation

Ack == [status : {"applied", "conflict", "rejected"}, ver : Nat]

-----------------------------------------------------------------------------
Idle == [phase |-> "idle", rows |-> {}, last |-> 0]

NoTxn == [open |-> FALSE]

Init ==
    /\ entity = [e \in Entity |-> NoRow]
    /\ feed = <<>>
    /\ txn = NoTxn
    /\ page = [d \in Device |-> Idle]
    /\ cursor = [d \in Device |-> 0]
    /\ got = [d \in Device |-> {}]

-----------------------------------------------------------------------------
(* POST /v1/sync/push *)

(* No other request is between two of its awaits, or that does not matter. *)
Exclusive == Overlap \/ (~txn.open /\ \A d \in Device : page[d] = Idle)

(* BEGIN IMMEDIATE.  What ROLLBACK would bring back is kept in the record. *)
BeginPush(d, ops) ==
    /\ ~txn.open
    /\ Exclusive
    /\ Len(feed) < MaxFeed
    /\ txn' = [open |-> TRUE, dev |-> d, ops |-> ops, acks |-> <<>>,
               entity |-> entity, feed |-> feed]
    /\ UNCHANGED <<entity, feed, page, cursor, got>>

(* The answer to one operation; the mutated form forgets server_version.   *)
AckOfBare(row, op) == [status |-> AckStatus(row, op)]
AckOf(row, op) ==
    LET status == AckStatus(row, op)
    IN  [status |-> status,
         ver |-> CASE status = "applied"  -> StoredVersion(row, op)
                   [] status = "conflict" -> row.ver
                   [] OTHER               -> 0]

(* appendFeed *)
AppendFeed(row, op, dev) == Append(feed, FeedRow(row, op, dev))

(* The operations the loop has been through: one ack each, in order. *)
Answered == Len(txn.acks)

(* One turn of the loop over the operations of the batch. *)
ApplyOperation ==
    /\ txn.open
    /\ Answered < Len(txn.ops)
    /\ LET op  == txn.ops[Answered + 1]
           row == entity[op.ent]
       IN  /\ txn' = [txn EXCEPT !.acks = Append(@, AckOf(row, op))]
           /\ IF AckStatus(row, op) = "applied"
              THEN /\ entity' = [entity EXCEPT ![op.ent] = EntityRow(row, op, txn.dev)]
                   /\ feed' = AppendFeed(row, op, txn.dev)
              ELSE UNCHANGED <<entity, feed>>
    /\ UNCHANGED <<page, cursor, got>>

(* COMMIT, then the answer is sent. *)
CommitPush ==
    /\ txn.open
    /\ Answered = Len(txn.ops)
    /\ txn' = NoTxn
    /\ UNCHANGED <<entity, feed, page, cursor, got>>

(* A statement throws, or the process dies: ROLLBACK.  AUTOINCREMENT's     *)
(* counter is part of what is rolled back, so a seq can be used again.     *)
(* The mutated form leaves one of the two tables as it is.                 *)
RestoreFeedOnly == /\ feed' = txn.feed
                   /\ entity' = entity
Restore == /\ feed' = txn.feed
           /\ entity' = txn.entity

AbortPush ==
    /\ txn.open
    /\ Restore
    /\ txn' = NoTxn
    /\ UNCHANGED <<page, cursor, got>>

-----------------------------------------------------------------------------
(* GET /v1/sync/pull *)

(* WHERE seq > since AND origin_device <> device. *)
Foreign(d, since) == {i \in DOMAIN feed : i > since /\ feed[i].dev # d}

(* ORDER BY seq ASC LIMIT n, as the seq the page ends at: everything in S  *)
(* up to last, and either n rows or all there are.                         *)
UpTo(S, last) == {i \in S : i <= last}
PageEnd(S, last) ==
    /\ last \in S
    /\ \/ Cardinality(UpTo(S, last)) = PageLimit
       \/ UpTo(S, last) = S /\ Cardinality(S) <= PageLimit

(* The first query. *)
PullRows(d) ==
    /\ page[d] = Idle
    /\ Exclusive
    /\ LET S == Foreign(d, cursor[d])
       IN  \/ /\ S = {}
              /\ page' = [page EXCEPT ![d] = [phase |-> "rows", rows |-> {}, last |-> 0]]
           \/ \E last \in DOMAIN feed :
                /\ PageEnd(S, last)
                /\ page' = [page EXCEPT ![d] =
                              [phase |-> "rows", last |-> last,
                               rows |-> {<<i, feed[i]>> : i \in UpTo(S, last)}]]
    /\ UNCHANGED <<entity, feed, txn, cursor, got>>

(* The second query (headSeq) and the cursor of the answer: the last seq   *)
(* of the page, or the head when the page is empty.  The mutated forms are *)
(* always the head, and 0 for an empty page.                               *)
NextCursorHead(pg, since) == Len(feed)
NextCursorZero(pg, since) == IF pg.rows = {} THEN 0 ELSE pg.last
NextCursor(pg, since) ==
    IF pg.rows = {} THEN MaxOf(Len(feed), since) ELSE pg.last

(* The device receives the answer and stores the cursor. *)
PullCursor(d) ==
    /\ page[d].phase = "rows"
    /\ cursor' = [cursor EXCEPT ![d] = NextCursor(page[d], @)]
    /\ got' = [got EXCEPT ![d] = @ \cup page[d].rows]
    /\ page' = [page EXCEPT ![d] = Idle]
    /\ UNCHANGED <<entity, feed, txn>>

(* The answer is lost: the device keeps its cursor and will ask again. *)
PullLost(d) ==
    /\ page[d].phase = "rows"
    /\ page' = [page EXCEPT ![d] = Idle]
    /\ UNCHANGED <<entity, feed, txn, cursor, got>>

-----------------------------------------------------------------------------
Push ==
    \/ \E d \in Device : \E n \in 1..MaxBatch : \E ops \in [1..n -> Sent] :
            BeginPush(d, ops)
    \/ ApplyOperation
    \/ CommitPush
    \/ AbortPush

Pull == \E d \in Device : PullRows(d) \/ PullCursor(d) \/ PullLost(d)

Next == Push \/ Pull

Spec == Init /\ [][Next]_vars

-----------------------------------------------------------------------------
(* The types of all variables. *)
FeedEntry == [ent : Entity, ver : Nat, base : Nat, val : Value,
              del : BOOLEAN, dev : Device]

OpenTxn == [open : {TRUE}, dev : Device, ops : Seq(Sent), acks : Seq(Ack),
            entity : [Entity -> Row \cup {NoRow}], feed : Seq(FeedEntry)]

TypeOK ==
    /\ entity \in [Entity -> Row \cup {NoRow}]
    /\ feed \in Seq(FeedEntry)
    /\ txn \in OpenTxn \cup {NoTxn}
    /\ page \in [Device -> [phase : {"idle", "rows"}, last : Nat,
                            rows : SUBSET ((Nat \ {0}) \X FeedEntry)]]
    /\ cursor \in [Device -> Nat]
    /\ got \in [Device -> SUBSET ((Nat \ {0}) \X FeedEntry)]

(* j is the feed row that came before row i for the same entity. *)
Precedes(f, j, i) ==
    /\ j < i
    /\ f[j].ent = f[i].ent
    /\ \A k \in DOMAIN f : j < k /\ k < i => f[k].ent # f[i].ent

(* The feed tells one history per entity: every change after the first is  *)
(* based on exactly the version the change before it produced, and         *)
(* produces a greater one.  A device that applies the feed in order can    *)
(* therefore tell a fast-forward from a concurrent change.                 *)
Chain(f) ==
    \A i, j \in DOMAIN f :
        Precedes(f, j, i) => /\ f[i].base = f[j].ver
                             /\ f[i].ver > f[j].ver

FeedChain == Chain(feed)

(* Row r is what the last change of e in the feed f says, and NoRow when   *)
(* there is none.                                                          *)
IsHead(r, e, f) ==
    IF r = NoRow
    THEN \A i \in DOMAIN f : f[i].ent # e
    ELSE \E i \in DOMAIN f :
            /\ f[i].ent = e
            /\ \A k \in DOMAIN f : k > i => f[k].ent # e
            /\ r = [ver |-> f[i].ver, val |-> f[i].val,
                    del |-> f[i].del, dev |-> f[i].dev]

Heads(tab, f) == \A e \in Entity : IsHead(tab[e], e, f)

(* The two tables a push writes agree: replaying the feed gives            *)
(* sync_entities, in the middle of a push and after a rollback too.        *)
HeadIsLast == Heads(entity, feed)

(* A push that is sent again because its answer was lost is not applied    *)
(* twice: once an operation of the batch is applied, the same operation    *)
(* would be answered `conflict'.  (An operation with base = version, which *)
(* requeueLocal writes, has this only for an entity the store had.)        *)
ReplayIsRefused ==
    txn.open =>
        \A k \in DOMAIN txn.acks :
            LET op == txn.ops[k]
            IN  txn.acks[k].status = "applied" /\ op.base < op.ver
                    => ~Accepts(entity[op.ent], op)

(* The cursor a device stores is a promise that it has seen everything     *)
(* before it: no change of another device at or below the cursor is        *)
(* missing from what the device received, and nothing it received was      *)
(* rolled back.                                                            *)
CursorIsHonest ==
    \A d \in Device :
        /\ \A i \in DOMAIN feed :
                i <= cursor[d] /\ feed[i].dev # d => <<i, feed[i]>> \in got[d]
        /\ \A r \in got[d] : r[1] \in DOMAIN feed /\ feed[r[1]] = r[2]

(* "A real cursor always moves forward": no answer takes a device back.    *)
CursorForward == [][\A d \in Device : cursor'[d] >= cursor[d]]_vars

(* What clients may rely on: the committed rows.  While a transaction is   *)
(* open that is what ROLLBACK would restore.                               *)
Committed == IF txn.open THEN txn.entity ELSE entity

VS == INSTANCE VersionedStore WITH store <- Committed

(* The committed rows change only in atomic commits that give each changed *)
(* entity a greater version.                                               *)
ImplementsVersionedStore == VS!Spec

(* What a device reads of the feed can be relied on: the row of an entity  *)
(* is what its last entry says, and a cursor skips no entry that is not    *)
(* yet applied (services/sync.ts of the server, pull).                     *)
FeedIsSound == HeadIsLast /\ CursorIsHonest
=============================================================================
