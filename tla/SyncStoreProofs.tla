--------------------------- MODULE SyncStoreProofs ---------------------------
(***************************************************************************)
(* The safety of the sync store for any sets of devices, entities, values  *)
(* and batches, whether or not requests overlap.                           *)
(*                                                                         *)
(* FeedChain and HeadIsLast are not inductive alone: a rollback brings     *)
(* back the tables the transaction started from, so those have to satisfy  *)
(* both as well, and the refinement of VersionedStore needs every row of   *)
(* an open transaction to supersede the row it started from.               *)
(***************************************************************************)
EXTENDS SyncStore, SequenceTheorems, TLAPS

(* What is known of the transaction that is open. *)
TxnInv ==
    txn.open => /\ Len(txn.acks) <= Len(txn.ops)
                /\ Chain(txn.feed)
                /\ Heads(txn.entity, txn.feed)
                /\ \A e \in Entity :
                      \/ entity[e] = txn.entity[e]
                      \/ VS!Supersedes(entity[e], txn.entity[e])

IInv == TypeOK /\ FeedChain /\ HeadIsLast /\ TxnInv /\ ReplayIsRefused

-----------------------------------------------------------------------------
(* The types of the per-operation rules. *)
LEMMA RuleTypes ==
    ASSUME NEW op \in Sent, NEW row \in Row \cup {NoRow}, NEW d \in Device
    PROVE  /\ StoredVersion(row, op) \in Nat
           /\ EntityRow(row, op, d) \in Row
           /\ FeedRow(row, op, d) \in FeedEntry
           /\ AckOf(row, op) \in Ack
<1>1. op \in Operation
  BY SentAssumption
<1>2. /\ op.base \in Nat /\ op.ver \in Nat /\ op.val \in Value
      /\ op.ent \in Entity /\ op.del \in BOOLEAN
      /\ (op.kind = "delete") \in BOOLEAN
  BY <1>1, BoundsAssumption DEF Operation
<1>3. row # NoRow => row.ver \in Nat
  BY DEF Row
<1>4. StoredVersion(row, op) \in Nat /\ FeedBase(row, op) \in Nat
  BY <1>2, <1>3 DEF StoredVersion, FeedBase, MaxOf
<1>5. DeletedFlag(op) \in BOOLEAN
  BY <1>2 DEF DeletedFlag
<1>6. EntityRow(row, op, d) \in Row /\ FeedRow(row, op, d) \in FeedEntry
  BY <1>2, <1>4, <1>5 DEF EntityRow, FeedRow, Row, FeedEntry
<1>7. AckStatus(row, op) = "conflict" => row.ver \in Nat
  BY <1>3 DEF AckStatus, Accepts
<1>8. AckStatus(row, op) \in {"applied", "conflict", "rejected"}
  BY DEF AckStatus
<1>9. AckOf(row, op) \in Ack
  BY <1>4, <1>7, <1>8 DEF AckOf, Ack
<1> QED BY <1>4, <1>6, <1>9

(* An applied operation gives the entity a greater version, and one above  *)
(* the base of the operation when the client counted it up.                *)
LEMMA AppliedIsGreater ==
    ASSUME NEW op \in Sent, NEW row \in Row \cup {NoRow}, NEW d \in Device
    PROVE  /\ row # NoRow => EntityRow(row, op, d).ver > row.ver
           /\ op.base < op.ver => ~Accepts(EntityRow(row, op, d), op)
<1>1. op \in Operation
  BY SentAssumption
<1>2. op.base \in Nat /\ op.ver \in Nat
  BY <1>1, BoundsAssumption DEF Operation
<1>3. row # NoRow => row.ver \in Nat
  BY DEF Row
<1>4. StoredVersion(row, op) >= op.ver
  BY <1>2, <1>3 DEF StoredVersion, MaxOf
<1>5. row # NoRow => StoredVersion(row, op) > row.ver
  BY <1>2, <1>3 DEF StoredVersion, MaxOf
<1>6. EntityRow(row, op, d).ver = StoredVersion(row, op)
  BY DEF EntityRow
<1>7. EntityRow(row, op, d) # NoRow /\ StoredVersion(row, op) \in Nat
  BY RuleTypes, NoRowAssumption
<1> QED BY <1>2, <1>4, <1>5, <1>6, <1>7 DEF Accepts

(* Appending the feed row of an applied operation keeps both tables in     *)
(* step.                                                                   *)
LEMMA AppendKeepsChain ==
    ASSUME NEW op \in Sent, NEW d \in Device,
           NEW tab \in [Entity -> Row \cup {NoRow}], NEW f \in Seq(FeedEntry),
           Chain(f), Heads(tab, f)
    PROVE  LET row == tab[op.ent]
               g   == Append(f, FeedRow(row, op, d))
           IN  Chain(g) /\ Heads([tab EXCEPT ![op.ent] = EntityRow(row, op, d)], g)
<1> DEFINE row == tab[op.ent]
           new == FeedRow(row, op, d)
           g   == Append(f, new)
           tab2 == [tab EXCEPT ![op.ent] = EntityRow(row, op, d)]
<1>1. op \in Operation /\ op.ent \in Entity
  BY SentAssumption DEF Operation
<1>2. row \in Row \cup {NoRow}
  BY <1>1
<1>3. /\ new \in FeedEntry
      /\ EntityRow(row, op, d) \in Row
  BY <1>2, RuleTypes
<1>4. /\ g \in Seq(FeedEntry) /\ Len(f) \in Nat
      /\ DOMAIN f = 1..Len(f)
      /\ DOMAIN g = 1..(Len(f) + 1)
      /\ \A i \in 1..Len(f) : g[i] = f[i]
      /\ g[Len(f) + 1] = new
  BY <1>3
<1>5. /\ new.ent = op.ent
      /\ new.ver = StoredVersion(row, op)
      /\ new.base = FeedBase(row, op)
      /\ EntityRow(row, op, d) = [ver |-> new.ver, val |-> new.val,
                                  del |-> new.del, dev |-> new.dev]
  BY DEF FeedRow, EntityRow
<1> HIDE DEF new, g
<1>6. Chain(g)
  <2> SUFFICES ASSUME NEW i \in DOMAIN g, NEW j \in DOMAIN g, Precedes(g, j, i)
               PROVE  g[i].base = g[j].ver /\ g[i].ver > g[j].ver
    BY DEF Chain
  <2>1. /\ i \in Int /\ j \in 1..Len(f) /\ j < i /\ g[j] = f[j]
        /\ g[j].ent = g[i].ent
        /\ \A k \in DOMAIN g : j < k /\ k < i => g[k].ent # g[i].ent
    BY <1>4 DEF Precedes
  <2>2. CASE i \in 1..Len(f)
    <3>1. Precedes(f, j, i)
      <4>1. \A k \in DOMAIN f : k \in DOMAIN g /\ g[k] = f[k]
        BY <1>4
      <4>2. g[i] = f[i]
        BY <1>4, <2>2
      <4> QED BY <2>1, <4>1, <4>2 DEF Precedes
    <3> QED BY <3>1, <2>1, <2>2, <1>4 DEF Chain
  <2>3. CASE i = Len(f) + 1
    <3>1. g[i] = new
      BY <2>3, <1>4
    <3>2. f[j].ent = op.ent
      BY <2>1, <3>1, <1>5
    <3>3. IsHead(row, op.ent, f)
      BY <1>1 DEF Heads
    <3>4. row # NoRow
      BY <3>2, <3>3, <2>1, <1>4 DEF IsHead
    <3>5. PICK h \in DOMAIN f :
                 /\ f[h].ent = op.ent
                 /\ \A k \in DOMAIN f : k > h => f[k].ent # op.ent
                 /\ row = [ver |-> f[h].ver, val |-> f[h].val,
                           del |-> f[h].del, dev |-> f[h].dev]
      BY <3>3, <3>4 DEF IsHead
    <3>6. h = j
      <4>1. h \in 1..Len(f) /\ g[h] = f[h] /\ h \in DOMAIN g /\ h < i
        BY <3>5, <1>4, <2>3
      <4>2. ~(j < h)
        BY <4>1, <3>5, <2>1, <3>1, <1>5
      <4>3. ~(j > h)
        BY <3>5, <3>2, <2>1, <1>4
      <4> QED BY <4>1, <4>2, <4>3, <2>1
    <3>7. row.ver = f[j].ver
      BY <3>5, <3>6
    <3>8. FeedBase(row, op) = row.ver
      BY <3>4 DEF FeedBase
    <3>9. StoredVersion(row, op) > row.ver
      BY <3>4, <1>2, AppliedIsGreater DEF EntityRow
    <3> QED BY <3>1, <3>7, <3>8, <3>9, <1>5, <2>1
  <2> QED BY <2>2, <2>3, <1>4
<1>7. Heads(tab2, g)
  <2> SUFFICES ASSUME NEW e \in Entity
               PROVE  IsHead(tab2[e], e, g)
    BY DEF Heads
  <2>1. CASE e = op.ent
    <3>1. tab2[e] = EntityRow(row, op, d) /\ tab2[e] # NoRow
      BY <2>1, <1>3, NoRowAssumption
    <3>2. /\ Len(f) + 1 \in DOMAIN g
          /\ \A k \in DOMAIN g : ~(k > Len(f) + 1)
      BY <1>4
    <3> QED BY <3>1, <3>2, <2>1, <1>4, <1>5 DEF IsHead
  <2>2. CASE e # op.ent
    <3>1. tab2[e] = tab[e] /\ IsHead(tab[e], e, f)
      BY <2>2 DEF Heads
    <3>2. \A k \in DOMAIN f : k \in DOMAIN g /\ g[k] = f[k]
      BY <1>4
    <3>3. \A k \in DOMAIN g : k \in DOMAIN f \/ g[k].ent # e
      BY <1>4, <1>5, <2>2
    <3>4. CASE tab[e] = NoRow
      BY <3>1, <3>2, <3>3, <3>4 DEF IsHead
    <3>5. CASE tab[e] # NoRow
      <4>1. PICK h \in DOMAIN f :
                 /\ f[h].ent = e
                 /\ \A k \in DOMAIN f : k > h => f[k].ent # e
                 /\ tab[e] = [ver |-> f[h].ver, val |-> f[h].val,
                              del |-> f[h].del, dev |-> f[h].dev]
        BY <3>1, <3>5 DEF IsHead
      <4>2. h \in DOMAIN g /\ g[h] = f[h]
        BY <3>2
      <4>3. \A k \in DOMAIN g : k > h => g[k].ent # e
        BY <4>1, <3>2, <3>3
      <4> QED BY <3>1, <3>5, <4>1, <4>2, <4>3 DEF IsHead
    <3> QED BY <3>4, <3>5
  <2> QED BY <2>1, <2>2
<1> QED BY <1>6, <1>7 DEF g, new

-----------------------------------------------------------------------------
(* How rows of the same entity relate over a transaction. *)
LEMMA SupersedesTrans ==
    ASSUME NEW r1 \in Row \cup {NoRow}, NEW r2 \in Row \cup {NoRow}, NEW r3 \in Row,
           r2 = r1 \/ VS!Supersedes(r2, r1),
           r2 # NoRow => r3.ver > r2.ver
    PROVE  VS!Supersedes(r3, r1)
  BY NoRowAssumption DEF VS!Supersedes, Row

LEMMA InitInv == Init => IInv
<1> SUFFICES ASSUME Init PROVE IInv
  OBVIOUS
<1>1. TypeOK
  BY DEF Init, TypeOK, Idle, NoTxn
<1>2. FeedChain
  BY DEF Init, FeedChain, Chain
<1>3. HeadIsLast
  BY DEF Init, HeadIsLast, Heads, IsHead
<1>4. TxnInv /\ ReplayIsRefused
  BY DEF Init, NoTxn, TxnInv, ReplayIsRefused
<1> QED BY <1>1, <1>2, <1>3, <1>4 DEF IInv

(* A pull reads the store and changes only what the device knows. *)
LEMMA PullKeepsInv == IInv /\ Pull => IInv' /\ UNCHANGED <<entity, feed, txn>>
<1> SUFFICES ASSUME IInv, NEW d \in Device,
                    PullRows(d) \/ PullCursor(d) \/ PullLost(d)
             PROVE  IInv' /\ UNCHANGED <<entity, feed, txn>>
  BY DEF Pull
<1>1. UNCHANGED <<entity, feed, txn>>
  BY DEF PullRows, PullCursor, PullLost
<1>2. TypeOK
  BY DEF IInv
<1>3. TypeOK'
  <2>1. CASE PullRows(d)
    <3>1. \A i \in DOMAIN feed : i \in Nat \ {0} /\ feed[i] \in FeedEntry
      BY <1>2 DEF TypeOK
    <3>2. ASSUME NEW last \in DOMAIN feed,
                 page' = [page EXCEPT ![d] =
                              [phase |-> "rows", last |-> last,
                               rows |-> {<<i, feed[i]>> : i \in UpTo(Foreign(d, cursor[d]), last)}]]
          PROVE  TypeOK'
      <4>1. UpTo(Foreign(d, cursor[d]), last) \subseteq DOMAIN feed
        BY DEF UpTo, Foreign
      <4>2. {<<i, feed[i]>> : i \in UpTo(Foreign(d, cursor[d]), last)}
              \in SUBSET ((Nat \ {0}) \X FeedEntry)
        BY <4>1, <3>1
      <4>3. last \in Nat
        BY <3>1
      <4> QED BY <4>2, <4>3, <3>2, <2>1, <1>1, <1>2 DEF PullRows, TypeOK
    <3>3. ASSUME page' = [page EXCEPT ![d] = [phase |-> "rows", rows |-> {}, last |-> 0]]
          PROVE  TypeOK'
      BY <3>3, <2>1, <1>1, <1>2 DEF PullRows, TypeOK
    <3> QED BY <2>1, <3>2, <3>3 DEF PullRows
  <2>2. CASE PullCursor(d)
    <3>1. NextCursor(page[d], cursor[d]) \in Nat
      BY <1>2 DEF TypeOK, NextCursor, MaxOf
    <3> QED BY <2>2, <3>1, <1>1, <1>2 DEF PullCursor, Idle, TypeOK
  <2>3. CASE PullLost(d)
    BY <2>3, <1>2 DEF PullLost, Idle, TypeOK
  <2> QED BY <2>1, <2>2, <2>3
<1>4. (FeedChain /\ HeadIsLast /\ TxnInv /\ ReplayIsRefused)'
  BY <1>1 DEF IInv, FeedChain, HeadIsLast, TxnInv, ReplayIsRefused
<1> QED BY <1>1, <1>3, <1>4 DEF IInv

LEMMA BeginKeepsInv ==
    ASSUME IInv, NEW d \in Device, NEW n \in 1..MaxBatch, NEW ops \in [1..n -> Sent],
           BeginPush(d, ops)
    PROVE  IInv' /\ Committed' = Committed
<1>1. TypeOK /\ FeedChain /\ HeadIsLast
  BY DEF IInv
<1>2. ops \in Seq(Sent) /\ Len(ops) \in Nat
  BY BoundsAssumption
<1>3. txn' \in OpenTxn
  BY <1>1, <1>2 DEF BeginPush, OpenTxn, TypeOK
<1>4. TypeOK'
  BY <1>1, <1>3 DEF BeginPush, TypeOK
<1>5. FeedChain' /\ HeadIsLast'
  BY <1>1 DEF BeginPush, FeedChain, HeadIsLast
<1>6. TxnInv'
  BY <1>1, <1>2 DEF BeginPush, FeedChain, HeadIsLast, TxnInv
<1>7. ReplayIsRefused'
  BY DEF BeginPush, ReplayIsRefused
<1>8. Committed' = Committed
  BY DEF BeginPush, Committed
<1> QED BY <1>4, <1>5, <1>6, <1>7, <1>8 DEF IInv

LEMMA ApplyKeepsInv ==
    ASSUME IInv, ApplyOperation
    PROVE  IInv' /\ Committed' = Committed
<1> DEFINE op  == txn.ops[Answered + 1]
           row == entity[op.ent]
<1>1. TypeOK /\ FeedChain /\ HeadIsLast /\ TxnInv /\ ReplayIsRefused
  BY DEF IInv
<1>2. /\ txn \in OpenTxn /\ txn.open
      /\ txn.dev \in Device /\ txn.ops \in Seq(Sent) /\ txn.acks \in Seq(Ack)
      /\ Answered \in Nat /\ Answered < Len(txn.ops)
      /\ Len(txn.acks) = Answered
  <2>1. txn.open /\ Answered < Len(txn.ops)
    BY DEF ApplyOperation
  <2>2. txn \in OpenTxn
    BY <2>1, <1>1 DEF TypeOK, NoTxn
  <2>3. /\ txn.dev \in Device /\ txn.ops \in Seq(Sent) /\ txn.acks \in Seq(Ack)
    BY <2>2 DEF OpenTxn
  <2> QED BY <2>1, <2>2, <2>3 DEF Answered
<1>3. op \in Sent
  BY <1>2
<1>4. op.ent \in Entity
  BY <1>3, SentAssumption DEF Operation
<1>5. row \in Row \cup {NoRow}
  BY <1>4, <1>1 DEF TypeOK
<1>6. AckOf(row, op) \in Ack
  BY <1>3, <1>5, <1>2, RuleTypes
<1>7. /\ txn' = [txn EXCEPT !.acks = Append(@, AckOf(row, op))]
      /\ UNCHANGED <<page, cursor, got>>
  BY DEF ApplyOperation
<1>8. /\ txn' \in OpenTxn /\ txn'.open
      /\ txn'.ops = txn.ops /\ txn'.entity = txn.entity /\ txn'.feed = txn.feed
      /\ txn'.acks = Append(txn.acks, AckOf(row, op))
  <2> DEFINE acks2 == Append(txn.acks, AckOf(row, op))
  <2>1. acks2 \in Seq(Ack)
    BY <1>2, <1>6
  <2>2. txn' = [txn EXCEPT !.acks = acks2]
    BY <1>7
  <2> HIDE DEF acks2
  <2>3. /\ txn' \in OpenTxn /\ txn'.open
        /\ txn'.ops = txn.ops /\ txn'.entity = txn.entity /\ txn'.feed = txn.feed
        /\ txn'.acks = acks2
    BY <1>2, <2>1, <2>2 DEF OpenTxn
  <2> QED BY <2>3 DEF acks2
<1>9. Committed' = Committed
  BY <1>2, <1>8 DEF Committed
<1>10. AckOf(row, op).status = AckStatus(row, op)
  BY DEF AckOf
<1> HIDE DEF op
<1>11. CASE AckStatus(row, op) = "applied"
  <2>1. /\ entity' = [entity EXCEPT ![op.ent] = EntityRow(row, op, txn.dev)]
        /\ feed' = Append(feed, FeedRow(row, op, txn.dev))
    BY <1>11 DEF ApplyOperation, AppendFeed, op
  <2>2. /\ EntityRow(row, op, txn.dev) \in Row
        /\ FeedRow(row, op, txn.dev) \in FeedEntry
    BY <1>3, <1>5, <1>2, RuleTypes
  <2>3. TypeOK'
    BY <2>1, <2>2, <1>4, <1>8, <1>7, <1>1 DEF TypeOK
  <2>4. FeedChain' /\ HeadIsLast'
    BY <2>1, <1>1, <1>2, <1>3, AppendKeepsChain DEF FeedChain, HeadIsLast, TypeOK
  <2>5. row # NoRow => EntityRow(row, op, txn.dev).ver > row.ver
    BY <1>3, <1>5, <1>2, AppliedIsGreater
  <2>6. \A e \in Entity : \/ entity'[e] = txn.entity[e]
                          \/ VS!Supersedes(entity'[e], txn.entity[e])
    <3> SUFFICES ASSUME NEW e \in Entity
                 PROVE  \/ entity'[e] = txn.entity[e]
                        \/ VS!Supersedes(entity'[e], txn.entity[e])
      OBVIOUS
    <3>1. entity[e] = txn.entity[e] \/ VS!Supersedes(entity[e], txn.entity[e])
      BY <1>1, <1>2 DEF TxnInv
    <3>2. CASE e # op.ent
      BY <3>1, <3>2, <2>1, <1>1 DEF TypeOK
    <3>3. CASE e = op.ent
      <4>1. entity'[e] = EntityRow(row, op, txn.dev)
        BY <3>3, <2>1, <1>1 DEF TypeOK
      <4>2. txn.entity[e] \in Row \cup {NoRow}
        BY <1>2 DEF OpenTxn
      <4>3. row = entity[e]
        BY <3>3
      <4>4. VS!Supersedes(EntityRow(row, op, txn.dev), txn.entity[e])
        BY <3>1, <4>2, <4>3, <2>2, <2>5, <1>5, SupersedesTrans
      <4> QED BY <4>1, <4>4
    <3> QED BY <3>2, <3>3
  <2>7. TxnInv'
    BY <2>6, <1>8, <1>2, <1>1, <1>6 DEF TxnInv
  <2>8. ReplayIsRefused'
    <3> SUFFICES ASSUME NEW k \in DOMAIN txn'.acks,
                        txn'.acks[k].status = "applied",
                        txn.ops[k].base < txn.ops[k].ver
                 PROVE  ~Accepts(entity'[txn.ops[k].ent], txn.ops[k])
      BY <1>8 DEF ReplayIsRefused
    <3>1. k \in 1..(Answered + 1)
      BY <1>8, <1>2, <1>6
    <3>2. CASE k = Answered + 1
      <4>1. txn.ops[k] = op
        BY <3>2 DEF op
      <4>2. ~Accepts(EntityRow(row, op, txn.dev), op)
        BY <4>1, <1>3, <1>5, <1>2, AppliedIsGreater
      <4> QED BY <4>1, <4>2, <2>1, <1>4, <1>1 DEF TypeOK
    <3>3. CASE k \in 1..Answered
      <4> DEFINE opk == txn.ops[k]
      <4>1. k \in DOMAIN txn.acks /\ txn'.acks[k] = txn.acks[k]
        BY <3>3, <1>8, <1>2, <1>6
      <4>2. ~Accepts(entity[opk.ent], opk)
        BY <4>1, <1>1, <1>2 DEF ReplayIsRefused
      <4>3. opk \in Sent
        BY <3>3, <1>2
      <4>4. opk.ent \in Entity /\ opk.base \in Nat
        BY <4>3, SentAssumption DEF Operation
      <4> HIDE DEF opk
      <4>5. CASE opk.ent # op.ent
        BY <4>5, <4>4, <4>2, <2>1, <1>1 DEF TypeOK, opk
      <4>6. CASE opk.ent = op.ent
        <5>1. row # NoRow /\ ~(opk.base >= row.ver) /\ row \in Row
          BY <4>2, <4>6, <1>5 DEF Accepts
        <5>2. EntityRow(row, op, txn.dev).ver > row.ver
          BY <5>1, <2>5
        <5>3. EntityRow(row, op, txn.dev) # NoRow
          BY <2>2, NoRowAssumption
        <5>4. ~Accepts(EntityRow(row, op, txn.dev), opk)
          BY <5>1, <5>2, <5>3, <2>2, <4>4 DEF Accepts, Row
        <5>5. entity'[opk.ent] = EntityRow(row, op, txn.dev)
          BY <4>6, <2>1, <1>4, <1>1 DEF TypeOK
        <5> QED BY <5>4, <5>5 DEF opk
      <4> QED BY <4>5, <4>6
    <3> QED BY <3>1, <3>2, <3>3, <1>2
  <2> QED BY <2>3, <2>4, <2>7, <2>8, <1>9 DEF IInv
<1>12. CASE AckStatus(row, op) # "applied"
  <2>1. UNCHANGED <<entity, feed>>
    BY <1>12 DEF ApplyOperation, op
  <2>2. TypeOK'
    BY <2>1, <1>8, <1>7, <1>1 DEF TypeOK
  <2>3. FeedChain' /\ HeadIsLast'
    BY <2>1, <1>1 DEF FeedChain, HeadIsLast
  <2>4. TxnInv'
    BY <2>1, <1>8, <1>2, <1>1, <1>6 DEF TxnInv
  <2>5. ReplayIsRefused'
    <3> SUFFICES ASSUME NEW k \in DOMAIN txn'.acks,
                        txn'.acks[k].status = "applied",
                        txn.ops[k].base < txn.ops[k].ver
                 PROVE  ~Accepts(entity[txn.ops[k].ent], txn.ops[k])
      BY <2>1, <1>8 DEF ReplayIsRefused
    <3>1. k \in 1..(Answered + 1)
      BY <1>8, <1>2, <1>6
    <3>2. k # Answered + 1
      BY <1>8, <1>2, <1>6, <1>10, <1>12
    <3>3. k \in DOMAIN txn.acks /\ txn'.acks[k] = txn.acks[k]
      BY <3>1, <3>2, <1>8, <1>2, <1>6
    <3> QED BY <3>3, <1>1, <1>2 DEF ReplayIsRefused
  <2> QED BY <2>2, <2>3, <2>4, <2>5, <1>9 DEF IInv
<1> QED BY <1>11, <1>12

(* COMMIT makes the rows of the transaction the committed ones. *)
LEMMA CommitKeepsInv ==
    ASSUME IInv, CommitPush
    PROVE  IInv' /\ VS!Commit
<1>1. IInv'
  BY DEF IInv, TypeOK, FeedChain, HeadIsLast, TxnInv, ReplayIsRefused, CommitPush, NoTxn
<1>2. Committed = txn.entity /\ Committed' = entity
  BY DEF CommitPush, Committed, NoTxn
<1> QED BY <1>1, <1>2 DEF VS!Commit, IInv, TxnInv, CommitPush

(* ROLLBACK brings back tables that satisfied the invariant. *)
LEMMA AbortKeepsInv ==
    ASSUME IInv, AbortPush
    PROVE  IInv' /\ Committed' = Committed
<1>1. txn.open /\ txn \in OpenTxn
  BY DEF AbortPush, IInv, TypeOK, NoTxn
<1>2. entity' = txn.entity /\ feed' = txn.feed /\ txn' = NoTxn
      /\ UNCHANGED <<page, cursor, got>>
  BY DEF AbortPush, Restore
<1>3. TypeOK'
  BY <1>1, <1>2 DEF IInv, TypeOK, OpenTxn
<1>4. FeedChain' /\ HeadIsLast'
  BY <1>1, <1>2 DEF IInv, TxnInv, FeedChain, HeadIsLast
<1>5. TxnInv' /\ ReplayIsRefused'
  BY <1>2 DEF NoTxn, TxnInv, ReplayIsRefused
<1>6. Committed' = Committed
  BY <1>1, <1>2 DEF Committed, NoTxn
<1> QED BY <1>3, <1>4, <1>5, <1>6 DEF IInv

(* One step of anybody: the invariant, and a step or a stutter of          *)
(* VersionedStore.                                                         *)
LEMMA NextInv ==
    IInv /\ [Next]_vars => IInv' /\ (VS!Commit \/ Committed' = Committed)
<1> SUFFICES ASSUME IInv, [Next]_vars
             PROVE  IInv' /\ (VS!Commit \/ Committed' = Committed)
  OBVIOUS
<1>1. CASE \E d \in Device : \E n \in 1..MaxBatch : \E ops \in [1..n -> Sent] :
              BeginPush(d, ops)
  BY <1>1, BeginKeepsInv
<1>2. CASE ApplyOperation
  BY <1>2, ApplyKeepsInv
<1>3. CASE CommitPush
  BY <1>3, CommitKeepsInv
<1>4. CASE AbortPush
  BY <1>4, AbortKeepsInv
<1>5. CASE Pull
  BY <1>5, PullKeepsInv DEF Committed
<1>6. CASE UNCHANGED vars
  BY <1>6 DEF vars, Committed, IInv, TypeOK, FeedChain, HeadIsLast, TxnInv, ReplayIsRefused
<1> QED BY <1>1, <1>2, <1>3, <1>4, <1>5, <1>6 DEF Next, Push

-----------------------------------------------------------------------------
(* The inductive invariant holds in every state. *)
THEOREM Invariance == Spec => []IInv
<1>1. Init => IInv
  BY InitInv
<1>2. IInv /\ [Next]_vars => IInv'
  BY NextInv
<1> QED BY <1>1, <1>2, PTL DEF Spec

(* Type correctness of the sync store. *)
THEOREM TypeCorrect == Spec => []TypeOK
<1>1. IInv => TypeOK
  BY DEF IInv
<1> QED BY <1>1, Invariance, PTL

(* The feed is one history per entity and sync_entities is its last word,  *)
(* during a push, after a commit and after a rollback.                     *)
THEOREM FeedIsHistory == Spec => [](FeedChain /\ HeadIsLast)
<1>1. IInv => FeedChain /\ HeadIsLast
  BY DEF IInv
<1> QED BY <1>1, Invariance, PTL

(* An operation whose answer was lost is not applied a second time.        *)
THEOREM RetryIsSafe == Spec => []ReplayIsRefused
<1>1. IInv => ReplayIsRefused
  BY DEF IInv
<1> QED BY <1>1, Invariance, PTL

(* The sync store implements the versioned store. *)
THEOREM Refinement == Spec => ImplementsVersionedStore
<1>1. Init => VS!Init
  BY DEF Init, NoTxn, VS!Init, Committed
<1>2. IInv /\ [Next]_vars => [VS!Commit]_Committed
  BY NextInv
<1> QED BY <1>1, <1>2, Invariance, PTL DEF Spec, VS!Spec, ImplementsVersionedStore
-----------------------------------------------------------------------------
(* The cursor.                                                             *)
(*                                                                         *)
(* A cursor is honest only if no page is put together across two states of *)
(* the feed and none shows rows that are rolled back later, which is why   *)
(* the runtime must not let requests overlap.  The invariant says so: at   *)
(* most one request is open, the rows of an open page are those of the     *)
(* feed, and nobody knows of a row the open transaction has written.       *)

(* Requests come one after the other. *)
OneRequest ==
    /\ txn.open => \A d \in Device : page[d] = Idle
    /\ \A d, c \in Device : page[d] # Idle /\ page[c] # Idle => d = c

(* A page that is being answered holds every row its device lacks up to    *)
(* where the page ends, and all of them when it is empty.                  *)
PageIsHonest ==
    \A d \in Device : page[d].phase = "rows" =>
        /\ \A r \in page[d].rows : r[1] \in DOMAIN feed /\ feed[r[1]] = r[2]
        /\ page[d].rows # {} => page[d].last <= Len(feed)
        /\ \A i \in Foreign(d, cursor[d]) :
              page[d].rows = {} \/ i <= page[d].last => <<i, feed[i]>> \in page[d].rows

(* No device has a cursor or a row beyond what the open transaction        *)
(* started from, and the transaction only appends.                         *)
Known(f) ==
    \A d \in Device : cursor[d] <= Len(f) /\ \A r \in got[d] : r[1] \in DOMAIN f

Extends(f, g) == Len(g) <= Len(f) /\ \A i \in DOMAIN g : f[i] = g[i]

RollbackIsUnseen ==
    IF txn.open THEN Known(txn.feed) /\ Extends(feed, txn.feed) ELSE Known(feed)

CInv == OneRequest /\ PageIsHonest /\ RollbackIsUnseen /\ CursorIsHonest

(* A page that has rows ends beyond the cursor it was asked with. *)
PageIsAhead ==
    \A d \in Device : page[d].rows # {} => page[d].last > cursor[d]

LEMMA InitCursor == Init => CInv /\ PageIsAhead
BY DEF Init, CInv, PageIsAhead, OneRequest, PageIsHonest, RollbackIsUnseen,
       Known, CursorIsHonest, Idle, NoTxn

(* The page of the first query ends beyond the cursor, and a page in       *)
(* progress is left alone by everyone but its device.                      *)
LEMMA AheadStep ==
    ASSUME IInv, PageIsAhead, [Next]_vars
    PROVE  PageIsAhead' /\ \A d \in Device : cursor'[d] >= cursor[d]
<1>1. TypeOK
  BY DEF IInv
<1>2. \A d \in Device : cursor[d] \in Nat
  BY <1>1 DEF TypeOK
<1>3. CASE UNCHANGED <<page, cursor>>
  BY <1>2, <1>3 DEF PageIsAhead
<1>4. ASSUME NEW d \in Device, PullRows(d)
      PROVE  PageIsAhead' /\ \A c \in Device : cursor'[c] >= cursor[c]
  <2>1. cursor' = cursor
    BY <1>4 DEF PullRows
  <2>2. \A c \in Device : c # d => page'[c] = page[c]
    BY <1>1, <1>4 DEF PullRows, TypeOK
  <2>3. page'[d].rows # {} => page'[d].last > cursor[d]
    <3>1. CASE page' = [page EXCEPT ![d] = [phase |-> "rows", rows |-> {}, last |-> 0]]
      BY <3>1, <1>1 DEF TypeOK
    <3>2. ASSUME NEW last \in DOMAIN feed,
                 PageEnd(Foreign(d, cursor[d]), last),
                 page' = [page EXCEPT ![d] =
                              [phase |-> "rows", last |-> last,
                               rows |-> {<<i, feed[i]>> : i \in UpTo(Foreign(d, cursor[d]), last)}]]
          PROVE  page'[d].last > cursor[d]
      <4>1. page'[d].last = last
        BY <3>2, <1>1 DEF TypeOK
      <4>2. last \in Foreign(d, cursor[d])
        BY <3>2 DEF PageEnd
      <4> QED BY <4>1, <4>2 DEF Foreign
    <3> QED BY <1>4, <3>1, <3>2 DEF PullRows
  <2> QED BY <1>2, <2>1, <2>2, <2>3 DEF PageIsAhead
<1>5. ASSUME NEW d \in Device, PullCursor(d)
      PROVE  PageIsAhead' /\ \A c \in Device : cursor'[c] >= cursor[c]
  <2>1. /\ page'[d].rows = {}
        /\ cursor'[d] = NextCursor(page[d], cursor[d])
        /\ \A c \in Device : c # d => page'[c] = page[c] /\ cursor'[c] = cursor[c]
    BY <1>1, <1>5 DEF PullCursor, TypeOK, Idle
  <2>2. cursor'[d] >= cursor[d]
    <3>1. CASE page[d].rows = {}
      <4>1. Len(feed) \in Nat
        BY <1>1 DEF TypeOK
      <4> QED BY <3>1, <4>1, <2>1, <1>2 DEF NextCursor, MaxOf
    <3>2. CASE page[d].rows # {}
      <4>1. page[d].last \in Nat
        BY <1>1 DEF TypeOK
      <4> QED BY <3>2, <4>1, <2>1, <1>2 DEF NextCursor, PageIsAhead
    <3> QED BY <3>1, <3>2
  <2> QED BY <1>2, <2>1, <2>2 DEF PageIsAhead
<1>6. ASSUME NEW d \in Device, PullLost(d)
      PROVE  PageIsAhead' /\ \A c \in Device : cursor'[c] >= cursor[c]
  BY <1>1, <1>2, <1>6 DEF PullLost, TypeOK, Idle, PageIsAhead
<1>7. Push \/ UNCHANGED vars => UNCHANGED <<page, cursor>>
  BY DEF Push, BeginPush, ApplyOperation, CommitPush, AbortPush, vars
<1> QED BY <1>3, <1>4, <1>5, <1>6, <1>7 DEF Next, Pull

(* A step of a push: no page is open, and what the devices know is what    *)
(* the feed said before the transaction.                                   *)
LEMMA PushKeepsCursor ==
    ASSUME Overlap = FALSE, IInv, CInv, Push
    PROVE  CInv'
<1>1. TypeOK /\ OneRequest /\ RollbackIsUnseen /\ CursorIsHonest
  BY DEF IInv, CInv
<1>2. UNCHANGED <<page, cursor, got>>
  BY DEF Push, BeginPush, ApplyOperation, CommitPush, AbortPush
<1>3. \A d \in Device : page[d] = Idle
  BY <1>1 DEF Push, BeginPush, ApplyOperation, CommitPush, AbortPush, Exclusive, OneRequest
<1>4. OneRequest' /\ PageIsHonest'
  BY <1>2, <1>3 DEF OneRequest, PageIsHonest, Idle
<1>5. /\ feed \in Seq(FeedEntry) /\ Len(feed) \in Nat /\ DOMAIN feed = 1..Len(feed)
      /\ \A d \in Device : cursor[d] \in Nat
  BY <1>1 DEF TypeOK
<1>6. txn.open => /\ txn \in OpenTxn /\ txn.feed \in Seq(FeedEntry)
                  /\ Len(txn.feed) \in Nat /\ DOMAIN txn.feed = 1..Len(txn.feed)
  <2>1. txn.open => txn \in OpenTxn
    BY <1>1 DEF TypeOK, NoTxn
  <2>2. txn \in OpenTxn => txn.feed \in Seq(FeedEntry)
    BY DEF OpenTxn
  <2> QED BY <2>1, <2>2
<1>7. ASSUME NEW d \in Device, NEW n \in 1..MaxBatch, NEW ops \in [1..n -> Sent],
             BeginPush(d, ops)
      PROVE  RollbackIsUnseen' /\ CursorIsHonest'
  <2>1. txn'.open /\ txn'.feed = feed /\ feed' = feed /\ ~txn.open
    BY <1>7 DEF BeginPush
  <2>2. Known(feed)
    BY <1>1, <2>1 DEF RollbackIsUnseen
  <2>3. Known(feed)' /\ Extends(feed', txn'.feed)
    BY <1>2, <1>5, <2>1, <2>2 DEF Known, Extends
  <2> QED BY <1>1, <1>2, <2>1, <2>3 DEF RollbackIsUnseen, CursorIsHonest, Known
<1>8. ASSUME ApplyOperation
      PROVE  RollbackIsUnseen' /\ CursorIsHonest'
  <2>1. txn.open /\ txn'.open /\ txn'.feed = txn.feed
    BY <1>8, <1>6 DEF ApplyOperation, OpenTxn
  <2>2. Known(txn.feed) /\ Extends(feed, txn.feed)
    BY <1>1, <2>1 DEF RollbackIsUnseen
  <2>3. TypeOK'
    BY <1>8, ApplyKeepsInv DEF IInv
  <2>4. Extends(feed', feed)
    <3>1. CASE feed' = feed
      BY <3>1, <1>5 DEF Extends
    <3>2. ASSUME NEW x, feed' = Append(feed, x)
          PROVE  Extends(feed', feed)
      <4>1. DOMAIN feed' = DOMAIN Append(feed, x) /\ DOMAIN feed' = 1..Len(feed')
        BY <3>2, <2>3 DEF TypeOK
      <4>2. Len(feed') = Len(feed) + 1 /\ \A i \in 1..Len(feed) : feed'[i] = feed[i]
        BY <3>2, <1>5
      <4> QED BY <4>2, <1>5 DEF Extends
    <3> QED BY <1>8, <3>1, <3>2 DEF ApplyOperation, AppendFeed
  <2>5. Len(feed') \in Nat /\ DOMAIN feed' = 1..Len(feed')
    BY <2>3 DEF TypeOK
  <2>6. Extends(feed', txn.feed)
    BY <2>1, <2>2, <2>4, <2>5, <1>5, <1>6 DEF Extends
  <2>7. CursorIsHonest'
    <3>1. \A d \in Device : cursor[d] <= Len(feed)
      BY <2>1, <2>2, <1>5, <1>6 DEF Known, Extends
    <3>2. \A i \in DOMAIN feed : i \in DOMAIN feed' /\ feed'[i] = feed[i]
      BY <2>4, <2>5, <1>5 DEF Extends
    <3>3. \A d \in Device : \A i \in DOMAIN feed' : i <= cursor[d] => i \in DOMAIN feed
      BY <3>1, <2>5, <1>5
    <3> QED BY <1>1, <1>2, <3>2, <3>3 DEF CursorIsHonest
  <2>8. Known(txn.feed)'
    BY <1>2, <2>1, <2>2 DEF Known
  <2> QED BY <2>1, <2>6, <2>7, <2>8 DEF RollbackIsUnseen
<1>9. ASSUME CommitPush
      PROVE  RollbackIsUnseen' /\ CursorIsHonest'
  <2>1. txn.open /\ ~txn'.open /\ feed' = feed
    BY <1>9 DEF CommitPush, NoTxn
  <2>2. Known(txn.feed) /\ Extends(feed, txn.feed)
    BY <1>1, <2>1 DEF RollbackIsUnseen
  <2>3. Known(feed)
    BY <2>1, <2>2, <1>5, <1>6 DEF Known, Extends
  <2> QED BY <1>1, <1>2, <2>1, <2>3 DEF RollbackIsUnseen, CursorIsHonest, Known
<1>10. ASSUME AbortPush
       PROVE  RollbackIsUnseen' /\ CursorIsHonest'
  <2>1. txn.open /\ ~txn'.open /\ feed' = txn.feed
    BY <1>10 DEF AbortPush, NoTxn, Restore
  <2>2. Known(txn.feed) /\ Extends(feed, txn.feed)
    BY <1>1, <2>1 DEF RollbackIsUnseen
  <2>3. \A i \in DOMAIN txn.feed : i \in DOMAIN feed /\ feed[i] = txn.feed[i]
    BY <2>1, <2>2, <1>5, <1>6 DEF Extends
  <2>4. CursorIsHonest'
    BY <1>1, <1>2, <2>1, <2>2, <2>3 DEF CursorIsHonest, Known
  <2> QED BY <1>2, <2>1, <2>2, <2>4 DEF RollbackIsUnseen, Known
<1> QED BY <1>4, <1>7, <1>8, <1>9, <1>10 DEF Push, CInv

(* A step of a pull: no transaction is open and no other page is.          *)
LEMMA PullKeepsCursor ==
    ASSUME Overlap = FALSE, IInv, CInv, PageIsAhead, Pull
    PROVE  CInv'
<1>1. TypeOK /\ OneRequest /\ PageIsHonest /\ RollbackIsUnseen /\ CursorIsHonest
  BY DEF IInv, CInv
<1>2. UNCHANGED <<entity, feed, txn>>
  BY DEF Pull, PullRows, PullCursor, PullLost
<1>3. PICK d \in Device : PullRows(d) \/ PullCursor(d) \/ PullLost(d)
  BY DEF Pull
<1>4. ~txn.open /\ \A c \in Device : c # d => page[c] = Idle
  BY <1>1, <1>3 DEF PullRows, PullCursor, PullLost, Exclusive, OneRequest, Idle
<1>5. \A c \in Device : c # d => page'[c] = Idle
  BY <1>1, <1>3, <1>4 DEF PullRows, PullCursor, PullLost, TypeOK
<1>6. OneRequest'
  BY <1>2, <1>4, <1>5 DEF OneRequest
<1>7. /\ feed \in Seq(FeedEntry) /\ Len(feed) \in Nat /\ DOMAIN feed = 1..Len(feed)
      /\ \A c \in Device : cursor[c] \in Nat
      /\ Known(feed)
  BY <1>1, <1>4 DEF TypeOK, RollbackIsUnseen
<1>8. CASE PullRows(d)
  <2>1. cursor' = cursor /\ got' = got
    BY <1>8 DEF PullRows
  <2>2. RollbackIsUnseen' /\ CursorIsHonest'
    BY <1>1, <1>2, <1>4, <1>7, <2>1 DEF RollbackIsUnseen, CursorIsHonest, Known
  <2>3. PageIsHonest'
    <3> DEFINE S == Foreign(d, cursor[d])
    <3>1. S \subseteq DOMAIN feed
      BY DEF Foreign
    <3>2. CASE S = {} /\ page' = [page EXCEPT ![d] = [phase |-> "rows", rows |-> {}, last |-> 0]]
      <4>1. page'[d] = [phase |-> "rows", rows |-> {}, last |-> 0]
        BY <3>2, <1>1 DEF TypeOK
      <4> QED BY <3>2, <4>1, <1>2, <1>5, <2>1 DEF PageIsHonest, Idle, Foreign
    <3>3. ASSUME NEW last \in DOMAIN feed, PageEnd(S, last),
                 page' = [page EXCEPT ![d] =
                              [phase |-> "rows", last |-> last,
                               rows |-> {<<i, feed[i]>> : i \in UpTo(S, last)}]]
          PROVE  PageIsHonest'
      <4> DEFINE rows == {<<i, feed[i]>> : i \in UpTo(S, last)}
      <4>1. page'[d] = [phase |-> "rows", last |-> last, rows |-> rows]
        BY <3>3, <1>1 DEF TypeOK
      <4>2. \A r \in rows : r[1] \in DOMAIN feed /\ feed[r[1]] = r[2]
        BY <3>1 DEF UpTo
      <4>3. rows # {}
        <5>1. last \in S /\ last <= last
          BY <3>3, <1>7 DEF PageEnd
        <5>2. <<last, feed[last]>> \in rows
          BY <5>1 DEF UpTo
        <5> QED BY <5>2
      <4>4. \A i \in S : i <= last => <<i, feed[i]>> \in rows
        BY DEF UpTo
      <4>5. last <= Len(feed)
        BY <3>3, <1>7
      <4> HIDE DEF rows
      <4>6. Foreign(d, cursor[d])' = S
        BY <1>2, <2>1 DEF Foreign
      <4> QED BY <4>1, <4>2, <4>3, <4>4, <4>5, <4>6, <1>2, <1>5 DEF PageIsHonest, Idle
    <3> QED BY <1>8, <3>2, <3>3 DEF PullRows
  <2> QED BY <1>6, <2>2, <2>3 DEF CInv
<1>9. CASE PullCursor(d)
  <2>1. /\ page[d].phase = "rows" /\ page'[d] = Idle
        /\ cursor'[d] = NextCursor(page[d], cursor[d])
        /\ got'[d] = got[d] \cup page[d].rows
        /\ \A c \in Device : c # d => cursor'[c] = cursor[c] /\ got'[c] = got[c]
    BY <1>9, <1>1 DEF PullCursor, TypeOK
  <2>2. PageIsHonest'
    BY <2>1, <1>5 DEF PageIsHonest, Idle
  <2>3. /\ \A r \in page[d].rows : r[1] \in DOMAIN feed /\ feed[r[1]] = r[2]
        /\ page[d].rows # {} => page[d].last <= Len(feed)
        /\ \A i \in Foreign(d, cursor[d]) :
              page[d].rows = {} \/ i <= page[d].last => <<i, feed[i]>> \in page[d].rows
    BY <2>1, <1>1 DEF PageIsHonest
  <2>4. page[d].last \in Nat
    BY <1>1 DEF TypeOK
  <2>5. cursor'[d] <= Len(feed)
    BY <2>1, <2>3, <1>7 DEF NextCursor, MaxOf, Known
  <2>6. Known(feed)'
    BY <2>1, <2>3, <2>5, <1>2, <1>7 DEF Known
  <2>7. \A i \in DOMAIN feed : i <= cursor'[d] /\ feed[i].dev # d => <<i, feed[i]>> \in got'[d]
    <3> SUFFICES ASSUME NEW i \in DOMAIN feed, i <= cursor'[d], feed[i].dev # d
                 PROVE  <<i, feed[i]>> \in got'[d]
      OBVIOUS
    <3>1. CASE i <= cursor[d]
      BY <3>1, <2>1, <1>1 DEF CursorIsHonest
    <3>2. CASE ~(i <= cursor[d])
      <4>1. i \in Foreign(d, cursor[d])
        BY <3>2, <1>7 DEF Foreign
      <4>2. page[d].rows = {} \/ i <= page[d].last
        BY <2>1 DEF NextCursor
      <4> QED BY <4>1, <4>2, <2>1, <2>3
    <3> QED BY <3>1, <3>2
  <2>8. CursorIsHonest'
    BY <2>1, <2>3, <2>7, <1>1, <1>2 DEF CursorIsHonest
  <2> QED BY <1>2, <1>4, <1>6, <2>2, <2>6, <2>8 DEF CInv, RollbackIsUnseen
<1>10. CASE PullLost(d)
  <2>1. page'[d] = Idle /\ cursor' = cursor /\ got' = got
    BY <1>10, <1>1 DEF PullLost, TypeOK
  <2>2. PageIsHonest'
    BY <2>1, <1>5 DEF PageIsHonest, Idle
  <2> QED BY <1>1, <1>2, <1>6, <2>1, <2>2 DEF CInv, RollbackIsUnseen, CursorIsHonest, Known
<1> QED BY <1>3, <1>8, <1>9, <1>10

(* A cursor never moves back, whether or not requests overlap.             *)
THEOREM CursorsMoveForward == Spec => CursorForward
<1>1. IInv /\ PageIsAhead /\ [Next]_vars
        => PageIsAhead' /\ [\A d \in Device : cursor'[d] >= cursor[d]]_vars
  BY AheadStep
<1> QED BY <1>1, InitCursor, Invariance, PTL DEF Spec, CursorForward

(* When requests do not overlap, as on the server's one connection with    *)
(* answers in the same turn, what a device reads of the feed can be relied *)
(* on: sync_entities is the feed's last word and a cursor skips nothing.   *)
THEOREM FeedCanBeTrusted == Overlap = FALSE => (Spec => []FeedIsSound)
<1> SUFFICES ASSUME Overlap = FALSE PROVE Spec => []FeedIsSound
  OBVIOUS
<1>1. IInv /\ PageIsAhead /\ CInv /\ [Next]_vars => CInv'
  <2>1. UNCHANGED vars /\ CInv => CInv'
    BY DEF vars, CInv, OneRequest, PageIsHonest, RollbackIsUnseen, Known, Extends,
           CursorIsHonest, Foreign
  <2> QED BY <2>1, PushKeepsCursor, PullKeepsCursor DEF Next
<1>2. IInv /\ PageIsAhead /\ [Next]_vars => PageIsAhead'
  BY AheadStep
<1>3. IInv /\ CInv => FeedIsSound
  BY DEF IInv, CInv, FeedIsSound
<1> QED BY <1>1, <1>2, <1>3, InitCursor, Invariance, PTL DEF Spec
=============================================================================
