------------------------------ MODULE DbProofs ------------------------------
(***************************************************************************)
(* What transaction() answered is durable, and what is durable is whole    *)
(* transactions, when calls that do not know of each other do not overlap, *)
(* on every driver and for every tree of calls; and the copies made of the *)
(* file, and put in its place, are states the database was in.             *)
(*                                                                         *)
(* The calls of the open transaction are nested by their names: all but    *)
(* the innermost are in their bodies, and the frames SQLite has open are   *)
(* theirs.  So a statement undoes what the innermost call wrote, and what  *)
(* the others did is in the rows it goes back to.                          *)
(***************************************************************************)
EXTENDS MCDbTransaction, FiniteSetTheorems, TLAPS

Steps == {"idle", "begun", "body", "committed", "released", "catch", "drop", "saving", "waiting", "done"}
FrameOf == [name : Nat, before : SUBSET Rows]
SaveOf == [by : Caller, rows : SUBSET Rows]
CallOf == [pc : Steps, name : Nat, written : 0..Statements, awaits : Caller \cup {Nobody}]
DbTypes ==
    /\ depth \in Int /\ seq \in Nat /\ image \subseteq Rows /\ disk \subseteq Rows
    /\ stack \in Seq(FrameOf)
    /\ dirty \in BOOLEAN /\ promise \in Caller \cup {Nobody}
    /\ saves \in Seq(SaveOf)
    /\ call \in [Caller -> CallOf]
    /\ told \in [Caller \cup Writer -> {"nothing", "ok", "error", "lost"}]

(* The calls of the open transaction.  A call that takes the catch because *)
(* a save failed is in no transaction any more.                            *)
In(c) == \/ call[c].pc \in {"begun", "body", "released", "drop"}
         \/ call[c].pc = "catch" /\ stack # <<>>

(* How far a call is with its children, its statements and its answer.     *)
CallOK(c) ==
    /\ call[c].pc = "idle" => call[c].name = 0 /\ told[c] = "nothing"
    /\ call[c].pc \in {"idle", "begun"} =>
           call[c].written = 0 /\ \A k \in Children(c) : call[k].pc = "idle"
    /\ call[c].pc \in {"released", "committed", "waiting", "saving"} \/ told[c] = "ok" =>
           call[c].written = Statements
    /\ told[c] = "ok" => call[c].pc = "done"
    /\ call[c].pc \in {"committed", "waiting", "saving"} => Top(c) /\ call[c].name = 0
    /\ call[c].pc = "catch" /\ stack = <<>> => Top(c) /\ call[c].name = 0
    /\ call[c].pc \in {"released", "drop"} => call[c].name # 0
CallInv == \A c \in Caller : CallOK(c)

NestInv ==
    /\ \A c \in Caller : Running(c) /\ ~Top(c) => call[Parent[c]].pc = "body"
    /\ \A b, c \in Caller :
           Running(b) /\ Running(c) /\ ~Top(b) /\ ~Top(c) /\ Parent[b] = Parent[c] => b = c
    /\ \A c \in Caller : In(c) => call[c].name <= seq /\ (call[c].name = 0 <=> Top(c))
    /\ \A b, c \in Caller : In(b) /\ In(c) /\ call[b].name = call[c].name => b = c
    /\ \A b, c \in Caller : In(b) /\ In(c) /\ call[b].name < call[c].name =>
           \E k \in Children(b) : Running(k) /\ call[k].name <= call[c].name

(* The frames are those of the calls that have not released theirs, and    *)
(* between transactions there is none.                                     *)
FrameInv ==
    /\ \A i, j \in DOMAIN stack : i < j => stack[i].name < stack[j].name
    /\ \A i \in DOMAIN stack : \E c \in Caller :
           In(c) /\ call[c].pc # "released" /\ call[c].name = stack[i].name
    /\ \A c \in Caller : In(c) => stack # <<>> /\ stack[1].name = 0
    /\ (\A c \in Caller : ~In(c) /\ call[c].pc # "committed") => depth = 0
    /\ \A c \in Caller : call[c].pc = "committed" =>
           stack = <<>> /\ \A d \in Caller \ {c} : call[d].pc \in {"idle", "saving", "waiting", "done"}

(* What a call has written, with what was answered to its children.        *)
Mine(c) == {<<c, i>> : i \in 1..call[c].written}
             \cup UNION {RowsOf(k) : k \in {k \in Children(c) : told[k] = "ok"}}

(* S is in the connection, and stays when a frame above n goes back.       *)
Safe(S, img, st, n) ==
    S \subseteq img /\ \A j \in DOMAIN st : st[j].name > n => S \subseteq st[j].before

Answered(c) == Top(c) /\ told[c] = "ok"
Nested(c) == call[c].pc \in {"begun", "body", "released"}
Live(c) == Nested(c) \/ call[c].pc \in {"committed", "waiting", "saving"} \/ Answered(c)
Level(c) == IF Nested(c) THEN call[c].name ELSE -1

RowsInv == \A c \in Caller : Live(c) => Safe(Mine(c), image, stack, Level(c))

(* What an answer promised is on the disk and in every image that is being *)
(* saved; an image holds what those want that asked for it or for an       *)
(* earlier one.                                                            *)
SaveInv ==
    /\ \A c \in Caller : Answered(c) =>
           Mine(c) \subseteq disk /\ \A i \in DOMAIN saves : Mine(c) \subseteq saves[i].rows
    /\ \A i, j \in DOMAIN saves : i <= j => Mine(saves[i].by) \subseteq saves[j].rows
    /\ \A i \in DOMAIN saves : call[saves[i].by].pc = "saving"
    /\ \A i, j \in DOMAIN saves : saves[i].by = saves[j].by => i = j

(* What the driver knows of its image: a native one needs no save.         *)
DriverInv ==
    IF Wasm THEN \A c \in Caller : call[c].pc = "committed" => dirty
            ELSE /\ ~dirty /\ saves = <<>> /\ disk = CommittedRows
                 /\ \A c \in Caller : call[c].pc \notin {"saving", "waiting"}

DbInv == DbTypes /\ CallInv /\ NestInv /\ FrameInv /\ RowsInv /\ SaveInv /\ DriverInv

-----------------------------------------------------------------------------
(* What every call looks like, and what Frame picks. *)
LEMMA CallShape ==
    ASSUME DbTypes, NEW c \in Caller
    PROVE  /\ call[c] = [pc |-> call[c].pc, name |-> call[c].name, written |-> call[c].written, awaits |-> call[c].awaits]
           /\ call[c].pc \in Steps /\ call[c].name \in Nat /\ call[c].written \in 0..Statements
BY DEF DbTypes, CallOf

LEMMA Numbers ==
    ASSUME DbTypes
    PROVE  \A c \in Caller : call[c].name \in Nat /\ call[c].written \in Nat
<1>1. Statements \in Nat
  BY TransactionAssumption
<1> QED
  BY <1>1 DEF DbTypes, CallOf

(* A statement of one call keeps the types of all. *)
LEMMA CallTypes ==
    ASSUME DbTypes, NEW c \in Caller, NEW rec \in CallOf, call' = [call EXCEPT ![c] = rec]
    PROVE  call' \in [Caller -> CallOf] /\ call'[c] = rec /\ \A d \in Caller \ {c} : call'[d] = call[d]
BY DEF DbTypes

LEMMA FrameFound ==
    ASSUME NEW n, IsOpen(n)
    PROVE  Frame(n) \in DOMAIN stack /\ stack[Frame(n)].name = n
BY DEF IsOpen, Frame

(* A call whose children have ended is the innermost, and so is one that   *)
(* has left its body.                                                      *)
LEMMA Innermost ==
    ASSUME DbTypes, NestInv, NEW c \in Caller, In(c), InBody(c) \/ call[c].pc # "body"
    PROVE  \A b \in Caller \ {c} : In(b) => call[b].name < call[c].name
<1> SUFFICES ASSUME NEW b \in Caller \ {c}, In(b), ~(call[b].name < call[c].name)
             PROVE  FALSE
  OBVIOUS
<1>1. call[b].name \in Nat /\ call[c].name \in Nat
  BY CallShape
<1>2. call[c].name < call[b].name
  BY <1>1 DEF NestInv
<1>3. PICK k \in Children(c) : Running(k)
  BY <1>2, TransactionAssumption DEF NestInv
<1>4. k \in Caller /\ Parent[k] = c /\ k # c /\ ~Top(k)
  BY <1>3 DEF Children, Top
<1>5. call[c].pc = "body"
  BY <1>3, <1>4 DEF NestInv
<1> QED
  BY <1>3, <1>5 DEF InBody

(* The outer call of a transaction is alone in it then. *)
LEMMA OuterIsAlone ==
    ASSUME DbTypes, NestInv, NEW c \in Caller, In(c), call[c].name = 0, InBody(c) \/ call[c].pc # "body"
    PROVE  \A b \in Caller \ {c} : ~In(b)
<1>1. \A b \in Caller \ {c} : In(b) => call[b].name < 0
  BY Innermost
<1>2. \A b \in Caller : ~(call[b].name < 0)
  BY Numbers
<1> QED
  BY <1>1, <1>2

(* No frame is above that of the innermost call. *)
LEMMA NothingAbove ==
    ASSUME DbTypes, NestInv, FrameInv, NEW c \in Caller, In(c), InBody(c) \/ call[c].pc # "body"
    PROVE  \A i \in DOMAIN stack : ~(stack[i].name > call[c].name)
<1> SUFFICES ASSUME NEW i \in DOMAIN stack PROVE ~(stack[i].name > call[c].name)
  OBVIOUS
<1>1. PICK b \in Caller : In(b) /\ call[b].name = stack[i].name
  BY DEF FrameInv
<1>2. call[b].name \in Nat /\ call[c].name \in Nat
  BY CallShape
<1>3. b = c \/ call[b].name < call[c].name
  BY <1>1, Innermost
<1> QED
  BY <1>1, <1>2, <1>3

(* Between transactions no call is in one. *)
LEMMA BetweenIsQuiet ==
    ASSUME DbTypes, NestInv, FrameInv, Between
    PROVE  /\ \A c \in Caller : ~In(c) /\ call[c].pc \notin {"committed", "catch"}
           /\ \A c \in Caller : Running(c) => Top(c)
           /\ stack = <<>> /\ depth = 0
<1>1. \A c \in Caller : ~In(c) /\ call[c].pc \notin {"committed", "catch"}
  BY DEF Between, In
<1>2. \A c \in Caller : call[c].pc # "body"
  BY DEF Between
<1>3. \A c \in Caller : Running(c) => Top(c)
  BY <1>2, TransactionAssumption DEF NestInv
<1>4. stack = <<>>
  <2> SUFFICES ASSUME stack # <<>> PROVE FALSE
    OBVIOUS
  <2>1. 1 \in DOMAIN stack
    BY DEF DbTypes
  <2> QED
    BY <1>1, <2>1 DEF FrameInv
<1>5. depth = 0
  BY <1>1 DEF FrameInv
<1> QED
  BY <1>1, <1>3, <1>4, <1>5

(* The rows of a transaction through what SQLite does. *)
LEMMA SafeGrows ==
    ASSUME NEW S, NEW img, NEW more, NEW st \in Seq(FrameOf), NEW n, NEW m \in 0..Len(st),
           Safe(S, img, st, n), img \subseteq more
    PROVE  Safe(S, more, st, n) /\ Safe(S, more, SubSeq(st, 1, m), n)
BY DEF Safe

LEMMA SafePush ==
    ASSUME NEW S, NEW img \in SUBSET Rows, NEW st \in Seq(FrameOf), NEW n, NEW name \in Nat, Safe(S, img, st, n)
    PROVE  Safe(S, img, Append(st, [name |-> name, before |-> img]), n)
BY DEF Safe, FrameOf

LEMMA SafeUndo ==
    ASSUME NEW S, NEW img, NEW st \in Seq(FrameOf), NEW n, NEW i \in DOMAIN st,
           Safe(S, img, st, n), st[i].name > n
    PROVE  Safe(S, st[i].before, SubSeq(st, 1, i), n) /\ Safe(S, st[i].before, <<>>, n)
BY DEF Safe

LEMMA SameMine ==
    ASSUME NEW c \in Caller, call'[c].written = call[c].written,
           \A k \in Children(c) : told'[k] = "ok" <=> told[k] = "ok"
    PROVE  Mine(c)' = Mine(c)
BY DEF Mine, Children

(* The step is one of c alone. *)
Only(c) == \A d \in Caller \ {c} : call'[d] = call[d] /\ told'[d] = told[d]
Leaves(c) == InBody(c) \/ call[c].pc # "body"

LEMMA CallsStay ==
    ASSUME CallInv, NEW c \in Caller, Only(c), CallOK(c)',
           call[c].pc # "idle" \/ Top(c) \/ call[Parent[c]].pc = "body",
           \A d \in Caller \ {c} : call[d].pc = "catch" /\ stack' = <<>> => stack = <<>>
    PROVE  CallInv'
<1> SUFFICES ASSUME NEW d \in Caller \ {c} PROVE CallOK(d)'
  BY DEF CallInv
<1>1. CallOK(d) /\ call'[d] = call[d] /\ told'[d] = told[d]
  BY DEF CallInv, Only
<1>2. ASSUME call[d].pc \in {"idle", "begun"}, NEW k \in Children(d) PROVE call'[k].pc = "idle"
  <2>1. k \in Caller /\ Parent[k] = d /\ call[k].pc = "idle"
    BY <1>1, <1>2 DEF CallOK, Children
  <2>2. k # c
    BY <1>2, <2>1 DEF Top
  <2> QED
    BY <2>1, <2>2 DEF Only
<1> QED
  BY <1>1, <1>2 DEF CallOK, Top, Children

(* The call of the step stays in the transaction. *)
LEMMA NestStays ==
    ASSUME DbTypes, NestInv, NEW c \in Caller, Only(c), In(c), call'[c].pc \notin {"idle", "done"},
           \A d \in Caller : In(d)' <=> In(d),
           call'[c].name = call[c].name, seq' = seq, InBody(c) \/ call[c].pc # "body" \/ call'[c].pc = "body"
    PROVE  NestInv'
<1>1. \A d \in Caller : call'[d].name = call[d].name
  BY DEF Only
<1>2. \A d \in Caller : Running(d)' <=> Running(d)
  BY DEF Only, Running, In
<1>3. ASSUME NEW k \in Caller, Running(k)', ~Top(k) PROVE call'[Parent[k]].pc = "body"
  <2>1. Running(k) /\ call[Parent[k]].pc = "body" /\ Parent[k] \in Caller
    BY <1>2, <1>3, TransactionAssumption DEF NestInv
  <2>2. CASE Parent[k] # c
    BY <2>1, <2>2 DEF Only
  <2>3. CASE Parent[k] = c
    <3>1. k \in Children(c)
      BY <1>3, <2>3 DEF Children, Top
    <3> QED
      BY <2>1, <2>3, <3>1 DEF InBody
  <2> QED
    BY <2>2, <2>3
<1> QED
  BY <1>1, <1>2, <1>3 DEF NestInv, Top, Children

(* The call of the step leaves the transaction, or was in none. *)
LEMMA NestLeaves ==
    ASSUME DbTypes, NestInv, NEW c \in Caller, Only(c), In(c) \/ Top(c), Leaves(c), ~In(c)',
           ~Running(c)' \/ Top(c), \A d \in Caller \ {c} : In(d)' => In(d), seq' = seq
    PROVE  NestInv'
<1>1. \A d \in Caller \ {c} : call'[d] = call[d]
  BY DEF Only
<1>2. \A d \in Caller \ {c} : Running(d)' <=> Running(d)
  BY <1>1 DEF Running
<1>3. ASSUME NEW k \in Caller, Running(k)', ~Top(k)
      PROVE  k # c /\ Running(k) /\ Parent[k] # c /\ call'[Parent[k]] = call[Parent[k]] /\ call[Parent[k]].pc = "body"
  <2>1. k # c /\ Running(k)
    BY <1>2, <1>3
  <2>2. call[Parent[k]].pc = "body" /\ Parent[k] \in Caller
    BY <1>3, <2>1, TransactionAssumption DEF NestInv
  <2>3. Parent[k] # c
    BY <2>1, <2>2 DEF Leaves, InBody, Children
  <2> QED
    BY <1>1, <2>1, <2>2, <2>3
<1>4. ASSUME NEW b \in Caller, NEW d \in Caller, In(b)', In(d)', call'[b].name < call'[d].name
      PROVE  \E k \in Children(b) : Running(k)' /\ call'[k].name <= call'[d].name
  <2>1. b # c /\ d # c /\ In(b) /\ In(d) /\ call[b].name < call[d].name /\ call'[d] = call[d]
    BY <1>1, <1>4
  <2>2. PICK k \in Children(b) : Running(k) /\ call[k].name <= call[d].name
    BY <2>1 DEF NestInv
  <2>3. k # c
    <3>1. CASE Top(c)
      BY <2>1, <2>2, <3>1 DEF Children, Top
    <3>2. CASE In(c)
      <4>1. call[d].name < call[c].name
        BY <2>1, <3>2, Innermost DEF Leaves
      <4>2. call[d].name \in Nat /\ call[c].name \in Nat
        BY <2>1, Numbers
      <4> QED
        BY <2>2, <4>1, <4>2
    <3> QED
      BY <3>1, <3>2
  <2>4. k \in Caller
    BY DEF Children
  <2> QED
    BY <1>1, <1>2, <2>1, <2>2, <2>3, <2>4
<1>5. \A b, d \in Caller : Running(b)' /\ Running(d)' /\ ~Top(b) /\ ~Top(d) /\ Parent[b] = Parent[d] => b = d
  BY <1>3 DEF NestInv
<1>6. \A b \in Caller : In(b)' => call'[b].name <= seq' /\ (call'[b].name = 0 <=> Top(b))
  BY <1>1 DEF NestInv
<1>7. \A b, d \in Caller : In(b)' /\ In(d)' /\ call'[b].name = call'[d].name => b = d
  BY <1>1 DEF NestInv
<1> QED
  BY <1>3, <1>4, <1>5, <1>6, <1>7 DEF NestInv, Top, Children

(* What the answers promised stays on the disk and in the images. *)
LEMMA SavesStay ==
    ASSUME DbTypes, SaveInv, saves' = saves,
           \A c \in Caller : Answered(c)' => Answered(c) /\ Mine(c)' = Mine(c) /\ Mine(c) \subseteq disk',
           \A c \in Caller : call[c].pc = "saving" => call'[c].pc = "saving" /\ Mine(c)' = Mine(c)
    PROVE  SaveInv'
<1>1. \A i \in DOMAIN saves : saves[i].by \in Caller /\ call[saves[i].by].pc = "saving"
  <2>1. \A i \in DOMAIN saves : saves[i] \in SaveOf
    <3>1. saves \in Seq(SaveOf)
      BY DEF DbTypes
    <3> QED
      BY <3>1
  <2> QED
    BY <2>1 DEF SaveInv, SaveOf
<1> QED
  BY <1>1 DEF SaveInv

(* A statement, as the driver sees it. *)
LEMMA ExecuteKeepsDriver ==
    ASSUME DriverInv, NEW img, NEW st, Execute(img, st), saves' = saves,
           st # <<>> => st[1].before = CommittedRows,
           \A c \in Caller : call'[c].pc \in {"saving", "waiting"} => call[c].pc \in {"saving", "waiting"}
    PROVE  DriverInv'
BY TransactionAssumption DEF DriverInv, Execute, CommittedRows

LEMMA ExecuteKeepsSaves ==
    ASSUME DbTypes, SaveInv, NEW img, NEW st, Execute(img, st), saves' = saves, RowsInv',
           \A c \in Caller : Answered(c)' => Answered(c) /\ Mine(c)' = Mine(c),
           \A c \in Caller : call[c].pc = "saving" => call'[c].pc = "saving" /\ Mine(c)' = Mine(c)
    PROVE  SaveInv'
<1>1. ASSUME NEW c \in Caller, Answered(c)' PROVE Mine(c) \subseteq disk'
  <2>1. Mine(c) \subseteq disk /\ Mine(c)' = Mine(c)
    BY <1>1 DEF SaveInv
  <2>2. Mine(c)' \subseteq image'
    BY <1>1 DEF RowsInv, Live, Safe
  <2> QED
    BY <2>1, <2>2 DEF Execute
<1> QED
  BY <1>1, SavesStay

-----------------------------------------------------------------------------
(* Database.transaction: how a call enters. *)
LEMMA BeginOuterKeeps ==
    ASSUME DbInv, Overlap = FALSE, NEW c \in Caller, BeginOuter(c)
    PROVE  DbInv'
<1> USE DEF DbInv
<1>1. call[c].pc = "idle" /\ call[c].name = 0 /\ call[c].written = 0 /\ told[c] = "nothing"
      /\ \A k \in Children(c) : call[k].pc = "idle"
  BY DEF BeginOuter, MayStart, CallInv, CallOK
<1>2. CASE Top(c)
  <2>1. Between
    BY <1>2 DEF BeginOuter, MayStart, MayInterleave
  <2>2. stack = <<>> /\ \A d \in Caller : ~In(d) /\ call[d].pc \notin {"committed", "catch"}
    BY <2>1, BetweenIsQuiet
  <2>3. \A d \in Caller : Running(d) => Top(d)
    BY <2>1, BetweenIsQuiet
  <2>4. /\ Execute(image, <<[name |-> 0, before |-> image]>>)
        /\ call' = [call EXCEPT ![c].pc = "begun"]
        /\ UNCHANGED <<told, depth, seq, saves, promise, spent>>
    BY <2>2 DEF BeginOuter, Goto
  <2>5. call'[c] = [call[c] EXCEPT !.pc = "begun"] /\ Only(c)
    BY <2>4 DEF DbTypes, Only
  <2>6. call'[c].pc = "begun" /\ call'[c].name = 0 /\ call'[c].written = 0
    BY <1>1, <2>5, CallShape
  <2>7. image' = image /\ stack' = <<[name |-> 0, before |-> image]>> /\ dirty' = Wasm /\ disk' = disk
    BY <2>4 DEF Execute
  <2>8. DbTypes'
    <3>1. image \subseteq Rows
      BY DEF DbTypes
    <3>2. stack' \in Seq(FrameOf)
      BY <2>7, <3>1 DEF FrameOf
    <3> QED
      BY <2>4, <2>7, <3>2, TransactionAssumption DEF DbTypes, CallOf, Steps
  <2>9. CallInv'
    <3>1. CallOK(c)'
      BY <1>1, <1>2, <2>4, <2>5, <2>6, <2>7 DEF CallOK, Children, Only
    <3> QED
      BY <1>2, <2>5, <2>7, <3>1, CallsStay
  <2>10. In(c)' /\ \A d \in Caller \ {c} : ~In(d)'
    BY <2>2, <2>5, <2>6 DEF In, Only
  <2>11. NestInv'
    <3>1. \A d \in Caller : Running(d)' => Top(d)
      BY <1>2, <2>3, <2>5 DEF Running, Only
    <3>2. seq \in Nat
      BY DEF DbTypes
    <3> QED
      BY <1>2, <2>4, <2>6, <2>10, <3>1, <3>2 DEF NestInv, Top
  <2>12. FrameInv'
    <3>1. DOMAIN stack' = {1} /\ stack' # <<>> /\ stack'[1].name = 0
      BY <2>7
    <3>2. \A d \in Caller : call'[d].pc # "committed"
      BY <2>2, <2>5, <2>6 DEF Only
    <3> QED
      BY <2>6, <2>10, <3>1, <3>2 DEF FrameInv
  <2>13. \A d \in Caller : Mine(d)' = Mine(d)
    BY <2>4, <2>5, <2>6, <1>1, SameMine DEF Only
  <2>14. RowsInv'
    <3> SUFFICES ASSUME NEW d \in Caller, Live(d)' PROVE Safe(Mine(d), image', stack', Level(d)')
      BY <2>13 DEF RowsInv
    <3>1. CASE d = c
      <4>1. Mine(c) = {}
        <5>1. \A k \in Children(c) : told[k] # "ok"
          BY <1>1 DEF CallInv, CallOK, Children
        <5> QED
          BY <1>1, <5>1 DEF Mine
      <4> QED
        BY <3>1, <4>1 DEF Safe
    <3>2. CASE d # c
      <4>1. Live(d) /\ Level(d)' = -1 /\ Level(d) = -1
        BY <2>2, <2>4, <2>5, <3>2 DEF Live, Level, Nested, Answered, Only, In
      <4>2. Safe(Mine(d), image, <<>>, -1)
        BY <2>2, <4>1 DEF RowsInv
      <4> QED
        BY <2>7, <4>1, <4>2 DEF Safe
    <3> QED
      BY <3>1, <3>2
  <2>15. SaveInv'
    BY <2>4, <2>5, <2>7, <2>13, <2>14, <1>1, ExecuteKeepsSaves DEF Answered, Only, Top
  <2>16. DriverInv'
    BY <2>2, <2>4, <2>5, <2>6, ExecuteKeepsDriver DEF Only, CommittedRows
  <2> QED
    BY <2>8, <2>9, <2>11, <2>12, <2>14, <2>15, <2>16
<1>3. CASE ~Top(c)
  <2>1. call[Parent[c]].pc = "body" /\ Parent[c] \in Caller
    BY <1>3, TransactionAssumption DEF BeginOuter, MayStart
  <2>2. stack # <<>>
    BY <2>1 DEF FrameInv, In
  <2>3. /\ call' = [call EXCEPT ![c].pc = "done"] /\ told' = [told EXCEPT ![c] = "error"]
        /\ UNCHANGED <<depth, seq, image, stack, disk, dirty, saves, promise, spent>>
    BY <2>2 DEF BeginOuter, Return, Goto
  <2>4. call'[c] = [call[c] EXCEPT !.pc = "done"] /\ told'[c] = "error" /\ Only(c)
    BY <2>3 DEF DbTypes, Only
  <2>5. call'[c].pc = "done" /\ call'[c].name = 0 /\ call'[c].written = 0
    BY <1>1, <2>4, CallShape
  <2>6. DbTypes'
    BY <2>3 DEF DbTypes, CallOf, Steps
  <2>7. CallInv'
    <3>1. CallOK(c)'
      BY <2>4, <2>5 DEF CallOK
    <3> QED
      BY <2>1, <2>3, <2>4, <3>1, CallsStay
  <2>8. \A d \in Caller : In(d)' <=> In(d)
    BY <1>1, <2>3, <2>4, <2>5 DEF In, Only
  <2>9. \A d \in Caller : (Running(d)' <=> Running(d)) /\ call'[d].name = call[d].name
                           /\ (call[d].pc = "body" => call'[d].pc = "body")
    BY <1>1, <2>4, <2>5 DEF Running, Only
  <2>10. NestInv'
    BY <2>3, <2>8, <2>9, TransactionAssumption DEF NestInv, Top, Children
  <2>11. FrameInv'
    <3>1. \A d \in Caller : /\ call'[d].pc = "committed" <=> call[d].pc = "committed"
                            /\ call'[d].pc = "released" <=> call[d].pc = "released"
      BY <1>1, <2>4, <2>5 DEF Only
    <3>2. In(Parent[c])
      BY <2>1 DEF In
    <3>3. \A d \in Caller : call[d].pc # "committed"
      BY <2>2 DEF FrameInv
    <3> QED
      BY <2>3, <2>8, <2>9, <3>1, <3>2, <3>3, <2>1 DEF FrameInv
  <2>12. \A d \in Caller : Mine(d)' = Mine(d)
    BY <1>1, <2>4, <2>5, SameMine DEF Only, Children
  <2>13. RowsInv'
    BY <2>3, <2>4, <2>5, <2>12 DEF RowsInv, Live, Level, Nested, Answered, Only, Top
  <2>14. SaveInv'
    BY <1>1, <2>3, <2>4, <2>5, <2>12, SavesStay DEF Answered, Only, Top, SaveInv
  <2>15. DriverInv'
    BY <2>3, <2>4, <2>5 DEF DriverInv, Only, CommittedRows
  <2> QED
    BY <2>6, <2>7, <2>10, <2>11, <2>13, <2>14, <2>15
<1> QED
  BY <1>2, <1>3

LEMMA BeginNestedKeeps ==
    ASSUME DbInv, Overlap = FALSE, NEW c \in Caller, BeginNested(c)
    PROVE  DbInv'
<1> USE DEF DbInv
<1> DEFINE p == Parent[c]
<1>1. call[c].pc = "idle" /\ call[c].name = 0 /\ call[c].written = 0 /\ told[c] = "nothing"
      /\ \A k \in Children(c) : call[k].pc = "idle"
  BY DEF BeginNested, MayStart, CallInv, CallOK
<1>2. ~Top(c)
  BY BetweenIsQuiet DEF BeginNested, MayStart, MayInterleave
<1>3. p \in Caller /\ p # c /\ call[p].pc = "body" /\ InBody(p) /\ In(p)
  BY <1>2, TransactionAssumption DEF BeginNested, MayStart, InBody, In, Top
<1>4. /\ seq' = seq + 1 /\ image' = image /\ stack' = Append(stack, [name |-> seq + 1, before |-> image])
      /\ call' = [call EXCEPT ![c].pc = "begun", ![c].name = seq + 1]
      /\ Execute(image, Append(stack, [name |-> seq + 1, before |-> image]))
      /\ UNCHANGED <<depth, saves, promise, told, spent>>
  BY DEF BeginNested, Execute
<1>5. call'[c] = [call[c] EXCEPT !.pc = "begun", !.name = seq + 1] /\ Only(c)
  BY <1>4 DEF DbTypes, Only
<1>6. call'[c].pc = "begun" /\ call'[c].name = seq + 1 /\ call'[c].written = 0
  BY <1>1, <1>5, CallShape
<1>7. seq \in Nat /\ stack \in Seq(FrameOf) /\ stack # <<>>
  BY <1>3 DEF DbTypes, FrameInv
<1>8. stack' # <<>> /\ Len(stack') = Len(stack) + 1 /\ stack'[1] = stack[1]
      /\ \A i \in DOMAIN stack : stack'[i] = stack[i]
  BY <1>4, <1>7
<1>9. disk' = disk /\ dirty' = Wasm
  BY <1>4, <1>8 DEF Execute
<1>10. DbTypes'
  <2>1. image \subseteq Rows
    BY DEF DbTypes
  <2>2. stack' \in Seq(FrameOf)
    BY <1>4, <1>7, <2>1 DEF FrameOf
  <2>3. call' \in [Caller -> CallOf]
    <3>1. seq + 1 \in Nat
      BY <1>7
    <3> QED
      BY <1>4, <3>1 DEF DbTypes, CallOf, Steps
  <2> QED
    BY <1>4, <1>7, <1>9, <2>2, <2>3, TransactionAssumption DEF DbTypes
<1>11. CallInv'
  <2>1. CallOK(c)'
    BY <1>1, <1>4, <1>5, <1>6 DEF CallOK, Children, Only
  <2> QED
    BY <1>3, <1>5, <1>8, <2>1, CallsStay
<1>12. In(c)' /\ \A d \in Caller \ {c} : In(d)' <=> In(d)
  BY <1>5, <1>6, <1>7, <1>8 DEF In, Only
<1>13. \A d \in Caller : In(d) => call[d].name <= seq
  BY DEF NestInv
<1>14. \A d \in Caller \ {c} : call'[d] = call[d] /\ (Running(d)' <=> Running(d))
  BY <1>5 DEF Running, Only
<1>15. NestInv'
  <2>1. ASSUME NEW k \in Caller, Running(k)', ~Top(k) PROVE call'[Parent[k]].pc = "body"
    <3>1. CASE k = c
      BY <1>3, <1>14, <3>1
    <3>2. CASE k # c
      <4>1. call[Parent[k]].pc = "body" /\ Parent[k] \in Caller
        BY <1>14, <2>1, <3>2, TransactionAssumption DEF NestInv
      <4> QED
        BY <1>1, <1>14, <4>1
    <3> QED
      BY <3>1, <3>2
  <2>2. ASSUME NEW b \in Caller, NEW d \in Caller, Running(b)', Running(d)', ~Top(b), ~Top(d), Parent[b] = Parent[d]
        PROVE  b = d
    <3>1. \A k \in Caller \ {c} : Running(k) /\ ~Top(k) => Parent[k] # p
      BY <1>3 DEF InBody, Children, Top
    <3> QED
      BY <1>14, <2>2, <3>1 DEF NestInv
  <2>3. ASSUME NEW d \in Caller, In(d)' PROVE call'[d].name <= seq' /\ (call'[d].name = 0 <=> Top(d))
    <3>1. CASE d = c
      BY <1>2, <1>4, <1>6, <1>7, <3>1
    <3>2. CASE d # c
      <4>1. call[d].name <= seq /\ (call[d].name = 0 <=> Top(d)) /\ call[d].name \in Nat
        BY <1>12, <2>3, <3>2, Numbers DEF NestInv
      <4>2. call'[d].name = call[d].name /\ seq' = seq + 1
        BY <1>4, <1>14, <3>2
      <4> QED
        BY <1>7, <4>1, <4>2
    <3> QED
      BY <3>1, <3>2
  <2>4. ASSUME NEW b \in Caller, NEW d \in Caller, In(b)', In(d)', call'[b].name = call'[d].name
        PROVE  b = d
    <3>1. \A k \in Caller \ {c} : In(k)' => In(k) /\ call'[k].name = call[k].name /\ call'[k].name # seq + 1
      BY <1>7, <1>12, <1>13, <1>14, Numbers
    <3> QED
      BY <1>6, <2>4, <3>1 DEF NestInv
  <2>5. ASSUME NEW b \in Caller, NEW d \in Caller, In(b)', In(d)', call'[b].name < call'[d].name
        PROVE  \E k \in Children(b) : Running(k)' /\ call'[k].name <= call'[d].name
    <3>1. b # c
      <4>1. \A k \in Caller \ {c} : In(k)' => ~(seq + 1 < call'[k].name)
        BY <1>7, <1>12, <1>13, <1>14, Numbers
      <4> QED
        BY <1>6, <1>7, <2>5, <4>1
    <3>2. CASE d # c
      <4>1. PICK k \in Children(b) : Running(k) /\ call[k].name <= call[d].name
        BY <1>12, <1>14, <2>5, <3>1, <3>2 DEF NestInv
      <4>2. k # c /\ k \in Caller
        BY <1>1, <4>1 DEF Running, Children
      <4> QED
        BY <1>14, <3>2, <4>1, <4>2
    <3>3. CASE d = c /\ b = p
      <4>1. c \in Children(b) /\ Running(c)'
        BY <1>3, <1>6, <3>3 DEF Children, Running
      <4> QED
        BY <1>6, <1>7, <3>3, <4>1
    <3>4. CASE d = c /\ b # p
      <4>1. call[b].name < call[p].name
        BY <1>3, <1>12, <2>5, <3>1, <3>4, Innermost
      <4>2. PICK k \in Children(b) : Running(k) /\ call[k].name <= call[p].name
        BY <1>3, <1>12, <2>5, <3>1, <4>1 DEF NestInv
      <4>3. k # c /\ k \in Caller
        BY <1>1, <4>2 DEF Running, Children
      <4>4. call[k].name <= seq + 1
        <5>1. call[k].name \in Nat /\ call[p].name \in Nat /\ call[p].name <= seq
          BY <1>3, <1>13, <4>3, Numbers
        <5> QED
          BY <1>7, <4>2, <5>1
      <4> QED
        BY <1>6, <1>14, <3>4, <4>2, <4>3, <4>4
    <3> QED
      BY <3>2, <3>3, <3>4
  <2> QED
    BY <2>1, <2>2, <2>3, <2>4, <2>5 DEF NestInv, Top, Children
<1>16. FrameInv'
  <2>1. \A i \in DOMAIN stack : stack[i].name <= seq
    BY <1>13 DEF FrameInv
  <2>2. \A i \in DOMAIN stack : stack[i].name \in Nat
    <3>1. \A i \in DOMAIN stack : stack[i] \in FrameOf
      BY <1>7
    <3> QED
      BY <3>1 DEF FrameOf
  <2>3. DOMAIN stack' = DOMAIN stack \cup {Len(stack) + 1} /\ stack'[Len(stack) + 1].name = seq + 1
    BY <1>4, <1>7
  <2>4. \A i, j \in DOMAIN stack' : i < j => stack'[i].name < stack'[j].name
    BY <1>7, <1>8, <2>1, <2>2, <2>3 DEF FrameInv
  <2>5. \A i \in DOMAIN stack' : \E d \in Caller :
            In(d)' /\ call'[d].pc # "released" /\ call'[d].name = stack'[i].name
    <3> SUFFICES ASSUME NEW i \in DOMAIN stack'
                 PROVE  \E d \in Caller : In(d)' /\ call'[d].pc # "released" /\ call'[d].name = stack'[i].name
      OBVIOUS
    <3>1. CASE i = Len(stack) + 1
      BY <1>6, <1>12, <2>3, <3>1
    <3>2. CASE i \in DOMAIN stack
      <4>1. PICK d \in Caller : In(d) /\ call[d].pc # "released" /\ call[d].name = stack[i].name
        BY <3>2 DEF FrameInv
      <4>2. d # c
        BY <1>1, <4>1 DEF In
      <4> QED
        BY <1>8, <1>12, <1>14, <3>2, <4>1, <4>2
    <3> QED
      BY <2>3, <3>1, <3>2
  <2>6. \A d \in Caller : call[d].pc # "committed"
    BY <1>7 DEF FrameInv
  <2>7. stack'[1].name = 0
    BY <1>3, <1>8 DEF FrameInv
  <2> QED
    BY <1>6, <1>8, <1>12, <1>14, <2>4, <2>5, <2>6, <2>7 DEF FrameInv
<1>17. \A d \in Caller : Mine(d)' = Mine(d)
  BY <1>1, <1>4, <1>5, <1>6, SameMine DEF Only
<1>18. RowsInv'
  <2> SUFFICES ASSUME NEW d \in Caller, Live(d)' PROVE Safe(Mine(d), image', stack', Level(d)')
    BY <1>17 DEF RowsInv
  <2>1. CASE d = c
    <3>1. \A k \in Children(c) : told[k] # "ok"
      BY <1>1 DEF CallInv, CallOK, Children
    <3>2. Mine(c) = {}
      BY <1>1, <3>1 DEF Mine
    <3> QED
      BY <2>1, <3>2 DEF Safe
  <2>2. CASE d # c
    <3>1. Live(d) /\ Level(d)' = Level(d)
      <4>1. call'[d] = call[d] /\ told' = told
        BY <1>4, <1>14, <2>2
      <4> QED
        BY <4>1 DEF Live, Level, Nested, Answered, Top
    <3>2. Safe(Mine(d), image, stack, Level(d))
      BY <3>1 DEF RowsInv
    <3>3. image \in SUBSET Rows /\ seq + 1 \in Nat
      BY <1>7 DEF DbTypes
    <3> QED
      BY <1>4, <1>7, <3>1, <3>2, <3>3, SafePush
  <2> QED
    BY <2>1, <2>2
<1>19. SaveInv'
  <2>1. \A d \in Caller : call[d].pc = "saving" => call'[d].pc = "saving"
    BY <1>1, <1>14
  <2>2. \A d \in Caller : Answered(d)' => Answered(d)
    BY <1>4 DEF Answered, Top
  <2> QED
    BY <1>4, <1>17, <1>18, <2>1, <2>2, ExecuteKeepsSaves
<1>20. DriverInv'
  <2>1. stack'[1].before = CommittedRows
    BY <1>7, <1>8 DEF CommittedRows
  <2>2. \A d \in Caller : call'[d].pc \in {"saving", "waiting"} => call[d].pc \in {"saving", "waiting"}
    BY <1>6, <1>14
  <2> QED
    BY <1>4, <2>1, <2>2, ExecuteKeepsDriver
<1> QED
  BY <1>10, <1>11, <1>15, <1>16, <1>18, <1>19, <1>20

LEMMA EnteredKeeps ==
    ASSUME DbInv, NEW c \in Caller, Entered(c)
    PROVE  DbInv'
<1> USE DEF DbInv
<1>1. /\ call' = [call EXCEPT ![c].pc = "body"] /\ depth' \in Int
      /\ UNCHANGED <<seq, image, stack, disk, dirty, saves, promise, told>>
  BY DEF Entered, Goto, driver, DbTypes
<1>2. call'[c] = [call[c] EXCEPT !.pc = "body"] /\ Only(c)
  BY <1>1 DEF DbTypes, Only
<1>3. call[c].pc = "begun" /\ call'[c].pc = "body" /\ call'[c].name = call[c].name
      /\ call'[c].written = call[c].written
  BY <1>2, CallShape DEF Entered
<1>4. DbTypes'
  BY <1>1 DEF DbTypes, CallOf, Steps
<1>5. CallInv'
  <2>1. CallOK(c)
    BY DEF CallInv
  <2>2. CallOK(c)'
    BY <1>1, <1>3, <2>1 DEF CallOK
  <2> QED
    BY <1>1, <1>2, <1>3, <2>2, CallsStay
<1>6. In(c) /\ \A d \in Caller : In(d)' <=> In(d)
  BY <1>1, <1>2, <1>3 DEF In, Only
<1>7. NestInv'
  BY <1>1, <1>2, <1>3, <1>6, NestStays
<1>8. FrameInv'
  <2>1. \A d \in Caller : call'[d].name = call[d].name
    BY <1>2, <1>3 DEF Only
  <2>2. \A d \in Caller : (call'[d].pc = "released" <=> call[d].pc = "released")
                           /\ (call'[d].pc = "committed" <=> call[d].pc = "committed")
    BY <1>2, <1>3 DEF Only
  <2>3. \A d \in Caller : call[d].pc # "committed"
    BY <1>6 DEF FrameInv
  <2> QED
    BY <1>1, <1>6, <2>1, <2>2, <2>3 DEF FrameInv
<1>9. \A d \in Caller : Mine(d)' = Mine(d)
  BY <1>1, <1>2, <1>3, SameMine DEF Only
<1>10. RowsInv'
  <2>1. \A d \in Caller : (Live(d)' <=> Live(d)) /\ Level(d)' = Level(d)
    BY <1>1, <1>2, <1>3 DEF Live, Level, Nested, Answered, Only, Top
  <2> QED
    BY <1>1, <1>9, <2>1 DEF RowsInv
<1>11. SaveInv'
  BY <1>1, <1>2, <1>3, <1>9, SavesStay DEF Answered, Only, Top, SaveInv
<1>12. DriverInv'
  BY <1>1, <1>2, <1>3 DEF DriverInv, Only, CommittedRows
<1> QED
  BY <1>4, <1>5, <1>7, <1>8, <1>10, <1>11, <1>12

LEMMA WriteKeeps ==
    ASSUME DbInv, NEW c \in Caller, Write(c)
    PROVE  DbInv'
<1> USE DEF DbInv
<1> DEFINE new == <<c, call[c].written + 1>>
<1>1. /\ call' = [call EXCEPT ![c].written = @ + 1]
      /\ Execute(image \cup {new}, stack) /\ image' = image \cup {new} /\ stack' = stack
      /\ UNCHANGED <<depth, seq, saves, promise, told>>
  BY DEF Write, Execute
<1>2. call'[c] = [call[c] EXCEPT !.written = @ + 1] /\ Only(c)
  BY <1>1 DEF DbTypes, Only
<1>3. /\ call[c].pc = "body" /\ InBody(c) /\ call'[c].pc = "body" /\ call'[c].name = call[c].name
      /\ call'[c].written = call[c].written + 1 /\ call[c].written \in Nat /\ call'[c].written \in 1..Statements
  <2>1. call[c].pc = "body" /\ InBody(c) /\ call[c].written < Statements
    BY DEF Write, InBody
  <2>2. call[c].written \in Nat /\ Statements \in Nat
    BY Numbers, TransactionAssumption
  <2>3. call'[c].pc = "body" /\ call'[c].name = call[c].name /\ call'[c].written = call[c].written + 1
    BY <1>2, <2>1, CallShape
  <2> QED
    BY <2>1, <2>2, <2>3
<1>4. new \in Rows
  <2>1. new \in RowsOf(c)
    BY <1>3 DEF RowsOf
  <2> QED
    BY <2>1 DEF Rows
<1>5. stack # <<>>
  BY <1>3 DEF FrameInv, In
<1>6. disk' = disk /\ dirty' = Wasm
  BY <1>1, <1>5 DEF Execute
<1>7. DbTypes'
  <2>1. call' \in [Caller -> CallOf]
    <3>1. call[c].written + 1 \in 0..Statements
      BY <1>3
    <3> QED
      BY <1>1, <3>1 DEF DbTypes, CallOf
  <2> QED
    BY <1>1, <1>4, <1>6, <2>1, TransactionAssumption DEF DbTypes
<1>8. CallInv'
  <2>1. CallOK(c)
    BY DEF CallInv
  <2>2. CallOK(c)'
    BY <1>1, <1>3, <2>1 DEF CallOK
  <2> QED
    BY <1>1, <1>2, <1>3, <2>2, CallsStay
<1>9. In(c) /\ \A d \in Caller : In(d)' <=> In(d)
  BY <1>1, <1>2, <1>3 DEF In, Only
<1>10. NestInv'
  BY <1>1, <1>2, <1>3, <1>9, NestStays
<1>11. FrameInv'
  <2>1. \A d \in Caller : call'[d].name = call[d].name /\ call'[d].pc = call[d].pc
    BY <1>2, <1>3 DEF Only
  <2> QED
    BY <1>1, <1>9, <2>1 DEF FrameInv
<1>12. \A d \in Caller \ {c} : Mine(d)' = Mine(d)
  BY <1>1, <1>2, SameMine DEF Only
<1>13. Mine(c)' = Mine(c) \cup {new}
  <2>1. 1..(call[c].written + 1) = (1..call[c].written) \cup {call[c].written + 1}
    BY <1>3
  <2> QED
    BY <1>1, <1>3, <2>1 DEF Mine, Children
<1>14. \A d \in Caller : (Live(d)' <=> Live(d)) /\ Level(d)' = Level(d) /\ (Answered(d)' <=> Answered(d))
  BY <1>1, <1>2, <1>3 DEF Live, Level, Nested, Answered, Only, Top
<1>15. RowsInv'
  <2> SUFFICES ASSUME NEW d \in Caller, Live(d)' PROVE Safe(Mine(d)', image', stack', Level(d)')
    BY DEF RowsInv
  <2>1. Safe(Mine(d), image, stack, Level(d))
    BY <1>14 DEF RowsInv
  <2>2. Safe(Mine(d), image', stack', Level(d)')
    BY <1>1, <1>14, <2>1 DEF Safe
  <2>3. CASE d # c
    BY <1>12, <2>2, <2>3
  <2>4. CASE d = c
    <3>1. Level(c) = call[c].name
      BY <1>3 DEF Level, Nested
    <3>2. \A j \in DOMAIN stack : ~(stack[j].name > Level(c))
      BY <1>3, <1>9, <3>1, NothingAbove
    <3> QED
      BY <1>1, <1>13, <1>14, <2>2, <2>4, <3>2 DEF Safe
  <2> QED
    BY <2>3, <2>4
<1>16. ~Answered(c)
  BY <1>3 DEF CallInv, CallOK, Answered
<1>17. SaveInv'
  BY <1>1, <1>2, <1>3, <1>12, <1>14, <1>15, <1>16, ExecuteKeepsSaves DEF Only
<1>18. DriverInv'
  BY <1>1, <1>2, <1>3, <1>5, ExecuteKeepsDriver DEF Only, CommittedRows
<1> QED
  BY <1>7, <1>8, <1>10, <1>11, <1>15, <1>17, <1>18

LEMMA ThrowKeeps ==
    ASSUME DbInv, NEW c \in Caller, Throw(c)
    PROVE  DbInv'
<1> USE DEF DbInv
<1>1. /\ call' = [call EXCEPT ![c].pc = "catch"]
      /\ UNCHANGED <<depth, seq, image, stack, disk, dirty, saves, promise, told>>
  BY DEF Throw, Goto, driver
<1>2. call'[c] = [call[c] EXCEPT !.pc = "catch"] /\ Only(c)
  BY <1>1 DEF DbTypes, Only
<1>3. call[c].pc = "body" /\ InBody(c) /\ call'[c].pc = "catch" /\ call'[c].name = call[c].name
      /\ call'[c].written = call[c].written
  BY <1>2, CallShape DEF Throw, InBody
<1>4. stack # <<>> /\ In(c)
  BY <1>3 DEF FrameInv, In
<1>5. DbTypes'
  BY <1>1 DEF DbTypes, CallOf, Steps
<1>6. CallInv'
  <2>1. CallOK(c)
    BY DEF CallInv
  <2>2. CallOK(c)'
    BY <1>1, <1>3, <1>4, <2>1 DEF CallOK
  <2> QED
    BY <1>1, <1>2, <1>3, <2>2, CallsStay
<1>7. \A d \in Caller : In(d)' <=> In(d)
  BY <1>1, <1>2, <1>3, <1>4 DEF In, Only
<1>8. NestInv'
  BY <1>1, <1>2, <1>3, <1>4, <1>7, NestStays
<1>9. FrameInv'
  <2>1. \A d \in Caller : call'[d].name = call[d].name
    BY <1>2, <1>3 DEF Only
  <2>2. \A d \in Caller : (call'[d].pc = "released" <=> call[d].pc = "released")
                           /\ (call'[d].pc = "committed" <=> call[d].pc = "committed")
    BY <1>2, <1>3 DEF Only
  <2>3. \A d \in Caller : call[d].pc # "committed"
    BY <1>4 DEF FrameInv
  <2> QED
    BY <1>1, <1>4, <1>7, <2>1, <2>2, <2>3 DEF FrameInv
<1>10. \A d \in Caller : Mine(d)' = Mine(d)
  BY <1>1, <1>2, <1>3, SameMine DEF Only
<1>11. RowsInv'
  <2>1. \A d \in Caller : Live(d)' => Live(d) /\ Level(d)' = Level(d)
    BY <1>1, <1>2, <1>3 DEF Live, Level, Nested, Answered, Only, Top, CallInv, CallOK
  <2> QED
    BY <1>1, <1>10, <2>1 DEF RowsInv
<1>12. SaveInv'
  BY <1>1, <1>2, <1>3, <1>10, SavesStay DEF Answered, Only, Top, SaveInv
<1>13. DriverInv'
  BY <1>1, <1>2, <1>3 DEF DriverInv, Only, CommittedRows
<1> QED
  BY <1>5, <1>6, <1>8, <1>9, <1>11, <1>12, <1>13

-----------------------------------------------------------------------------
(* How a call ends its frame. *)
LEMMA CommitKeeps ==
    ASSUME DbInv, NEW c \in Caller, Commit(c)
    PROVE  DbInv'
<1> USE DEF DbInv
<1>1. call[c].pc = "body" /\ InBody(c) /\ call[c].name = 0 /\ call[c].written = Statements
  BY DEF Commit, InBody
<1>2. stack # <<>> /\ In(c) /\ stack \in Seq(FrameOf)
  BY <1>1 DEF FrameInv, In, DbTypes
<1>3. /\ Execute(image, <<>>) /\ call' = [call EXCEPT ![c].pc = "committed"]
      /\ image' = image /\ stack' = <<>> /\ dirty' = Wasm
      /\ UNCHANGED <<depth, seq, saves, promise, told>>
  BY <1>2 DEF Commit, Goto, Execute
<1>4. call'[c] = [call[c] EXCEPT !.pc = "committed"] /\ Only(c)
  BY <1>3 DEF DbTypes, Only
<1>5. call'[c].pc = "committed" /\ call'[c].name = 0 /\ call'[c].written = Statements
  BY <1>1, <1>4, CallShape
<1>6. \A d \in Caller \ {c} : ~In(d)
  BY <1>1, <1>2, OuterIsAlone
<1>7. \A d \in Caller \ {c} : call[d].pc \in {"idle", "saving", "waiting", "done"}
  <2>1. \A d \in Caller : call[d].pc # "committed"
    BY <1>2 DEF FrameInv
  <2> QED
    BY <1>2, <1>6, <2>1, CallShape DEF In, Steps
<1>8. Top(c)
  BY <1>1, <1>2 DEF NestInv
<1>9. DbTypes'
  <2>1. disk' \subseteq Rows /\ stack' \in Seq(FrameOf)
    BY <1>3 DEF DbTypes, Execute
  <2> QED
    BY <1>3, <2>1, TransactionAssumption DEF DbTypes, CallOf, Steps
<1>10. CallInv'
  <2>1. CallOK(c)
    BY DEF CallInv
  <2>2. CallOK(c)'
    BY <1>1, <1>3, <1>5, <1>8, <2>1 DEF CallOK, Top
  <2> QED
    BY <1>4, <1>7, <1>8, <2>2, CallsStay
<1>11. \A d \in Caller : ~In(d)'
  BY <1>4, <1>5, <1>7 DEF In, Only
<1>12. NestInv'
  BY <1>1, <1>3, <1>4, <1>8, <1>11, NestLeaves DEF Leaves
<1>13. FrameInv'
  BY <1>3, <1>4, <1>5, <1>7, <1>11 DEF FrameInv, Only
<1>14. \A d \in Caller : Mine(d)' = Mine(d)
  BY <1>1, <1>3, <1>4, <1>5, SameMine DEF Only
<1>15. RowsInv'
  <2> SUFFICES ASSUME NEW d \in Caller, Live(d)' PROVE Mine(d) \subseteq image
    BY <1>3, <1>14 DEF RowsInv, Safe
  <2>1. Live(d)
    BY <1>1, <1>3, <1>4 DEF Live, Nested, Answered, Only, Top
  <2> QED
    BY <2>1 DEF RowsInv, Safe
<1>16. SaveInv'
  BY <1>1, <1>3, <1>4, <1>14, <1>15, ExecuteKeepsSaves DEF Answered, Only, Top
<1>17. DriverInv'
  BY <1>3, <1>4, <1>5, ExecuteKeepsDriver DEF Only
<1> QED
  BY <1>9, <1>10, <1>12, <1>13, <1>15, <1>16, <1>17

(* A call that is in its savepoint is below the frame of the outer one. *)
LEMMA BelowIsTheOuter ==
    ASSUME DbInv, NEW c \in Caller, In(c), call[c].name # 0
    PROVE  /\ stack # <<>> /\ stack \in Seq(FrameOf) /\ stack[1].name = 0
           /\ ~Top(c) /\ call[c].name > 0
           /\ \E d \in Caller \ {c} : In(d) /\ call[d].pc # "released" /\ call[d].name = 0
           /\ \A d \in Caller : call[d].pc # "committed"
<1> USE DEF DbInv
<1>1. stack # <<>> /\ stack \in Seq(FrameOf) /\ stack[1].name = 0
  BY DEF FrameInv, DbTypes
<1>2. 1 \in DOMAIN stack
  BY <1>1
<1>3. \E d \in Caller : In(d) /\ call[d].pc # "released" /\ call[d].name = 0
  BY <1>1, <1>2 DEF FrameInv
<1>4. call[c].name > 0
  BY Numbers
<1>5. ~Top(c)
  BY DEF NestInv
<1>6. \A d \in Caller : call[d].pc # "committed"
  BY <1>1 DEF FrameInv
<1> QED
  BY <1>1, <1>3, <1>4, <1>5, <1>6

(* The frames that stay when the savepoint of c ends. *)
Below(c) == SubSeq(stack, 1, Frame(call[c].name) - 1)

LEMMA FramesBelow ==
    ASSUME DbInv, NEW c \in Caller, In(c), call[c].name # 0, IsOpen(call[c].name)
    PROVE  LET st == Below(c) IN
           /\ st \in Seq(FrameOf) /\ st # <<>> /\ st[1] = stack[1] /\ Frame(call[c].name) - 1 \in 0..Len(stack)
           /\ DOMAIN st \subseteq DOMAIN stack /\ \A i \in DOMAIN st : st[i] = stack[i] /\ st[i].name # call[c].name
<1> DEFINE f == Frame(call[c].name)
           st == Below(c)
<1>1. f \in DOMAIN stack /\ stack[f].name = call[c].name
  BY FrameFound
<1>2. stack \in Seq(FrameOf) /\ stack # <<>> /\ stack[1].name = 0
  BY BelowIsTheOuter
<1>3. f \in 1..Len(stack) /\ f # 1
  <2>1. DOMAIN stack = 1..Len(stack)
    BY <1>2
  <2> QED
    BY <1>1, <1>2, <2>1
<1>4. st \in Seq(FrameOf) /\ Len(st) = f - 1 /\ \A i \in 1..(f - 1) : st[i] = stack[i]
  BY <1>2, <1>3 DEF Below
<1>5. DOMAIN st = 1..(f - 1) /\ DOMAIN stack = 1..Len(stack)
  BY <1>2, <1>4
<1>6. \A i \in 1..(f - 1) : stack[i].name # call[c].name
  <2> SUFFICES ASSUME NEW i \in 1..(f - 1) PROVE stack[i].name # call[c].name
    OBVIOUS
  <2>1. i \in DOMAIN stack /\ i < f
    BY <1>3, <1>5
  <2>2. stack[i].name < stack[f].name
    BY <1>1, <2>1 DEF DbInv, FrameInv
  <2>3. call[c].name \in Nat
    BY Numbers DEF DbInv
  <2>4. stack[i] \in FrameOf
    BY <1>2, <2>1
  <2> QED
    BY <1>1, <2>2, <2>3, <2>4 DEF FrameOf
<1> QED
  BY <1>3, <1>4, <1>5, <1>6

LEMMA ReleaseKeeps ==
    ASSUME DbInv, NEW c \in Caller, Release(c)
    PROVE  DbInv'
<1> USE DEF DbInv
<1>1. call[c].pc = "body" /\ InBody(c) /\ call[c].name # 0 /\ call[c].written = Statements /\ In(c) /\ CallOK(c)
  BY DEF Release, InBody, In, CallInv
<1>2. /\ stack # <<>> /\ stack \in Seq(FrameOf) /\ stack[1].name = 0 /\ ~Top(c)
      /\ \A d \in Caller : call[d].pc # "committed"
  BY <1>1, BelowIsTheOuter
<1>3. CASE IsOpen(call[c].name)
  <2>1. /\ Execute(image, Below(c)) /\ call' = [call EXCEPT ![c].pc = "released"]
        /\ image' = image /\ stack' = Below(c)
        /\ UNCHANGED <<depth, seq, saves, promise, told>>
    BY <1>3 DEF Release, Goto, Execute, Below
  <2>2. /\ stack' \in Seq(FrameOf) /\ stack' # <<>> /\ stack'[1] = stack[1]
        /\ Frame(call[c].name) - 1 \in 0..Len(stack) /\ DOMAIN stack' \subseteq DOMAIN stack
        /\ \A i \in DOMAIN stack' : stack'[i] = stack[i] /\ stack'[i].name # call[c].name
    BY <1>1, <1>3, <2>1, FramesBelow
  <2>3. dirty' = Wasm /\ disk' = disk
    BY <2>1, <2>2 DEF Execute
  <2>4. call'[c] = [call[c] EXCEPT !.pc = "released"] /\ Only(c)
    BY <2>1 DEF DbTypes, Only
  <2>5. call'[c].pc = "released" /\ call'[c].name = call[c].name /\ call'[c].written = Statements
    BY <1>1, <2>4, CallShape
  <2>6. DbTypes'
    BY <2>1, <2>2, <2>3, TransactionAssumption DEF DbTypes, CallOf, Steps
  <2>7. CallInv'
    <3>1. CallOK(c)'
      BY <1>1, <2>1, <2>5 DEF CallOK
    <3> QED
      BY <1>1, <2>2, <2>4, <3>1, CallsStay
  <2>8. \A d \in Caller : In(d)' <=> In(d)
    BY <1>1, <1>2, <2>2, <2>4, <2>5 DEF In, Only
  <2>9. NestInv'
    BY <1>1, <2>1, <2>4, <2>5, <2>8, NestStays
  <2>10. FrameInv'
    <3>1. \A i, j \in DOMAIN stack' : i < j => stack'[i].name < stack'[j].name
      BY <2>2 DEF FrameInv
    <3>2. ASSUME NEW i \in DOMAIN stack'
          PROVE  \E d \in Caller : In(d)' /\ call'[d].pc # "released" /\ call'[d].name = stack'[i].name
      <4>1. PICK d \in Caller : In(d) /\ call[d].pc # "released" /\ call[d].name = stack[i].name
        BY <2>2 DEF FrameInv
      <4>2. d # c
        BY <2>2, <4>1
      <4> QED
        BY <2>2, <2>4, <2>8, <4>1, <4>2 DEF Only
    <3>3. \A d \in Caller : call'[d].pc # "committed"
      BY <1>2, <2>4, <2>5 DEF Only
    <3> QED
      BY <1>1, <1>2, <2>2, <2>8, <3>1, <3>2, <3>3 DEF FrameInv
  <2>11. \A d \in Caller : Mine(d)' = Mine(d)
    BY <1>1, <2>1, <2>4, <2>5, SameMine DEF Only
  <2>12. \A d \in Caller : (Live(d)' <=> Live(d)) /\ Level(d)' = Level(d) /\ (Answered(d)' <=> Answered(d))
    BY <1>1, <2>1, <2>4, <2>5 DEF Live, Level, Nested, Answered, Only, Top
  <2>13. RowsInv'
    <3> SUFFICES ASSUME NEW d \in Caller, Live(d)' PROVE Safe(Mine(d), image', stack', Level(d))
      BY <2>11, <2>12 DEF RowsInv
    <3>1. Safe(Mine(d), image, stack, Level(d))
      BY <2>12 DEF RowsInv
    <3> QED
      BY <2>1, <2>2, <3>1 DEF Safe
  <2>14. SaveInv'
    BY <1>1, <2>1, <2>4, <2>11, <2>12, <2>13, ExecuteKeepsSaves DEF Only
  <2>15. DriverInv'
    BY <1>2, <2>1, <2>2, <2>4, <2>5, ExecuteKeepsDriver DEF Only, CommittedRows
  <2> QED
    BY <2>6, <2>7, <2>9, <2>10, <2>13, <2>14, <2>15
<1>4. CASE ~IsOpen(call[c].name)
  <2>1. /\ call' = [call EXCEPT ![c].pc = "catch"]
        /\ UNCHANGED <<depth, seq, image, stack, disk, dirty, saves, promise, told>>
    BY <1>4 DEF Release, Goto
  <2>2. call'[c] = [call[c] EXCEPT !.pc = "catch"] /\ Only(c)
    BY <2>1 DEF DbTypes, Only
  <2>3. call'[c].pc = "catch" /\ call'[c].name = call[c].name /\ call'[c].written = call[c].written
    BY <2>2, CallShape
  <2>4. DbTypes'
    BY <2>1 DEF DbTypes, CallOf, Steps
  <2>5. CallInv'
    <3>1. CallOK(c)'
      BY <1>1, <1>2, <2>1, <2>3 DEF CallOK
    <3> QED
      BY <1>1, <2>1, <2>2, <3>1, CallsStay
  <2>6. \A d \in Caller : In(d)' <=> In(d)
    BY <1>1, <1>2, <2>1, <2>2, <2>3 DEF In, Only
  <2>7. NestInv'
    BY <1>1, <2>1, <2>2, <2>3, <2>6, NestStays
  <2>8. FrameInv'
    <3>1. \A d \in Caller : call'[d].name = call[d].name
      BY <2>2, <2>3 DEF Only
    <3>2. \A d \in Caller : (call'[d].pc = "released" <=> call[d].pc = "released") /\ call'[d].pc # "committed"
      BY <1>1, <1>2, <2>2, <2>3 DEF Only
    <3> QED
      BY <1>1, <2>1, <2>6, <3>1, <3>2 DEF FrameInv
  <2>9. \A d \in Caller : Mine(d)' = Mine(d)
    BY <2>1, <2>2, <2>3, SameMine DEF Only
  <2>10. RowsInv'
    <3>1. \A d \in Caller : Live(d)' => Live(d) /\ Level(d)' = Level(d)
      BY <1>1, <2>1, <2>2, <2>3 DEF Live, Level, Nested, Answered, Only, Top, CallOK
    <3> QED
      BY <2>1, <2>9, <3>1 DEF RowsInv
  <2>11. SaveInv'
    BY <1>1, <2>1, <2>2, <2>9, SavesStay DEF Answered, Only, Top, SaveInv
  <2>12. DriverInv'
    BY <2>1, <2>2, <2>3 DEF DriverInv, Only, CommittedRows
  <2> QED
    BY <2>4, <2>5, <2>7, <2>8, <2>10, <2>11, <2>12
<1> QED
  BY <1>3, <1>4

LEMMA ReleasedKeeps ==
    ASSUME DbInv, NEW c \in Caller, Released(c)
    PROVE  DbInv'
<1> USE DEF DbInv
<1> DEFINE p == Parent[c]
<1>1. call[c].pc = "released" /\ In(c) /\ CallOK(c) /\ call[c].name # 0 /\ call[c].written = Statements /\ Leaves(c)
  BY DEF Released, In, CallInv, CallOK, Leaves
<1>2. /\ stack # <<>> /\ stack \in Seq(FrameOf) /\ ~Top(c)
      /\ \E d \in Caller \ {c} : In(d) /\ call[d].pc # "released" /\ call[d].name = 0
      /\ \A d \in Caller : call[d].pc # "committed"
  BY <1>1, BelowIsTheOuter
<1>3. /\ call' = [call EXCEPT ![c].pc = "done"] /\ told' = [told EXCEPT ![c] = "ok"] /\ depth' = depth - 1
      /\ UNCHANGED <<seq, image, stack, disk, dirty, saves, promise>>
  BY DEF Released, Return, Goto, driver
<1>4. call'[c] = [call[c] EXCEPT !.pc = "done"] /\ told'[c] = "ok" /\ Only(c)
  BY <1>3 DEF DbTypes, Only
<1>5. call'[c].pc = "done" /\ call'[c].name = call[c].name /\ call'[c].written = Statements
  BY <1>1, <1>4, CallShape
<1>6. DbTypes'
  <2>1. depth' \in Int
    BY <1>3 DEF DbTypes
  <2>2. call' \in [Caller -> CallOf]
    BY <1>3 DEF DbTypes, CallOf, Steps
  <2> QED
    BY <1>3, <2>1, <2>2 DEF DbTypes
<1>7. CallInv'
  <2>1. CallOK(c)'
    BY <1>4, <1>5 DEF CallOK
  <2> QED
    BY <1>1, <1>3, <1>4, <2>1, CallsStay
<1>8. ~In(c)' /\ \A d \in Caller \ {c} : In(d)' <=> In(d)
  BY <1>3, <1>4, <1>5 DEF In, Only
<1>9. NestInv'
  BY <1>1, <1>3, <1>4, <1>5, <1>8, NestLeaves DEF Running
<1>10. FrameInv'
  <2>1. \A i \in DOMAIN stack : \E d \in Caller : In(d)' /\ call'[d].pc # "released" /\ call'[d].name = stack[i].name
    BY <1>1, <1>4, <1>8 DEF FrameInv, Only
  <2>2. \A d \in Caller : call'[d].pc # "committed"
    BY <1>2, <1>4, <1>5 DEF Only
  <2> QED
    BY <1>1, <1>2, <1>3, <1>8, <2>1, <2>2 DEF FrameInv
<1>11. p \in Caller /\ p # c /\ call[p].pc = "body" /\ In(p) /\ c \in Children(p)
  <2>1. p \in Caller /\ p # c
    BY <1>2, TransactionAssumption DEF Top
  <2>2. call[p].pc = "body"
    BY <1>1, <1>2 DEF NestInv, Running
  <2> QED
    BY <2>1, <2>2 DEF In, Children
<1>12. \A d \in Caller \ {p} : Mine(d)' = Mine(d)
  BY <1>3, <1>4, <1>5, <1>1, SameMine DEF Only, Children
<1>13. Mine(p)' = Mine(p) \cup RowsOf(c)
  <2>1. call'[p].written = call[p].written
    BY <1>4, <1>11 DEF Only
  <2>2. {k \in Children(p) : told'[k] = "ok"} = {k \in Children(p) : told[k] = "ok"} \cup {c}
    BY <1>4, <1>11 DEF Only, Children
  <2> QED
    BY <2>1, <2>2 DEF Mine, RowsOf, Children
<1>14. RowsOf(c) \subseteq image
  <2>1. Live(c)
    BY <1>1 DEF Live, Nested
  <2>2. Mine(c) \subseteq image
    BY <2>1 DEF RowsInv, Safe
  <2>3. RowsOf(c) \subseteq Mine(c)
    BY <1>1 DEF RowsOf, Mine
  <2> QED
    BY <2>2, <2>3
<1>15. \A j \in DOMAIN stack : ~(stack[j].name > call[p].name)
  <2> SUFFICES ASSUME NEW j \in DOMAIN stack, stack[j].name > call[p].name PROVE FALSE
    OBVIOUS
  <2>1. PICK d \in Caller : In(d) /\ call[d].pc # "released" /\ call[d].name = stack[j].name
    BY DEF FrameInv
  <2>2. d # c /\ call[p].name < call[d].name
    BY <1>1, <1>11, <2>1, Numbers
  <2>3. PICK k \in Children(p) : Running(k) /\ call[k].name <= call[d].name
    BY <1>11, <2>1, <2>2 DEF NestInv
  <2>4. k \in Caller /\ Parent[k] = p /\ ~Top(k)
    BY <2>3 DEF Children, Top
  <2>5. k = c
    BY <1>1, <1>2, <2>3, <2>4 DEF NestInv, Running
  <2>6. call[d].name < call[c].name
    BY <1>1, <2>1, <2>2, Innermost
  <2> QED
    BY <2>1, <2>3, <2>5, <2>6, Numbers
<1>16. \A d \in Caller : Live(d)' => Live(d) /\ Level(d)' = Level(d)
  BY <1>2, <1>4, <1>5 DEF Live, Level, Nested, Answered, Only, Top
<1>17. RowsInv'
  <2> SUFFICES ASSUME NEW d \in Caller, Live(d)' PROVE Safe(Mine(d)', image, stack, Level(d))
    BY <1>3, <1>16 DEF RowsInv
  <2>1. Safe(Mine(d), image, stack, Level(d))
    BY <1>16 DEF RowsInv
  <2>2. CASE d # p
    BY <1>12, <2>1, <2>2
  <2>3. CASE d = p
    <3>1. Level(p) = call[p].name
      BY <1>11 DEF Level, Nested
    <3> QED
      BY <1>13, <1>14, <1>15, <2>1, <2>3, <3>1 DEF Safe
  <2> QED
    BY <2>2, <2>3
<1>18. SaveInv'
  <2>1. \A d \in Caller : Answered(d)' => Answered(d) /\ d # p
    BY <1>2, <1>4, <1>11 DEF Answered, Only, Top, CallInv, CallOK
  <2>2. \A d \in Caller : call[d].pc = "saving" => call'[d].pc = "saving" /\ d # p
    BY <1>1, <1>4, <1>11 DEF Only
  <2> QED
    BY <1>3, <1>12, <2>1, <2>2, SavesStay DEF SaveInv
<1>19. DriverInv'
  BY <1>3, <1>4, <1>5 DEF DriverInv, Only, CommittedRows
<1> QED
  BY <1>6, <1>7, <1>9, <1>10, <1>17, <1>18, <1>19

(* A nested call ends with an error: what it wrote is undone already, its  *)
(* frame goes if it is still there.                                        *)
LEMMA LeavesWithError ==
    ASSUME DbInv, NEW c \in Caller, In(c), call[c].pc \in {"catch", "drop"}, call[c].name # 0,
           call' = [call EXCEPT ![c].pc = "done"], told' = [told EXCEPT ![c] = "error"],
           depth' \in Int, UNCHANGED <<seq, saves, promise>>,
           \/ IsOpen(call[c].name) /\ Execute(image, Below(c))
           \/ ~IsOpen(call[c].name) /\ UNCHANGED <<image, stack, disk, dirty>>
    PROVE  DbInv'
<1> USE DEF DbInv
<1>1. CallOK(c) /\ told[c] # "ok" /\ Leaves(c)
  BY DEF CallInv, CallOK, Leaves
<1>2. /\ stack # <<>> /\ stack \in Seq(FrameOf) /\ ~Top(c)
      /\ \E d \in Caller \ {c} : In(d) /\ call[d].pc # "released" /\ call[d].name = 0
      /\ \A d \in Caller : call[d].pc # "committed"
  BY BelowIsTheOuter
<1>3. call'[c] = [call[c] EXCEPT !.pc = "done"] /\ told'[c] = "error" /\ Only(c)
  BY DEF DbTypes, Only
<1>4. call'[c].pc = "done" /\ call'[c].name = call[c].name /\ call'[c].written = call[c].written
  BY <1>3, CallShape
<1>5. /\ stack' \in Seq(FrameOf) /\ stack' # <<>> /\ stack'[1] = stack[1]
      /\ DOMAIN stack' \subseteq DOMAIN stack
      /\ \A i \in DOMAIN stack' : stack'[i] = stack[i] /\ stack'[i].name # call[c].name
  <2>1. CASE IsOpen(call[c].name)
    <3>1. stack' = Below(c)
      BY <2>1 DEF Execute
    <3> QED
      BY <2>1, <3>1, FramesBelow
  <2>2. CASE ~IsOpen(call[c].name)
    BY <1>2, <2>2 DEF IsOpen
  <2> QED
    BY <2>1, <2>2
<1>6. image' = image /\ disk' = disk /\ (dirty' = Wasm \/ dirty' = dirty)
  BY <1>5 DEF Execute
<1>7. DbTypes'
  <2>1. call' \in [Caller -> CallOf]
    BY DEF DbTypes, CallOf, Steps
  <2> QED
    BY <1>5, <1>6, <2>1, TransactionAssumption DEF DbTypes
<1>8. CallInv'
  <2>1. CallOK(c)'
    BY <1>1, <1>3, <1>4 DEF CallOK
  <2> QED
    BY <1>3, <1>5, <2>1, CallsStay
<1>9. ~In(c)' /\ \A d \in Caller \ {c} : In(d)' <=> In(d)
  BY <1>2, <1>3, <1>4, <1>5 DEF In, Only
<1>10. NestInv'
  BY <1>1, <1>3, <1>4, <1>9, NestLeaves DEF Running
<1>11. FrameInv'
  <2>1. \A i, j \in DOMAIN stack' : i < j => stack'[i].name < stack'[j].name
    BY <1>5 DEF FrameInv
  <2>2. ASSUME NEW i \in DOMAIN stack'
        PROVE  \E d \in Caller : In(d)' /\ call'[d].pc # "released" /\ call'[d].name = stack'[i].name
    <3>1. PICK d \in Caller : In(d) /\ call[d].pc # "released" /\ call[d].name = stack[i].name
      BY <1>5 DEF FrameInv
    <3>2. d # c
      BY <1>5, <3>1
    <3> QED
      BY <1>3, <1>5, <1>9, <3>1, <3>2 DEF Only
  <2>3. \A d \in Caller : call'[d].pc # "committed"
    BY <1>2, <1>3, <1>4 DEF Only
  <2>4. stack[1].name = 0
    BY DEF FrameInv
  <2>5. \E d \in Caller : In(d)'
    BY <1>2, <1>9
  <2> QED
    BY <1>5, <2>1, <2>2, <2>3, <2>4, <2>5 DEF FrameInv
<1>12. \A d \in Caller : Mine(d)' = Mine(d)
  BY <1>1, <1>3, <1>4, SameMine DEF Only, Children
<1>13. \A d \in Caller : (Live(d)' => Live(d) /\ Level(d)' = Level(d)) /\ (Answered(d)' => Answered(d))
  BY <1>2, <1>3, <1>4 DEF Live, Level, Nested, Answered, Only, Top
<1>14. RowsInv'
  <2> SUFFICES ASSUME NEW d \in Caller, Live(d)' PROVE Safe(Mine(d), image, stack', Level(d))
    BY <1>6, <1>12, <1>13 DEF RowsInv
  <2>1. Safe(Mine(d), image, stack, Level(d))
    BY <1>13 DEF RowsInv
  <2> QED
    BY <1>5, <2>1 DEF Safe
<1>15. \A d \in Caller : call[d].pc = "saving" => call'[d].pc = "saving"
  BY <1>3 DEF Only
<1>16. SaveInv'
  BY <1>6, <1>12, <1>13, <1>15, SavesStay DEF SaveInv
<1>17. DriverInv'
  <2>1. \A d \in Caller : call'[d].pc \in {"saving", "waiting"} => call[d].pc \in {"saving", "waiting"}
    BY <1>3, <1>4 DEF Only
  <2>2. \A d \in Caller : call'[d].pc # "committed"
    BY <1>2, <1>3, <1>4 DEF Only
  <2>3. CommittedRows' = CommittedRows
    BY <1>2, <1>5 DEF CommittedRows
  <2> QED
    BY <1>6, <2>1, <2>2, <2>3, TransactionAssumption DEF DriverInv
<1> QED
  BY <1>7, <1>8, <1>10, <1>11, <1>14, <1>16, <1>17

-----------------------------------------------------------------------------
(* The catch of a call. *)
LEMMA RollbackKeeps ==
    ASSUME DbInv, NEW c \in Caller, Rollback(c)
    PROVE  DbInv'
<1> USE DEF DbInv
<1>1. call[c].pc = "catch" /\ call[c].name = 0 /\ CallOK(c) /\ told[c] # "ok" /\ Leaves(c)
  BY DEF Rollback, CallInv, CallOK, Leaves
<1>2. stack # <<>> => In(c) /\ stack[1].name = 0
  BY <1>1 DEF In, FrameInv
<1>3. Top(c)
  BY <1>1, <1>2 DEF CallOK, NestInv
<1>4. \A d \in Caller \ {c} : ~In(d)
  <2>1. CASE stack # <<>>
    BY <1>1, <1>2, <2>1, OuterIsAlone
  <2>2. CASE stack = <<>>
    BY <2>2 DEF FrameInv
  <2> QED
    BY <2>1, <2>2
<1>5. \A d \in Caller : call[d].pc # "committed"
  BY <1>1 DEF FrameInv
<1>6. /\ call' = [call EXCEPT ![c].pc = "done"] /\ told' = [told EXCEPT ![c] = "error"]
      /\ depth' = 0 /\ stack' = <<>> /\ image' = CommittedRows
      /\ UNCHANGED <<seq, saves, promise>>
      /\ IF stack # <<>> THEN Execute(CommittedRows, <<>>) ELSE UNCHANGED <<image, stack, disk, dirty>>
  BY DEF Rollback, Return, Goto, Execute, CommittedRows
<1>7. call'[c] = [call[c] EXCEPT !.pc = "done"] /\ told'[c] = "error" /\ Only(c)
  BY <1>6 DEF DbTypes, Only
<1>8. call'[c].pc = "done" /\ call'[c].name = call[c].name /\ call'[c].written = call[c].written
  BY <1>7, CallShape
<1>9. DbTypes'
  <2>1. CommittedRows \subseteq Rows
    <3>1. CASE stack = <<>>
      BY <3>1 DEF DbTypes, CommittedRows
    <3>2. CASE stack # <<>>
      <4>1. stack[1] \in FrameOf
        BY <3>2 DEF DbTypes
      <4> QED
        BY <3>2, <4>1 DEF FrameOf, CommittedRows
    <3> QED
      BY <3>1, <3>2
  <2>2. disk' \subseteq Rows /\ dirty' \in BOOLEAN /\ stack' \in Seq(FrameOf)
    BY <1>6, <2>1, TransactionAssumption DEF DbTypes, Execute
  <2>3. call' \in [Caller -> CallOf]
    BY <1>6 DEF DbTypes, CallOf, Steps
  <2> QED
    BY <1>6, <2>1, <2>2, <2>3 DEF DbTypes
<1>10. CallInv'
  <2>1. CallOK(c)'
    BY <1>1, <1>7, <1>8 DEF CallOK
  <2>2. \A d \in Caller \ {c} : call[d].pc = "catch" => stack = <<>>
    BY <1>4 DEF In
  <2> QED
    BY <1>1, <1>7, <2>1, <2>2, CallsStay
<1>11. \A d \in Caller : ~In(d)'
  BY <1>4, <1>6, <1>7, <1>8 DEF In, Only
<1>12. NestInv'
  BY <1>1, <1>3, <1>6, <1>7, <1>11, NestLeaves
<1>13. FrameInv'
  <2>1. \A d \in Caller : call'[d].pc # "committed"
    BY <1>5, <1>7, <1>8 DEF Only
  <2> QED
    BY <1>6, <1>11, <2>1 DEF FrameInv
<1>14. \A d \in Caller : Mine(d)' = Mine(d)
  BY <1>1, <1>7, <1>8, SameMine DEF Only, Children
<1>15. \A d \in Caller : (Live(d)' => Live(d) /\ d # c) /\ (Answered(d)' => Answered(d))
  BY <1>1, <1>7, <1>8 DEF Live, Nested, Answered, Only, Top
<1>16. RowsInv'
  <2> SUFFICES ASSUME NEW d \in Caller, Live(d)' PROVE Mine(d) \subseteq image'
    BY <1>6, <1>14 DEF RowsInv, Safe
  <2>1. Live(d) /\ d # c /\ Level(d) = -1
    BY <1>4, <1>15 DEF Level, Nested, In
  <2>2. Safe(Mine(d), image, stack, -1)
    BY <2>1 DEF RowsInv
  <2>3. CASE stack = <<>>
    BY <1>6, <2>2, <2>3 DEF Safe, CommittedRows
  <2>4. CASE stack # <<>>
    <3>1. 1 \in DOMAIN stack
      BY <2>4 DEF DbTypes
    <3>2. stack[1].name > -1
      BY <1>2, <2>4
    <3> QED
      BY <1>6, <2>2, <2>4, <3>1, <3>2 DEF Safe, CommittedRows
  <2> QED
    BY <2>3, <2>4
<1>17. \A d \in Caller : call[d].pc = "saving" => call'[d].pc = "saving"
  BY <1>1, <1>7 DEF Only
<1>18. SaveInv'
  <2>1. CASE stack # <<>>
    BY <1>6, <1>14, <1>15, <1>16, <1>17, <2>1, ExecuteKeepsSaves
  <2>2. CASE stack = <<>>
    BY <1>6, <1>14, <1>15, <1>17, <2>2, SavesStay DEF SaveInv
  <2> QED
    BY <2>1, <2>2
<1>19. DriverInv'
  <2>1. \A d \in Caller : call'[d].pc \in {"saving", "waiting"} => call[d].pc \in {"saving", "waiting"}
    BY <1>7, <1>8 DEF Only
  <2>2. \A d \in Caller : call'[d].pc # "committed"
    BY <1>5, <1>7, <1>8 DEF Only
  <2>3. CASE stack # <<>>
    BY <1>6, <2>1, <2>3, ExecuteKeepsDriver
  <2>4. CASE stack = <<>>
    BY <1>6, <2>1, <2>2, <2>4 DEF DriverInv, CommittedRows
  <2> QED
    BY <2>3, <2>4
<1> QED
  BY <1>9, <1>10, <1>12, <1>13, <1>16, <1>18, <1>19

LEMMA UndoKeeps ==
    ASSUME DbInv, NEW c \in Caller, Undo(c)
    PROVE  DbInv'
<1> USE DEF DbInv
<1>1. call[c].pc = "catch" /\ call[c].name # 0 /\ CallOK(c) /\ told[c] # "ok" /\ Leaves(c) /\ In(c)
  BY DEF Undo, CallInv, CallOK, Leaves, In
<1>2. /\ stack # <<>> /\ stack \in Seq(FrameOf) /\ stack[1].name = 0 /\ ~Top(c) /\ call[c].name > 0
      /\ \E d \in Caller \ {c} : In(d) /\ call[d].pc # "released" /\ call[d].name = 0
      /\ \A d \in Caller : call[d].pc # "committed"
  BY <1>1, BelowIsTheOuter
<1>3. depth' \in Int /\ seq' = seq /\ saves' = saves /\ promise' = promise
  BY DEF Undo, DbTypes
<1>4. CASE IsOpen(call[c].name)
  <2> DEFINE i == Frame(call[c].name)
  <2>1. /\ Execute(stack[i].before, SubSeq(stack, 1, i)) /\ call' = [call EXCEPT ![c].pc = "drop"]
        /\ image' = stack[i].before /\ stack' = SubSeq(stack, 1, i) /\ told' = told
    BY <1>4 DEF Undo, Goto, Execute
  <2>2. i \in DOMAIN stack /\ stack[i].name = call[c].name
    BY <1>4, FrameFound
  <2>3. /\ stack' \in Seq(FrameOf) /\ stack' # <<>> /\ stack'[1] = stack[1]
        /\ DOMAIN stack' \subseteq DOMAIN stack /\ \A j \in DOMAIN stack' : stack'[j] = stack[j]
    <3>1. i \in 1..Len(stack)
      BY <1>2, <2>2
    <3>2. stack' \in Seq(FrameOf) /\ Len(stack') = i /\ \A j \in 1..i : stack'[j] = stack[j]
      BY <1>2, <2>1, <3>1
    <3> QED
      BY <1>2, <3>1, <3>2
  <2>4. dirty' = Wasm /\ disk' = disk
    BY <2>1, <2>3 DEF Execute
  <2>5. call'[c] = [call[c] EXCEPT !.pc = "drop"] /\ Only(c)
    BY <2>1 DEF DbTypes, Only
  <2>6. call'[c].pc = "drop" /\ call'[c].name = call[c].name /\ call'[c].written = call[c].written
    BY <2>5, CallShape
  <2>7. DbTypes'
    <3>1. stack[i] \in FrameOf
      BY <1>2, <2>2
    <3>2. image' \subseteq Rows
      BY <2>1, <3>1 DEF FrameOf
    <3>3. call' \in [Caller -> CallOf]
      BY <2>1 DEF DbTypes, CallOf, Steps
    <3> QED
      BY <1>3, <2>1, <2>3, <2>4, <3>2, <3>3, TransactionAssumption DEF DbTypes
  <2>8. CallInv'
    <3>1. CallOK(c)'
      BY <1>1, <2>1, <2>6 DEF CallOK
    <3> QED
      BY <1>1, <2>3, <2>5, <3>1, CallsStay
  <2>9. \A d \in Caller : In(d)' <=> In(d)
    BY <1>1, <1>2, <2>3, <2>5, <2>6 DEF In, Only
  <2>10. NestInv'
    BY <1>1, <1>3, <2>5, <2>6, <2>9, NestStays
  <2>11. FrameInv'
    <3>1. \A j, k \in DOMAIN stack' : j < k => stack'[j].name < stack'[k].name
      BY <2>3 DEF FrameInv
    <3>2. \A d \in Caller : call'[d].name = call[d].name /\ call'[d].pc # "committed"
                             /\ (call'[d].pc = "released" <=> call[d].pc = "released")
      BY <1>1, <1>2, <2>5, <2>6 DEF Only
    <3>3. \A j \in DOMAIN stack' : \E d \in Caller :
              In(d)' /\ call'[d].pc # "released" /\ call'[d].name = stack'[j].name
      BY <2>3, <2>9, <3>2 DEF FrameInv
    <3> QED
      BY <1>1, <1>2, <2>3, <2>9, <3>1, <3>2, <3>3 DEF FrameInv
  <2>12. \A d \in Caller : Mine(d)' = Mine(d)
    BY <2>1, <2>5, <2>6, SameMine DEF Only
  <2>13. \A d \in Caller : (Live(d)' => Live(d) /\ d # c /\ Level(d)' = Level(d)) /\ (Answered(d)' => Answered(d))
    BY <1>1, <2>1, <2>5, <2>6 DEF Live, Level, Nested, Answered, Only, Top
  <2>14. RowsInv'
    <3> SUFFICES ASSUME NEW d \in Caller, Live(d)' PROVE Safe(Mine(d), image', stack', Level(d))
      BY <2>12, <2>13 DEF RowsInv
    <3>1. Safe(Mine(d), image, stack, Level(d)) /\ d # c
      BY <2>13 DEF RowsInv
    <3>2. stack[i].name > Level(d)
      <4>1. CASE Nested(d)
        <5>1. In(d) /\ Level(d) = call[d].name
          BY <4>1 DEF Nested, In, Level
        <5>2. call[d].name < call[c].name
          BY <1>1, <3>1, <5>1, Innermost
        <5> QED
          BY <2>2, <5>1, <5>2, Numbers
      <4>2. CASE ~Nested(d)
        BY <1>2, <2>2, <4>2, Numbers DEF Level
      <4> QED
        BY <4>1, <4>2
    <3> QED
      BY <1>2, <2>1, <2>2, <3>1, <3>2, SafeUndo
  <2>15. SaveInv'
    BY <1>1, <1>3, <2>1, <2>5, <2>12, <2>13, <2>14, ExecuteKeepsSaves DEF Only
  <2>16. DriverInv'
    BY <1>2, <1>3, <2>1, <2>3, <2>5, <2>6, ExecuteKeepsDriver DEF Only, CommittedRows
  <2> QED
    BY <2>7, <2>8, <2>10, <2>11, <2>14, <2>15, <2>16
<1>5. CASE ~IsOpen(call[c].name)
  <2>1. /\ call' = [call EXCEPT ![c].pc = "done"] /\ told' = [told EXCEPT ![c] = "error"]
        /\ UNCHANGED <<image, stack, disk, dirty>>
    BY <1>5 DEF Undo, Return, Goto
  <2> QED
    BY <1>1, <1>3, <1>5, <2>1, LeavesWithError
<1> QED
  BY <1>4, <1>5

LEMMA DropKeeps ==
    ASSUME DbInv, NEW c \in Caller, Drop(c)
    PROVE  DbInv'
<1>1. call[c].pc = "drop" /\ CallOK(c) /\ call[c].name # 0 /\ In(c)
  BY DEF Drop, In, DbInv, CallInv, CallOK
<1>2. /\ call' = [call EXCEPT ![c].pc = "done"] /\ told' = [told EXCEPT ![c] = "error"]
      /\ depth' \in Int /\ UNCHANGED <<seq, saves, promise>>
  BY DEF Drop, Return, Goto, DbInv, DbTypes
<1>3. CASE IsOpen(call[c].name)
  <2>1. Execute(image, Below(c))
    BY <1>3 DEF Drop, Below
  <2> QED
    BY <1>1, <1>2, <1>3, <2>1, LeavesWithError
<1>4. CASE ~IsOpen(call[c].name)
  <2>1. UNCHANGED <<image, stack, disk, dirty>>
    BY <1>4 DEF Drop
  <2> QED
    BY <1>1, <1>2, <1>4, <2>1, LeavesWithError
<1> QED
  BY <1>3, <1>4

-----------------------------------------------------------------------------
(* WasmSqlDriver.flush *)

(* A call that has committed hands what is committed to a save: while it   *)
(* does, the connection is in no transaction.                              *)
LEMMA StartSaveKeeps ==
    ASSUME DbInv, Wasm, NEW c \in Caller, StartSave(c), call[c].pc \in {"committed", "waiting"}, stack = <<>>,
           \A d \in Caller \ {c} : call[d].pc \in {"idle", "saving", "waiting", "done"},
           depth' = 0, UNCHANGED <<seq, disk, told>>
    PROVE  DbInv'
<1> USE DEF DbInv
<1>1. CallOK(c) /\ Top(c) /\ call[c].name = 0 /\ call[c].written = Statements /\ told[c] # "ok" /\ Leaves(c)
  BY DEF CallInv, CallOK, Leaves
<1>2. /\ call' = [call EXCEPT ![c].pc = "saving"] /\ saves' = Append(saves, [by |-> c, rows |-> image])
      /\ image' = image /\ stack' = <<>> /\ dirty' = FALSE /\ promise' = c
  BY DEF StartSave, Goto, CommittedRows
<1>3. call'[c] = [call[c] EXCEPT !.pc = "saving"] /\ Only(c)
  BY <1>2 DEF DbTypes, Only
<1>4. call'[c].pc = "saving" /\ call'[c].name = call[c].name /\ call'[c].written = call[c].written
  BY <1>3, CallShape
<1>5. saves \in Seq(SaveOf) /\ saves' \in Seq(SaveOf) /\ Len(saves') = Len(saves) + 1
      /\ saves'[Len(saves) + 1] = [by |-> c, rows |-> image]
      /\ \A i \in DOMAIN saves : saves'[i] = saves[i]
  <2>1. image \subseteq Rows /\ saves \in Seq(SaveOf)
    BY DEF DbTypes
  <2> QED
    BY <1>2, <2>1 DEF SaveOf
<1>6. DbTypes'
  <2>1. call' \in [Caller -> CallOf]
    BY <1>2 DEF DbTypes, CallOf, Steps
  <2>2. stack' \in Seq(FrameOf) /\ depth' \in Int
    BY <1>2
  <2> QED
    BY <1>2, <1>5, <2>1, <2>2 DEF DbTypes
<1>7. CallInv'
  <2>1. CallOK(c)'
    BY <1>1, <1>3, <1>4 DEF CallOK, Top
  <2> QED
    BY <1>1, <1>3, <2>1, CallsStay
<1>8. \A d \in Caller : ~In(d) /\ ~In(d)'
  BY <1>2, <1>3, <1>4 DEF In, Only
<1>9. NestInv'
  BY <1>1, <1>3, <1>8, NestLeaves
<1>10. FrameInv'
  <2>1. \A d \in Caller : call'[d].pc # "committed"
    BY <1>3, <1>4 DEF Only
  <2> QED
    BY <1>2, <1>8, <2>1 DEF FrameInv
<1>11. \A d \in Caller : Mine(d)' = Mine(d)
  BY <1>3, <1>4, SameMine DEF Only, Children
<1>12. \A d \in Caller : Live(d) => Mine(d) \subseteq image
  BY DEF RowsInv, Safe
<1>13. \A d \in Caller : (Live(d)' => Live(d)) /\ (Answered(d)' => Answered(d))
  BY <1>1, <1>3, <1>4 DEF Live, Nested, Answered, Only, Top
<1>14. RowsInv'
  BY <1>2, <1>11, <1>12, <1>13 DEF RowsInv, Safe
<1>15. SaveInv'
  <2> DEFINE n == Len(saves) + 1
  <2>1. DOMAIN saves' = DOMAIN saves \cup {n} /\ n \notin DOMAIN saves
        /\ \A i \in DOMAIN saves : i <= n /\ ~(n <= i)
    BY <1>5
  <2>2. saves'[n].by = c /\ saves'[n].rows = image
    BY <1>5
  <2>3. \A i \in DOMAIN saves : saves[i].by \in Caller
    <3>1. \A i \in DOMAIN saves : saves[i] \in SaveOf
      BY <1>5
    <3> QED
      BY <3>1 DEF SaveOf
  <2>4. \A i \in DOMAIN saves : call[saves[i].by].pc = "saving" /\ saves[i].by # c
    BY DEF SaveInv
  <2>5. ASSUME NEW d \in Caller, Answered(d)'
        PROVE  Mine(d)' \subseteq disk' /\ \A i \in DOMAIN saves' : Mine(d)' \subseteq saves'[i].rows
    <3>1. Answered(d)
      BY <1>13, <2>5
    <3>2. Mine(d) \subseteq image
      BY <1>12, <3>1 DEF Live
    <3> QED
      BY <1>5, <1>11, <2>1, <2>2, <3>1, <3>2 DEF SaveInv
  <2>6. ASSUME NEW i \in DOMAIN saves', NEW j \in DOMAIN saves', i <= j
        PROVE  (Mine(saves[i].by) \subseteq saves[j].rows)'
    <3>1. PICK d \in Caller : d = saves'[i].by
      BY <1>5, <2>1, <2>2, <2>3
    <3>2. Mine(d) \subseteq saves'[j].rows
      <4>1. Live(d)
        BY <1>5, <2>1, <2>2, <2>4, <3>1 DEF Live
      <4>2. CASE j = n
        BY <1>12, <2>2, <4>1, <4>2
      <4>3. CASE j # n
        <5>1. i \in DOMAIN saves /\ j \in DOMAIN saves
          BY <2>1, <2>6, <4>3
        <5>2. Mine(saves[i].by) \subseteq saves[j].rows
          BY <2>6, <5>1 DEF SaveInv
        <5> QED
          BY <1>5, <3>1, <5>1, <5>2
      <4> QED
        BY <4>2, <4>3
    <3> QED
      BY <1>11, <3>1, <3>2
  <2>7. ASSUME NEW i \in DOMAIN saves' PROVE call'[saves'[i].by].pc = "saving"
    <3>1. CASE i = n
      BY <1>4, <2>2, <3>1
    <3>2. CASE i # n
      <4>1. saves'[i] = saves[i] /\ saves[i].by \in Caller \ {c} /\ call[saves[i].by].pc = "saving"
        BY <1>5, <2>1, <2>3, <2>4, <3>2
      <4> QED
        BY <1>3, <4>1 DEF Only
    <3> QED
      BY <3>1, <3>2
  <2>8. \A i, j \in DOMAIN saves' : saves'[i].by = saves'[j].by => i = j
    BY <1>5, <2>1, <2>2, <2>4 DEF SaveInv
  <2> QED
    BY <2>5, <2>6, <2>7, <2>8 DEF SaveInv
<1>16. DriverInv'
  <2>1. \A d \in Caller : call'[d].pc # "committed"
    BY <1>3, <1>4 DEF Only
  <2> QED
    BY <2>1 DEF DriverInv
<1> QED
  BY <1>6, <1>7, <1>9, <1>10, <1>14, <1>15, <1>16

LEMMA CommittedKeeps ==
    ASSUME DbInv, NEW c \in Caller, Committed(c)
    PROVE  DbInv'
<1> USE DEF DbInv
<1>1. call[c].pc = "committed" /\ CallOK(c) /\ Top(c) /\ call[c].name = 0 /\ call[c].written = Statements
      /\ told[c] # "ok" /\ Leaves(c)
  BY DEF Committed, CallInv, CallOK, Leaves
<1>2. stack = <<>> /\ \A d \in Caller \ {c} : call[d].pc \in {"idle", "saving", "waiting", "done"}
  BY <1>1 DEF FrameInv
<1>3. depth' = 0 /\ seq' = seq /\ disk' = disk
  BY DEF Committed
<1>4. \A d \in Caller : ~In(d)
  BY <1>1, <1>2 DEF In
<1>5. \A d \in Caller : Live(d) => Mine(d) \subseteq image
  BY DEF RowsInv, Safe
<1>6. CASE ~dirty
  <2>1. /\ call' = [call EXCEPT ![c].pc = "done"] /\ told' = [told EXCEPT ![c] = "ok"]
        /\ UNCHANGED <<image, stack, dirty, saves, promise>>
    BY <1>6 DEF Committed, Return, Goto, driver
  <2>2. ~Wasm /\ saves = <<>> /\ disk = image
    BY <1>1, <1>2, <1>6 DEF DriverInv, CommittedRows
  <2>3. call'[c] = [call[c] EXCEPT !.pc = "done"] /\ told'[c] = "ok" /\ Only(c)
    BY <2>1 DEF DbTypes, Only
  <2>4. call'[c].pc = "done" /\ call'[c].name = call[c].name /\ call'[c].written = call[c].written
    BY <2>3, CallShape
  <2>5. DbTypes'
    <3>1. call' \in [Caller -> CallOf]
      BY <2>1 DEF DbTypes, CallOf, Steps
    <3> QED
      BY <1>3, <2>1, <3>1 DEF DbTypes
  <2>6. CallInv'
    <3>1. CallOK(c)'
      BY <1>1, <2>3, <2>4 DEF CallOK
    <3> QED
      BY <1>1, <1>2, <2>3, <3>1, CallsStay
  <2>7. \A d \in Caller : ~In(d)'
    BY <1>4, <2>1, <2>3, <2>4 DEF In, Only
  <2>8. NestInv'
    BY <1>1, <1>3, <2>3, <2>7, NestLeaves
  <2>9. FrameInv'
    <3>1. \A d \in Caller : call'[d].pc # "committed"
      BY <1>2, <2>3, <2>4 DEF Only
    <3> QED
      BY <1>2, <1>3, <2>1, <2>7, <3>1 DEF FrameInv
  <2>10. \A d \in Caller : Mine(d)' = Mine(d)
    <3>1. \A d \in Caller : \A k \in Children(d) : k # c /\ k \in Caller
      BY <1>1 DEF Children, Top
    <3> QED
      BY <2>3, <2>4, <3>1, SameMine DEF Only
  <2>11. \A d \in Caller : Live(d)' => Live(d)
    BY <1>1, <2>3, <2>4 DEF Live, Nested, Answered, Only, Top
  <2>12. RowsInv'
    BY <1>2, <1>5, <2>1, <2>10, <2>11 DEF RowsInv, Safe
  <2>13. SaveInv'
    <3>1. \A d \in Caller : Answered(d)' => Mine(d)' \subseteq disk'
      BY <1>3, <1>5, <2>2, <2>10, <2>11 DEF Live
    <3> QED
      BY <2>1, <2>2, <3>1 DEF SaveInv
  <2>14. DriverInv'
    <3>1. \A d \in Caller : call'[d].pc \notin {"saving", "waiting"}
      BY <2>2, <2>3, <2>4 DEF Only, DriverInv
    <3> QED
      BY <1>2, <1>3, <1>6, <2>1, <2>2, <3>1 DEF DriverInv, CommittedRows
  <2> QED
    BY <2>5, <2>6, <2>8, <2>9, <2>12, <2>13, <2>14
<1>7. CASE dirty /\ promise = Nobody
  <2>1. StartSave(c) /\ UNCHANGED told
    BY <1>7 DEF Committed
  <2>2. Wasm
    BY <1>7 DEF DriverInv
  <2> QED
    BY <1>1, <1>2, <1>3, <2>1, <2>2, StartSaveKeeps
<1>8. CASE dirty /\ promise # Nobody
  <2>1. /\ call' = [call EXCEPT ![c].pc = "waiting", ![c].awaits = promise]
        /\ UNCHANGED <<image, stack, dirty, saves, promise, told>>
    BY <1>8 DEF Committed, driver
  <2>2. Wasm
    BY <1>8 DEF DriverInv
  <2>3. call'[c] = [call[c] EXCEPT !.pc = "waiting", !.awaits = promise] /\ Only(c)
    BY <2>1 DEF DbTypes, Only
  <2>4. call'[c].pc = "waiting" /\ call'[c].name = call[c].name /\ call'[c].written = call[c].written
    BY <2>3, CallShape
  <2>5. DbTypes'
    <3>1. [call[c] EXCEPT !.pc = "waiting", !.awaits = promise] \in CallOf
      <4>1. call[c] \in CallOf /\ promise \in Caller \cup {Nobody}
        BY DEF DbTypes
      <4> QED
        BY <4>1 DEF CallOf, Steps
    <3>2. call' \in [Caller -> CallOf]
      BY <2>1, <3>1 DEF DbTypes
    <3> QED
      BY <1>3, <2>1, <3>2 DEF DbTypes
  <2>6. CallInv'
    <3>1. CallOK(c)'
      BY <1>1, <2>1, <2>4 DEF CallOK, Top
    <3> QED
      BY <1>1, <1>2, <2>3, <3>1, CallsStay
  <2>7. \A d \in Caller : ~In(d)'
    BY <1>4, <2>1, <2>3, <2>4 DEF In, Only
  <2>8. NestInv'
    BY <1>1, <1>3, <2>3, <2>7, NestLeaves
  <2>9. \A d \in Caller : call'[d].pc # "committed"
    BY <1>2, <2>3, <2>4 DEF Only
  <2>10. FrameInv'
    BY <1>2, <1>3, <2>1, <2>7, <2>9 DEF FrameInv
  <2>11. \A d \in Caller : Mine(d)' = Mine(d)
    BY <2>1, <2>3, <2>4, SameMine DEF Only
  <2>12. \A d \in Caller : (Live(d)' => Live(d)) /\ (Answered(d)' => Answered(d))
    BY <1>1, <2>1, <2>3, <2>4 DEF Live, Nested, Answered, Only, Top
  <2>13. RowsInv'
    BY <1>2, <1>5, <2>1, <2>11, <2>12 DEF RowsInv, Safe
  <2>14. \A d \in Caller : call[d].pc = "saving" => call'[d].pc = "saving"
    BY <1>1, <2>3 DEF Only
  <2>15. SaveInv'
    BY <1>3, <2>1, <2>11, <2>12, <2>14, SavesStay DEF SaveInv
  <2>16. DriverInv'
    BY <2>2, <2>9 DEF DriverInv
  <2> QED
    BY <2>5, <2>6, <2>8, <2>10, <2>13, <2>15, <2>16
<1> QED
  BY <1>6, <1>7, <1>8

LEMMA WaitedKeeps ==
    ASSUME DbInv, Overlap = FALSE, NEW c \in Caller, Waited(c)
    PROVE  DbInv'
<1>1. Between /\ call[c].pc = "waiting" /\ StartSave(c) /\ UNCHANGED <<depth, seq, disk, told>>
  BY DEF Waited, MayInterleave
<1>2. stack = <<>> /\ depth = 0
  BY <1>1, BetweenIsQuiet DEF DbInv
<1>3. Wasm
  BY <1>1 DEF DbInv, DriverInv
<1> QED
  BY <1>1, <1>2, <1>3, StartSaveKeeps DEF Between

(* The save that was asked for first: who asked, and what comes after. *)
LEMMA FirstSave ==
    ASSUME DbInv, saves # <<>>
    PROVE  /\ Wasm /\ Head(saves) = saves[1] /\ 1 \in DOMAIN saves
           /\ saves[1].by \in Caller /\ saves[1].rows \subseteq Rows
           /\ call[saves[1].by].pc = "saving" /\ Top(saves[1].by) /\ call[saves[1].by].name = 0
           /\ call[saves[1].by].written = Statements /\ told[saves[1].by] # "ok"
           /\ Tail(saves) \in Seq(SaveOf)
           /\ \A i \in DOMAIN Tail(saves) : Tail(saves)[i] = saves[i + 1] /\ i + 1 \in DOMAIN saves
           /\ \A i \in DOMAIN Tail(saves) : /\ saves[i + 1].by \in Caller /\ saves[i + 1].by # saves[1].by
                                            /\ call[saves[i + 1].by].pc = "saving"
<1> USE DEF DbInv
<1>1. saves \in Seq(SaveOf)
  BY DEF DbTypes
<1>2. 1 \in DOMAIN saves /\ Head(saves) = saves[1] /\ Tail(saves) \in Seq(SaveOf)
  BY <1>1
<1>3. \A i \in DOMAIN saves : saves[i].by \in Caller /\ saves[i].rows \subseteq Rows
  <2>1. \A i \in DOMAIN saves : saves[i] \in SaveOf
    BY <1>1
  <2> QED
    BY <2>1 DEF SaveOf
<1>4. \A i \in DOMAIN saves : call[saves[i].by].pc = "saving"
  BY DEF SaveInv
<1>5. CallOK(saves[1].by)
  BY <1>2, <1>3 DEF CallInv
<1>6. /\ Top(saves[1].by) /\ call[saves[1].by].name = 0
      /\ call[saves[1].by].written = Statements /\ told[saves[1].by] # "ok"
  BY <1>2, <1>4, <1>5 DEF CallOK
<1>7. \A i \in DOMAIN Tail(saves) : Tail(saves)[i] = saves[i + 1] /\ i + 1 \in DOMAIN saves /\ i + 1 # 1
  BY <1>1
<1>8. \A i \in DOMAIN Tail(saves) : saves[i + 1].by # saves[1].by
  BY <1>2, <1>7 DEF SaveInv
<1>9. Wasm
  BY DEF DriverInv
<1> QED
  BY <1>2, <1>3, <1>4, <1>6, <1>7, <1>8, <1>9

(* What is promised of the saves that are left when the first is gone. *)
LEMMA SavesShift ==
    ASSUME DbInv, saves # <<>>, saves' = Tail(saves), \A d \in Caller : Mine(d)' = Mine(d),
           \A d \in Caller \ {saves[1].by} : call[d].pc = "saving" => call'[d].pc = "saving",
           \A d \in Caller : Answered(d)' => Answered(d) \/ d = saves[1].by,
           \A d \in Caller : Answered(d)' => Mine(d) \subseteq disk'
    PROVE  SaveInv'
<1> USE DEF DbInv
<1>1. \A i \in DOMAIN saves' : saves'[i] = saves[i + 1] /\ i + 1 \in DOMAIN saves
  BY FirstSave
<1>2. \A i \in DOMAIN saves' : /\ saves'[i].by \in Caller /\ saves'[i].by # saves[1].by
                               /\ call[saves'[i].by].pc = "saving"
  BY <1>1, FirstSave
<1>3. \A i \in DOMAIN saves' : call'[saves'[i].by].pc = "saving"
  BY <1>2
<1>4. \A i \in DOMAIN saves : i \in Nat /\ 1 <= i
  BY DEF DbTypes
<1>5. \A i \in DOMAIN saves' : i \in Nat
  BY FirstSave
<1>6. \A i, j \in DOMAIN saves' : i <= j => i + 1 <= j + 1
  BY <1>5
<1>7. ASSUME NEW i \in DOMAIN saves', NEW j \in DOMAIN saves', i <= j
      PROVE  (Mine(saves[i].by) \subseteq saves[j].rows)'
  <2>1. PICK d \in Caller : d = saves'[i].by
    BY <1>2
  <2>2. Mine(saves[i + 1].by) \subseteq saves[j + 1].rows
    BY <1>1, <1>6, <1>7 DEF SaveInv
  <2>3. Mine(d) \subseteq saves'[j].rows
    BY <1>1, <2>1, <2>2
  <2> QED
    BY <2>1, <2>3
<1>8. \A i, j \in DOMAIN saves' : saves'[i].by = saves'[j].by => i = j
  <2> SUFFICES ASSUME NEW i \in DOMAIN saves', NEW j \in DOMAIN saves', saves'[i].by = saves'[j].by PROVE i = j
    OBVIOUS
  <2>1. i + 1 = j + 1
    BY <1>1 DEF SaveInv
  <2> QED
    BY <1>5, <2>1
<1>9. ASSUME NEW d \in Caller, Answered(d)'
      PROVE  Mine(d)' \subseteq disk' /\ \A i \in DOMAIN saves' : Mine(d)' \subseteq saves'[i].rows
  <2>1. \A i \in DOMAIN saves : Mine(d) \subseteq saves[i].rows
    <3>1. CASE Answered(d)
      BY <3>1 DEF SaveInv
    <3>2. CASE d = saves[1].by
      BY <1>4, <3>2, FirstSave DEF SaveInv
    <3> QED
      BY <1>9, <3>1, <3>2
  <2> QED
    BY <1>1, <1>9, <2>1
<1> QED
  BY <1>3, <1>7, <1>8, <1>9 DEF SaveInv

LEMMA SavedKeeps ==
    ASSUME DbInv, Overlap = FALSE, Saved
    PROVE  DbInv'
<1> USE DEF DbInv
<1>1. saves # <<>> /\ Between
  BY DEF Saved, MayInterleave
<1> PICK c \in Caller : c = saves[1].by
  BY <1>1, FirstSave
<1>2. stack = <<>> /\ depth = 0 /\ \A d \in Caller : ~In(d) /\ call[d].pc \notin {"committed", "catch"}
  BY <1>1, BetweenIsQuiet
<1>3. c \in Caller /\ call[c].pc = "saving" /\ Top(c) /\ call[c].name = 0
      /\ call[c].written = Statements /\ told[c] # "ok" /\ Wasm /\ Leaves(c)
  BY <1>1, FirstSave DEF Leaves
<1>4. /\ disk' = saves[1].rows /\ saves' = Tail(saves) /\ promise' = Nobody
      /\ call' = [call EXCEPT ![c].pc = "done"] /\ told' = [told EXCEPT ![c] = "ok"]
      /\ UNCHANGED <<depth, seq, image, stack, dirty>>
  BY <1>1, FirstSave DEF Saved, Return, Goto
<1>5. call'[c] = [call[c] EXCEPT !.pc = "done"] /\ told'[c] = "ok" /\ Only(c)
  BY <1>3, <1>4 DEF DbTypes, Only
<1>6. call'[c].pc = "done" /\ call'[c].name = call[c].name /\ call'[c].written = call[c].written
  BY <1>3, <1>5, CallShape
<1>7. DbTypes'
  <2>1. call' \in [Caller -> CallOf]
    <3>1. call' = [call EXCEPT ![c].pc = "done"] /\ call \in [Caller -> CallOf]
      BY <1>4 DEF DbTypes
    <3> QED
      BY <3>1 DEF CallOf, Steps
  <2>2. disk' \subseteq Rows /\ saves' \in Seq(SaveOf)
    BY <1>1, <1>4, FirstSave
  <2> QED
    BY <1>3, <1>4, <2>1, <2>2 DEF DbTypes
<1>8. CallInv'
  <2>1. CallOK(c)'
    BY <1>3, <1>5, <1>6 DEF CallOK
  <2> QED
    BY <1>2, <1>3, <1>5, <2>1, CallsStay
<1>9. \A d \in Caller : ~In(d)'
  BY <1>2, <1>3, <1>4, <1>5, <1>6 DEF In, Only
<1>10. NestInv'
  BY <1>3, <1>4, <1>5, <1>9, NestLeaves
<1>11. \A d \in Caller : call'[d].pc # "committed"
  BY <1>2, <1>5, <1>6 DEF Only
<1>12. FrameInv'
  BY <1>2, <1>4, <1>9, <1>11 DEF FrameInv
<1>13. \A d \in Caller : Mine(d)' = Mine(d)
  <2>1. \A d \in Caller : \A k \in Children(d) : k # c /\ k \in Caller
    BY <1>3 DEF Children, Top
  <2> QED
    BY <1>5, <1>6, <2>1, SameMine DEF Only
<1>14. \A d \in Caller : (Live(d)' => Live(d)) /\ (Answered(d)' => Answered(d) \/ d = c)
  BY <1>3, <1>5, <1>6 DEF Live, Nested, Answered, Only, Top
<1>15. RowsInv'
  BY <1>2, <1>4, <1>13, <1>14 DEF RowsInv, Safe
<1>16. SaveInv'
  <2>1. \A d \in Caller : Answered(d)' => Mine(d) \subseteq disk'
    BY <1>1, <1>3, <1>4, <1>14, FirstSave DEF SaveInv
  <2>2. \A d \in Caller \ {c} : call[d].pc = "saving" => call'[d].pc = "saving"
    BY <1>5 DEF Only
  <2> QED
    BY <1>1, <1>4, <1>13, <1>14, <2>1, <2>2, SavesShift
<1>17. DriverInv'
  BY <1>3, <1>11 DEF DriverInv
<1> QED
  BY <1>7, <1>8, <1>10, <1>12, <1>15, <1>16, <1>17

(* The calls that take the catch had committed: the connection is in no    *)
(* transaction, and they promised nothing.                                 *)
LEMMA SaveFailsKeeps ==
    ASSUME DbInv, Overlap = FALSE, SaveFails
    PROVE  DbInv'
<1> USE DEF DbInv
<1> DEFINE by == saves[1].by
           T(d) == d = by \/ (call[d].pc = "waiting" /\ call[d].awaits = by)
<1>1. saves # <<>> /\ Between
  BY DEF SaveFails, MayInterleave
<1>2. stack = <<>> /\ depth = 0 /\ \A d \in Caller : ~In(d) /\ call[d].pc \notin {"committed", "catch"}
  BY <1>1, BetweenIsQuiet
<1>3. \A d \in Caller : Running(d) => Top(d)
  BY <1>1, BetweenIsQuiet
<1>4. by \in Caller /\ call[by].pc = "saving" /\ Wasm
  BY <1>1, FirstSave
<1>5. /\ call' = [d \in Caller |-> IF T(d) THEN [call[d] EXCEPT !.pc = "catch"] ELSE call[d]]
      /\ saves' = Tail(saves) /\ promise' = Nobody
      /\ UNCHANGED <<depth, seq, image, stack, disk, dirty, told>>
  BY <1>1, FirstSave DEF SaveFails
<1>6. \A d \in Caller : /\ T(d) => call[d].pc \in {"saving", "waiting"} /\ call'[d] = [call[d] EXCEPT !.pc = "catch"]
                        /\ ~T(d) => call'[d] = call[d]
  BY <1>4, <1>5
<1>7. \A d \in Caller : /\ T(d) => call'[d].pc = "catch"
                        /\ call'[d].name = call[d].name /\ call'[d].written = call[d].written
  BY <1>6, CallShape
<1>8. DbTypes'
  <2>1. call' \in [Caller -> CallOf]
    <3>1. \A d \in Caller : [call[d] EXCEPT !.pc = "catch"] \in CallOf /\ call[d] \in CallOf
      BY DEF DbTypes, CallOf, Steps
    <3> QED
      BY <1>5, <3>1
  <2>2. saves' \in Seq(SaveOf)
    BY <1>1, <1>5, FirstSave
  <2> QED
    BY <1>5, <2>1, <2>2 DEF DbTypes
<1>9. CallInv'
  <2> SUFFICES ASSUME NEW d \in Caller PROVE CallOK(d)'
    BY DEF CallInv
  <2>1. CallOK(d)
    BY DEF CallInv
  <2>2. CASE T(d)
    BY <1>5, <1>6, <1>7, <2>1, <2>2 DEF CallOK, Top
  <2>3. CASE ~T(d)
    <3>1. call'[d] = call[d] /\ told'[d] = told[d]
      BY <1>5, <1>6, <2>3
    <3>2. \A k \in Children(d) : call[k].pc = "idle" => call'[k].pc = "idle"
      BY <1>6 DEF Children
    <3> QED
      BY <1>5, <2>1, <3>1, <3>2 DEF CallOK, Top, Children
  <2> QED
    BY <2>2, <2>3
<1>10. \A d \in Caller : ~In(d)' /\ (Running(d)' => Running(d)) /\ call'[d].pc # "committed"
  BY <1>2, <1>5, <1>6, <1>7 DEF In, Running
<1>11. NestInv'
  BY <1>3, <1>10 DEF NestInv, Top
<1>12. FrameInv'
  BY <1>2, <1>5, <1>10 DEF FrameInv
<1>13. \A d \in Caller : Mine(d)' = Mine(d)
  BY <1>5, <1>7, SameMine
<1>14. \A d \in Caller : (Live(d)' => Live(d)) /\ (Answered(d)' => Answered(d))
  <2> SUFFICES ASSUME NEW d \in Caller PROVE (Live(d)' => Live(d)) /\ (Answered(d)' => Answered(d))
    OBVIOUS
  <2>1. CASE T(d)
    BY <1>5, <1>6, <1>7, <2>1 DEF Live, Nested, Answered, Top
  <2>2. CASE ~T(d)
    <3>1. call'[d] = call[d] /\ told'[d] = told[d]
      BY <1>5, <1>6, <2>2
    <3> QED
      BY <3>1 DEF Live, Nested, Answered, Top
  <2> QED
    BY <2>1, <2>2
<1>15. RowsInv'
  BY <1>2, <1>5, <1>13, <1>14 DEF RowsInv, Safe
<1>16. SaveInv'
  <2>1. \A d \in Caller \ {by} : call[d].pc = "saving" => call'[d].pc = "saving"
    BY <1>6
  <2>2. \A d \in Caller : Answered(d)' => Mine(d) \subseteq disk'
    BY <1>5, <1>14 DEF SaveInv
  <2> QED
    BY <1>1, <1>5, <1>13, <1>14, <2>1, <2>2, SavesShift
<1>17. DriverInv'
  BY <1>4, <1>10 DEF DriverInv
<1> QED
  BY <1>8, <1>9, <1>11, <1>12, <1>15, <1>16, <1>17

-----------------------------------------------------------------------------
(* Everything else *)
LEMMA PlainWriteKeeps ==
    ASSUME DbInv, Overlap = FALSE, NEW w \in Writer, PlainWrite(w)
    PROVE  DbInv'
<1> USE DEF DbInv
<1>1. Between
  BY DEF PlainWrite, MayInterleave
<1>2. stack = <<>> /\ \A d \in Caller : ~In(d) /\ call[d].pc \notin {"committed", "catch"}
  BY <1>1, BetweenIsQuiet
<1>3. /\ Execute(image \cup {<<w, 1>>}, stack) /\ told' = [told EXCEPT ![w] = "ok"]
      /\ image' = image \cup {<<w, 1>>} /\ stack' = stack /\ dirty' = Wasm
      /\ UNCHANGED <<depth, seq, saves, promise, call>>
  BY DEF PlainWrite, Execute
<1>4. \A d \in Caller : told'[d] = told[d]
  BY <1>3, TransactionAssumption DEF DbTypes
<1>5. DbTypes'
  <2>1. image' \subseteq Rows
    <3>1. <<w, 1>> \in Rows
      <4>1. <<w, 1>> \in Writer \X {1}
        OBVIOUS
      <4> QED
        BY <4>1 DEF Rows
    <3> QED
      BY <1>3, <3>1 DEF DbTypes
  <2>2. disk' \subseteq Rows
    BY <1>3, <2>1 DEF DbTypes, Execute
  <2> QED
    BY <1>3, <2>1, <2>2, TransactionAssumption DEF DbTypes
<1>6. CallInv'
  BY <1>3, <1>4 DEF CallInv, CallOK, Top, Children
<1>7. NestInv' /\ FrameInv'
  BY <1>3 DEF NestInv, FrameInv, In, Running, Top, Children
<1>8. \A d \in Caller : Mine(d)' = Mine(d)
  BY <1>3, <1>4, SameMine DEF Children
<1>9. \A d \in Caller : (Live(d)' <=> Live(d)) /\ Level(d)' = Level(d) /\ (Answered(d)' <=> Answered(d))
  BY <1>3, <1>4 DEF Live, Level, Nested, Answered, Top
<1>10. RowsInv'
  BY <1>2, <1>3, <1>8, <1>9 DEF RowsInv, Safe
<1>11. SaveInv'
  BY <1>3, <1>8, <1>9, <1>10, ExecuteKeepsSaves
<1>12. DriverInv'
  BY <1>2, <1>3, ExecuteKeepsDriver
<1> QED
  BY <1>5, <1>6, <1>7, <1>10, <1>11, <1>12

(* With no call under way no save is, and the connection is in no          *)
(* transaction.                                                            *)
LEMMA NobodyRuns ==
    ASSUME DbInv, \A c \in Caller : ~Running(c)
    PROVE  saves = <<>> /\ stack = <<>> /\ \A c \in Caller : call[c].pc \in {"idle", "done"} /\ ~In(c)
<1> USE DEF DbInv
<1>1. \A c \in Caller : call[c].pc \in {"idle", "done"} /\ ~In(c)
  BY DEF Running, In
<1>2. saves = <<>>
  <2> SUFFICES ASSUME saves # <<>> PROVE FALSE
    OBVIOUS
  <2> QED
    BY <1>1, FirstSave
<1>3. stack = <<>>
  BY <1>1, BetweenIsQuiet DEF Between
<1> QED
  BY <1>1, <1>2, <1>3

(* What is left of an invariant when every call has come to its end. *)
LEMMA AllOver ==
    ASSUME DbTypes', CallInv', stack' = <<>>, saves' = <<>>, depth' = 0, dirty' = FALSE, image' = disk',
           \A c \in Caller : call'[c].pc \in {"idle", "done"},
           \A c \in Caller : Answered(c)' => Mine(c)' \subseteq disk'
    PROVE  DbInv'
<1>1. \A c \in Caller : ~In(c)' /\ ~Running(c)'
  BY DEF In, Running
<1>2. NestInv' /\ FrameInv'
  BY <1>1 DEF NestInv, FrameInv
<1>3. RowsInv'
  BY DEF RowsInv, Safe, Live, Nested
<1>4. SaveInv' /\ DriverInv'
  BY DEF SaveInv, DriverInv, CommittedRows
<1> QED
  BY <1>2, <1>3, <1>4 DEF DbInv

LEMMA CloseKeeps ==
    ASSUME DbInv, Close
    PROVE  DbInv'
<1> USE DEF DbInv
<1>1. saves = <<>> /\ stack = <<>> /\ \A c \in Caller : call[c].pc \in {"idle", "done"} /\ ~In(c)
  BY NobodyRuns DEF Close
<1>2. /\ disk' = (IF dirty THEN image ELSE disk) /\ image' = disk' /\ stack' = <<>>
      /\ dirty' = FALSE /\ depth' = 0 /\ seq' = 0 /\ UNCHANGED <<saves, promise, call, told>>
  BY DEF Close
<1>3. DbTypes'
  <2>1. disk' \subseteq Rows /\ stack' \in Seq(FrameOf)
    BY <1>2 DEF DbTypes
  <2>2. depth' \in Int /\ seq' \in Nat
    BY <1>2
  <2> QED
    BY <1>2, <2>1, <2>2 DEF DbTypes
<1>4. CallInv'
  BY <1>1, <1>2 DEF CallInv, CallOK, Top, Children
<1>5. \A c \in Caller : Mine(c)' = Mine(c) /\ (Answered(c)' <=> Answered(c))
  BY <1>2, SameMine DEF Answered, Top
<1>6. \A c \in Caller : Answered(c) => Mine(c) \subseteq disk /\ Mine(c) \subseteq image
  BY DEF SaveInv, RowsInv, Live, Safe
<1> QED
  BY <1>1, <1>2, <1>3, <1>4, <1>5, <1>6, AllOver

(* A call that had its answer is not running: the process that dies takes  *)
(* nothing from it.                                                        *)
LEMMA CrashKeeps ==
    ASSUME DbInv, Crash
    PROVE  DbInv'
<1> USE DEF DbInv
<1>1. PICK rows \in {disk} \cup {saves[i].rows : i \in DOMAIN saves} : disk' = rows /\ image' = rows
  BY DEF Crash
<1>2. /\ stack' = <<>> /\ saves' = <<>> /\ promise' = Nobody
      /\ dirty' = FALSE /\ depth' = 0 /\ seq' = 0
      /\ call' = [c \in Caller |-> IF Running(c) THEN [Idle EXCEPT !.pc = "done"] ELSE call[c]]
      /\ told' = [x \in DOMAIN told |-> IF x \in Caller /\ Running(x) THEN "lost" ELSE told[x]]
  BY DEF Crash
<1>3. \A c \in Caller : /\ Running(c) => call'[c].pc = "done" /\ call'[c].written = 0 /\ told'[c] = "lost"
                        /\ ~Running(c) => call'[c] = call[c] /\ told'[c] = told[c]
  <2>1. DOMAIN told = Caller \cup Writer
    BY DEF DbTypes
  <2> QED
    BY <1>2, <2>1 DEF Idle
<1>4. DbTypes'
  <2>1. disk' \subseteq Rows
    <3>1. \A i \in DOMAIN saves : saves[i] \in SaveOf
      BY DEF DbTypes
    <3> QED
      BY <1>1, <3>1 DEF DbTypes, SaveOf
  <2>2. call' \in [Caller -> CallOf]
    <3>1. [Idle EXCEPT !.pc = "done"] \in CallOf
      <4>1. 0 \in Nat /\ 0 \in 0..Statements
        BY TransactionAssumption
      <4> QED
        BY <4>1 DEF Idle, CallOf, Steps
    <3>2. \A c \in Caller : call[c] \in CallOf
      BY DEF DbTypes
    <3> QED
      BY <1>2, <3>1, <3>2
  <2>3. told' \in [Caller \cup Writer -> {"nothing", "ok", "error", "lost"}]
    BY <1>2 DEF DbTypes
  <2>4. stack' \in Seq(FrameOf) /\ saves' \in Seq(SaveOf)
    BY <1>2
  <2>5. depth' \in Int /\ seq' \in Nat
    BY <1>2
  <2> QED
    BY <1>1, <1>2, <2>1, <2>2, <2>3, <2>4, <2>5 DEF DbTypes
<1>5. \A c \in Caller : call'[c].pc \in {"idle", "done"}
  BY <1>3 DEF Running
<1>6. CallInv'
  <2> SUFFICES ASSUME NEW c \in Caller PROVE CallOK(c)'
    BY DEF CallInv
  <2>1. CASE Running(c)
    BY <1>3, <2>1 DEF CallOK
  <2>2. CASE ~Running(c)
    <3>1. CallOK(c) /\ call'[c] = call[c] /\ told'[c] = told[c] /\ call[c].pc \in {"idle", "done"}
      BY <1>3, <2>2 DEF CallInv, Running
    <3>2. \A k \in Children(c) : call[k].pc = "idle" => call'[k].pc = "idle"
      BY <1>3 DEF Children, Running
    <3> QED
      BY <3>1, <3>2 DEF CallOK, Children
  <2> QED
    BY <2>1, <2>2
<1>7. ASSUME NEW c \in Caller, Answered(c)' PROVE Mine(c)' \subseteq disk'
  <2>1. ~Running(c) /\ Answered(c) /\ call'[c].written = call[c].written
    BY <1>3, <1>7 DEF Answered, Top
  <2>2. \A k \in Children(c) : told'[k] = "ok" => told[k] = "ok"
    BY <1>3 DEF Children
  <2>3. Mine(c)' \subseteq Mine(c)
    BY <2>1, <2>2 DEF Mine, RowsOf, Children
  <2>4. Mine(c) \subseteq disk /\ \A i \in DOMAIN saves : Mine(c) \subseteq saves[i].rows
    BY <2>1 DEF SaveInv
  <2> QED
    BY <1>1, <2>3, <2>4
<1> QED
  BY <1>1, <1>2, <1>4, <1>5, <1>6, <1>7, AllOver

-----------------------------------------------------------------------------
LEMMA InitDb == Init => DbInv
<1> SUFFICES ASSUME Init PROVE DbInv
  OBVIOUS
<1>1. \A c \in Caller : call[c] = Idle /\ told[c] = "nothing"
  BY DEF Init
<1>2. \A c \in Caller : call[c].pc = "idle" /\ call[c].name = 0 /\ call[c].written = 0
  BY <1>1 DEF Idle
<1>3. DbTypes
  <2>1. Idle \in CallOf
    <3>1. 0 \in Nat /\ 0 \in 0..Statements
      BY TransactionAssumption
    <3> QED
      BY <3>1 DEF Idle, CallOf, Steps
  <2>2. call \in [Caller -> CallOf]
    BY <2>1 DEF Init
  <2>3. stack \in Seq(FrameOf) /\ saves \in Seq(SaveOf)
    BY DEF Init
  <2>4. depth \in Int /\ seq \in Nat
    BY DEF Init
  <2>5. told \in [Caller \cup Writer -> {"nothing", "ok", "error", "lost"}]
    BY DEF Init
  <2>6. image \subseteq Rows /\ disk \subseteq Rows /\ dirty \in BOOLEAN /\ promise \in Caller \cup {Nobody}
    BY DEF Init
  <2> QED
    BY <2>2, <2>3, <2>4, <2>5, <2>6 DEF DbTypes
<1>4. CallInv
  BY <1>1, <1>2 DEF CallInv, CallOK, Children
<1>5. \A c \in Caller : ~In(c) /\ ~Running(c) /\ ~Live(c)
  BY <1>1, <1>2 DEF In, Running, Live, Nested, Answered
<1>6. NestInv /\ FrameInv /\ RowsInv
  BY <1>2, <1>5 DEF NestInv, FrameInv, RowsInv, Init
<1>7. SaveInv /\ DriverInv
  BY <1>1, <1>2 DEF SaveInv, DriverInv, Answered, CommittedRows, Init
<1> QED
  BY <1>3, <1>4, <1>6, <1>7 DEF DbInv

LEMMA NextDb == Overlap = FALSE /\ DbInv /\ [Next]_vars => DbInv'
<1> SUFFICES ASSUME Overlap = FALSE, DbInv, [Next]_vars PROVE DbInv'
  OBVIOUS
<1>1. ASSUME NEW c \in Caller, BeginOuter(c) \/ BeginNested(c) \/ Entered(c) \/ Write(c) \/ Throw(c)
      PROVE  DbInv'
  BY <1>1, BeginOuterKeeps, BeginNestedKeeps, EnteredKeeps, WriteKeeps, ThrowKeeps
<1>2. ASSUME NEW c \in Caller, Commit(c) \/ Committed(c) \/ Waited(c) \/ Release(c) \/ Released(c)
      PROVE  DbInv'
  BY <1>2, CommitKeeps, CommittedKeeps, WaitedKeeps, ReleaseKeeps, ReleasedKeeps
<1>3. ASSUME NEW c \in Caller, Rollback(c) \/ Undo(c) \/ Drop(c)
      PROVE  DbInv'
  BY <1>3, RollbackKeeps, UndoKeeps, DropKeeps
<1>4. ASSUME NEW w \in Writer, PlainWrite(w) PROVE DbInv'
  BY <1>4, PlainWriteKeeps
<1>5. CASE Saved \/ SaveFails
  BY <1>5, SavedKeeps, SaveFailsKeeps
<1>6. CASE Close \/ Crash
  BY <1>6, CloseKeeps, CrashKeeps
<1>7. CASE UNCHANGED vars
  <2>1. /\ depth' = depth /\ seq' = seq /\ image' = image /\ stack' = stack /\ disk' = disk
        /\ dirty' = dirty /\ saves' = saves /\ promise' = promise /\ call' = call /\ told' = told
    BY <1>7 DEF vars
  <2>2. DbTypes' /\ CallInv' /\ NestInv'
    BY <2>1 DEF DbInv, DbTypes, CallInv, CallOK, NestInv, In, Running, Children, Top
  <2>3. FrameInv' /\ DriverInv'
    BY <2>1 DEF DbInv, FrameInv, DriverInv, In, CommittedRows
  <2>4. \A c \in Caller : Mine(c)' = Mine(c)
    BY <2>1, SameMine
  <2>5. RowsInv'
    BY <2>1, <2>4 DEF DbInv, RowsInv, Live, Level, Nested, Answered, Top
  <2>6. SaveInv'
    BY <2>1, <2>4, SavesStay DEF DbInv, Answered, Top, SaveInv
  <2> QED
    BY <2>2, <2>3, <2>5, <2>6 DEF DbInv
<1> QED
  BY <1>1, <1>2, <1>3, <1>4, <1>5, <1>6, <1>7 DEF Next

LEMMA DbImplies == DbInv => CommittedIsDurable
<1> SUFFICES ASSUME DbInv, NEW c \in Caller, Top(c), told[c] = "ok",
                    NEW k \in Children(c) \cup {c}, told[k] = "ok"
             PROVE  RowsOf(k) \subseteq disk
  BY DEF CommittedIsDurable
<1>1. Mine(c) \subseteq disk
  BY DEF DbInv, SaveInv, Answered
<1>2. RowsOf(k) \subseteq Mine(c)
  <2>1. CASE k = c
    <3>1. call[c].written = Statements
      BY DEF DbInv, CallInv, CallOK
    <3> QED
      BY <2>1, <3>1 DEF RowsOf, Mine
  <2>2. CASE k \in Children(c)
    BY <2>2 DEF Mine
  <2> QED
    BY <2>1, <2>2
<1> QED
  BY <1>1, <1>2

(* When calls that do not know of each other do not overlap, what the      *)
(* caller of transaction() was told is committed, with the nested calls    *)
(* that succeeded in it, is there for the next process: on every driver,   *)
(* for every tree of calls, whatever statement throws, whatever save fails *)
(* and wherever the process dies (database.ts, wasm.ts).                   *)
THEOREM AnswersAreDurable == Overlap = FALSE => (Spec => []CommittedIsDurable)
<1>1. Init => DbInv
  BY InitDb
<1>2. Overlap = FALSE /\ DbInv /\ [Next]_vars => DbInv'
  BY NextDb
<1>3. DbInv => CommittedIsDurable
  BY DbImplies
<1> SUFFICES ASSUME Overlap = FALSE PROVE Spec => []CommittedIsDurable
  OBVIOUS
<1>4. DbInv /\ [Next]_vars => DbInv'
  BY <1>2
<1> QED
  BY <1>1, <1>3, <1>4, PTL DEF Spec

-----------------------------------------------------------------------------
(* What a new process finds is whole transactions, and plain writes stay.  *)
(* The rows of a call are in everything SQLite or the driver holds as a    *)
(* whole or not at all, once the call is in no transaction; while it is in *)
(* one, what was there before it began has none of them.                   *)
NoneIn(X, c) == RowsOf(c) \cap X = {}
Clear(X, c) == \A k \in Children(c) \cup {c} : NoneIn(X, k)
Full(X, c) == RowsOf(c) \subseteq X

Sound(X) ==
    \A c \in Caller :
        /\ ~In(c) => Full(X, c) \/ NoneIn(X, c)
        /\ call[c].pc = "idle" => NoneIn(X, c)
        /\ NoneIn(X, c) \/ In(Parent[c]) \/ Full(X, Parent[c])

(* The images there are: of the connection, of the disk, the ones a frame  *)
(* goes back to and the ones that are being saved.                         *)
HeldSets ==
    {image, disk} \cup {stack[j].before : j \in DOMAIN stack} \cup {saves[i].rows : i \in DOMAIN saves}

OlderInv ==
    \A c \in Caller : In(c) =>
        /\ call[c].pc # "released" => IsOpen(call[c].name)
        /\ call[c].pc = "drop" => Clear(image, c)
        /\ Clear(disk, c)
        /\ \A i \in DOMAIN saves : Clear(saves[i].rows, c)
        /\ \A j \in DOMAIN stack : stack[j].name <= call[c].name => Clear(stack[j].before, c)

WholeInv == OlderInv /\ \A X \in HeldSets : Sound(X)

(* The plain writes that were answered, and what is saved last.            *)
Plain == {<<w, 1>> : w \in {w \in Writer : told[w] = "ok"}}
Latest == IF saves = <<>> THEN disk ELSE saves[Len(saves)].rows
PlainIn ==
    /\ Plain \subseteq image
    /\ \A j \in DOMAIN stack : Plain \subseteq stack[j].before
    /\ Wasm /\ ~dirty => Plain \subseteq Latest
Unspent == spent.crashes = 0 /\ spent.faults = 0
PlainInv ==
    /\ spent \in [throws : Nat, faults : Nat, closes : Nat, crashes : Nat]
    /\ Unspent => PlainIn

-----------------------------------------------------------------------------
LEMMA HeldStay ==
    ASSUME image' \in HeldSets, disk' \in HeldSets,
           \A j \in DOMAIN stack' : stack'[j].before \in HeldSets,
           \A i \in DOMAIN saves' : saves'[i].rows \in HeldSets
    PROVE  HeldSets' \subseteq HeldSets
BY DEF HeldSets

(* A call may leave its transaction when an image has all of it or nothing *)
(* of it and of its children.                                              *)
LEMMA SoundStays ==
    ASSUME NEW X, Sound(X),
           \A d \in Caller : call'[d].pc = "idle" => call[d].pc = "idle",
           \A d \in Caller : In(d) /\ ~In(d)' => Clear(X, d) \/ Full(X, d)
    PROVE  Sound(X)'
<1> SUFFICES ASSUME NEW d \in Caller
             PROVE  /\ ~In(d)' => Full(X, d) \/ NoneIn(X, d)
                    /\ call'[d].pc = "idle" => NoneIn(X, d)
                    /\ NoneIn(X, d) \/ In(Parent[d])' \/ Full(X, Parent[d])
  BY DEF Sound, Full, NoneIn, RowsOf
<1>1. Parent[d] \in Caller
  BY TransactionAssumption
<1>2. ~In(d)' => Full(X, d) \/ NoneIn(X, d)
  BY DEF Sound, Clear
<1>3. In(Parent[d]) /\ ~In(Parent[d])' => NoneIn(X, d) \/ Full(X, Parent[d])
  <2>1. d \in Children(Parent[d]) \cup {Parent[d]}
    BY DEF Children
  <2> QED
    BY <1>1, <2>1 DEF Clear
<1> QED
  BY <1>1, <1>2, <1>3 DEF Sound

(* A row of no call changes nothing. *)
LEMMA SoundWithMore ==
    ASSUME NEW X, NEW w, w \notin Caller, Sound(X)
    PROVE  Sound(X \cup {<<w, 1>>})
<1>1. \A c \in Caller : <<w, 1>> \notin RowsOf(c)
  BY DEF RowsOf
<1>2. \A c \in Caller : (NoneIn(X, c) => NoneIn(X \cup {<<w, 1>>}, c)) /\ (Full(X, c) => Full(X \cup {<<w, 1>>}, c))
  BY <1>1 DEF NoneIn, Full
<1> QED
  BY <1>2, TransactionAssumption DEF Sound

(* What has not begun is nowhere. *)
LEMMA IdleIsClear ==
    ASSUME DbInv, WholeInv, NEW c \in Caller, call[c].pc = "idle", NEW X \in HeldSets
    PROVE  Clear(X, c)
<1>1. \A k \in Children(c) : k \in Caller /\ call[k].pc = "idle"
  BY DEF DbInv, CallInv, CallOK, Children
<1> QED
  BY <1>1 DEF WholeInv, Sound, Clear

(* Of the innermost call, only the connection has rows. *)
LEMMA ClearBelow ==
    ASSUME DbInv, WholeInv, NEW c \in Caller, In(c), Leaves(c), NEW X \in HeldSets
    PROVE  X = image \/ Clear(X, c)
<1>1. \A j \in DOMAIN stack : Clear(stack[j].before, c)
  <2> SUFFICES ASSUME NEW j \in DOMAIN stack PROVE Clear(stack[j].before, c)
    OBVIOUS
  <2>1. ~(stack[j].name > call[c].name)
    BY NothingAbove DEF DbInv, Leaves
  <2>2. stack[j].name \in Nat /\ call[c].name \in Nat
    <3>1. stack[j] \in FrameOf
      BY DEF DbInv, DbTypes
    <3> QED
      BY <3>1, Numbers DEF DbInv, FrameOf
  <2>3. stack[j].name <= call[c].name
    BY <2>1, <2>2
  <2> QED
    BY <2>3 DEF WholeInv, OlderInv
<1> QED
  BY <1>1 DEF WholeInv, OlderInv, HeldSets

(* Two calls are not both innermost. *)
LEMMA OneLeaves ==
    ASSUME DbInv, NEW c \in Caller, NEW d \in Caller, In(c), In(d), Leaves(c), Leaves(d)
    PROVE  c = d
<1> SUFFICES ASSUME c # d PROVE FALSE
  OBVIOUS
<1>1. call[c].name < call[d].name
  BY Innermost DEF DbInv, Leaves
<1>2. call[d].name < call[c].name
  BY Innermost DEF DbInv, Leaves
<1>3. call[c].name \in Nat /\ call[d].name \in Nat
  BY Numbers DEF DbInv
<1> QED
  BY <1>1, <1>2, <1>3

LEMMA AllWritten ==
    ASSUME DbInv, NEW c \in Caller, call[c].pc \in {"body", "released"}, call[c].written = Statements
    PROVE  Full(image, c)
<1>1. Live(c)
  BY DEF Live, Nested
<1>2. Mine(c) \subseteq image
  BY <1>1 DEF DbInv, RowsInv, Safe
<1>3. RowsOf(c) \subseteq Mine(c)
  BY DEF RowsOf, Mine
<1> QED
  BY <1>2, <1>3 DEF Full

(* When no call is in a transaction, nothing is older than one. *)
LEMMA NobodyIsIn ==
    ASSUME \A c \in Caller : ~In(c)'
    PROVE  OlderInv'
BY DEF OlderInv

(* A step of the innermost call, or one that leaves the connection alone.  *)
LEMMA OlderStays ==
    ASSUME DbInv, OlderInv, NEW c \in Caller, Only(c), (In(c) /\ Leaves(c)) \/ image' = image,
           \A d \in Caller : In(d)' => In(d), call'[c].name = call[c].name,
           disk' = disk, saves' = saves,
           \A j \in DOMAIN stack' : j \in DOMAIN stack /\ stack'[j] = stack[j],
           \A d \in Caller \ {c} : In(d) /\ call[d].pc # "released" => IsOpen(call[d].name)',
           In(c)' /\ call'[c].pc # "released" => IsOpen(call[c].name)',
           In(c)' /\ call'[c].pc = "drop" => Clear(image', c)
    PROVE  OlderInv'
<1> SUFFICES ASSUME NEW d \in Caller, In(d)'
             PROVE  /\ call'[d].pc # "released" => IsOpen(call[d].name)'
                    /\ call'[d].pc = "drop" => Clear(image', d)
                    /\ Clear(disk', d)
                    /\ \A i \in DOMAIN saves' : Clear(saves'[i].rows, d)
                    /\ \A j \in DOMAIN stack' : stack'[j].name <= call'[d].name => Clear(stack'[j].before, d)
  BY DEF OlderInv, Clear, NoneIn, RowsOf, Children, IsOpen
<1>1. In(d) /\ call'[d].name = call[d].name
  BY DEF Only
<1>2. Clear(disk', d) /\ \A i \in DOMAIN saves' : Clear(saves'[i].rows, d)
  BY <1>1 DEF OlderInv
<1>3. \A j \in DOMAIN stack' : stack'[j].name <= call'[d].name => Clear(stack'[j].before, d)
  BY <1>1 DEF OlderInv
<1>4. CASE d = c
  BY <1>1, <1>2, <1>3, <1>4 DEF IsOpen
<1>5. CASE d # c
  <2>1. call'[d] = call[d]
    BY <1>5 DEF Only
  <2>2. call[d].pc = "drop" => image' = image
    BY <1>1, <1>5, OneLeaves DEF Leaves
  <2>3. call[d].pc = "drop" => Clear(image', d)
    BY <1>1, <2>2 DEF OlderInv
  <2> QED
    BY <1>1, <1>2, <1>3, <1>5, <2>1, <2>3 DEF IsOpen
<1> QED
  BY <1>4, <1>5

(* The frames of the others are below that of the innermost call. *)
LEMMA OthersAreBelow ==
    ASSUME DbInv, NEW c \in Caller, In(c), Leaves(c), NEW f \in DOMAIN stack, stack[f].name = call[c].name,
           NEW d \in Caller \ {c}, In(d), NEW j \in DOMAIN stack, stack[j].name = call[d].name
    PROVE  j \in 1..f - 1
<1>1. call[d].name < call[c].name /\ call[d].name \in Nat /\ call[c].name \in Nat
  BY Innermost, Numbers DEF DbInv, Leaves
<1>2. f \in Nat /\ j \in Nat /\ j >= 1
  BY DEF DbInv, DbTypes
<1>3. f < j => call[c].name < call[d].name
  BY DEF DbInv, FrameInv
<1>4. f # j
  BY <1>1
<1> QED
  BY <1>1, <1>2, <1>3, <1>4

-----------------------------------------------------------------------------
LEMMA BeginOuterWhole ==
    ASSUME DbInv, WholeInv, Overlap = FALSE, NEW c \in Caller, BeginOuter(c)
    PROVE  WholeInv'
<1>1. call[c].pc = "idle" /\ call[c].name = 0
  BY DEF BeginOuter, MayStart, DbInv, CallInv, CallOK
<1>2. call \in [Caller -> CallOf] /\ stack \in Seq(FrameOf)
  BY DEF DbInv, DbTypes
<1>3. CASE Top(c)
  <2>1. Between
    BY <1>3 DEF BeginOuter, MayStart, MayInterleave
  <2>2. stack = <<>> /\ \A d \in Caller : ~In(d)
    BY <2>1, BetweenIsQuiet DEF DbInv
  <2>3. /\ call' = [call EXCEPT ![c].pc = "begun"] /\ image' = image /\ disk' = disk /\ saves' = saves
        /\ stack' = <<[name |-> 0, before |-> image]>>
    BY <2>2 DEF BeginOuter, Goto, Execute
  <2>4. call'[c].pc = "begun" /\ call'[c].name = 0 /\ \A d \in Caller \ {c} : call'[d] = call[d]
    BY <1>1, <1>2, <2>3, CallShape DEF DbInv
  <2>5. DOMAIN stack' = {1} /\ stack'[1].name = 0 /\ stack'[1].before = image
    BY <2>3
  <2>6. HeldSets' \subseteq HeldSets
    BY <2>3, <2>5, HeldStay DEF HeldSets
  <2>7. \A X \in HeldSets' : Sound(X)'
    BY <1>1, <2>2, <2>4, <2>6, SoundStays DEF WholeInv
  <2>8. \A d \in Caller : In(d)' => d = c
    <3>1. \A d \in Caller \ {c} : call[d].pc \in {"idle", "saving", "waiting", "done"}
      BY <2>1 DEF Between
    <3> QED
      BY <2>4, <3>1 DEF In
  <2>9. \A X \in HeldSets : Clear(X, c)
    BY <1>1, IdleIsClear
  <2>10. Clear(disk, c) /\ Clear(image, c) /\ \A i \in DOMAIN saves : Clear(saves[i].rows, c)
    BY <2>9 DEF HeldSets
  <2>11. OlderInv'
    <3>1. IsOpen(call[c].name)'
      BY <2>4, <2>5 DEF IsOpen
    <3>2. /\ call'[c].pc # "drop" /\ Clear(disk', c) /\ \A i \in DOMAIN saves' : Clear(saves'[i].rows, c)
          /\ \A j \in DOMAIN stack' : Clear(stack'[j].before, c)
      BY <2>3, <2>4, <2>5, <2>10
    <3> QED
      BY <2>8, <3>1, <3>2 DEF OlderInv, Clear, NoneIn, RowsOf, Children, IsOpen
  <2> QED
    BY <2>7, <2>11 DEF WholeInv
<1>4. CASE ~Top(c)
  <2>1. call[Parent[c]].pc = "body" /\ Parent[c] \in Caller
    BY <1>4, TransactionAssumption DEF BeginOuter, MayStart
  <2>2. stack # <<>>
    BY <2>1 DEF DbInv, FrameInv, In
  <2>3. /\ call' = [call EXCEPT ![c].pc = "done"] /\ told' = [told EXCEPT ![c] = "error"]
        /\ image' = image /\ stack' = stack /\ disk' = disk /\ saves' = saves
    BY <2>2 DEF BeginOuter, Return, Goto
  <2>4. call'[c].pc = "done" /\ call'[c].name = call[c].name /\ Only(c) /\ \A d \in Caller \ {c} : call'[d] = call[d]
    BY <1>1, <1>2, <2>3, CallShape DEF DbInv, Only
  <2>5. \A d \in Caller : In(d)' <=> In(d)
    BY <1>1, <2>3, <2>4 DEF In
  <2>6. HeldSets' = HeldSets
    BY <2>3 DEF HeldSets
  <2>7. \A X \in HeldSets' : Sound(X)'
    BY <1>1, <2>4, <2>5, <2>6, SoundStays DEF WholeInv
  <2>8. ~In(c)'
    BY <2>4 DEF In
  <2>9. \A d \in Caller \ {c} : In(d) /\ call[d].pc # "released" => IsOpen(call[d].name)'
    BY <2>3, <2>4 DEF WholeInv, OlderInv, IsOpen
  <2>10. OlderInv'
    BY <2>3, <2>4, <2>5, <2>8, <2>9, OlderStays DEF WholeInv
  <2> QED
    BY <2>7, <2>10 DEF WholeInv
<1> QED
  BY <1>3, <1>4

LEMMA BeginNestedWhole ==
    ASSUME DbInv, WholeInv, Overlap = FALSE, NEW c \in Caller, BeginNested(c)
    PROVE  WholeInv'
<1> DEFINE p == Parent[c]
<1>1. call[c].pc = "idle"
  BY DEF BeginNested, MayStart
<1>2. ~Top(c)
  BY BetweenIsQuiet DEF BeginNested, MayStart, MayInterleave, DbInv
<1>3. p \in Caller /\ call[p].pc = "body" /\ In(p) /\ Leaves(p)
  BY <1>2, TransactionAssumption DEF BeginNested, MayStart, InBody, In, Leaves
<1>4. stack # <<>> /\ stack \in Seq(FrameOf) /\ seq \in Nat /\ call \in [Caller -> CallOf]
  BY <1>3 DEF DbInv, DbTypes, FrameInv
<1>5. /\ call' = [call EXCEPT ![c].pc = "begun", ![c].name = seq + 1] /\ image' = image /\ saves' = saves
      /\ stack' = Append(stack, [name |-> seq + 1, before |-> image])
  BY DEF BeginNested, Execute
<1>6. /\ DOMAIN stack' = DOMAIN stack \cup {Len(stack) + 1} /\ stack' # <<>>
      /\ stack'[Len(stack) + 1] = [name |-> seq + 1, before |-> image]
      /\ \A j \in DOMAIN stack : stack'[j] = stack[j]
  BY <1>4, <1>5
<1>7. disk' = disk
  BY <1>5, <1>6 DEF BeginNested, Execute
<1>8. call'[c].pc = "begun" /\ call'[c].name = seq + 1 /\ \A d \in Caller \ {c} : call'[d] = call[d]
  BY <1>4, <1>5, CallShape DEF DbInv
<1>9. stack'[Len(stack) + 1].before = image /\ stack'[Len(stack) + 1].name = seq + 1
  BY <1>6
<1>10. HeldSets' \subseteq HeldSets
  BY <1>5, <1>6, <1>7, <1>9, HeldStay DEF HeldSets
<1>11. \A d \in Caller \ {c} : In(d)' <=> In(d)
  BY <1>4, <1>6, <1>8 DEF In
<1>12. ~In(c)
  BY <1>1 DEF In
<1>13. \A X \in HeldSets' : Sound(X)'
  BY <1>1, <1>8, <1>10, <1>11, <1>12, SoundStays DEF WholeInv
<1>14. OlderInv'
  <2> SUFFICES ASSUME NEW d \in Caller, In(d)'
               PROVE  /\ call'[d].pc # "released" => IsOpen(call[d].name)'
                      /\ call'[d].pc = "drop" => Clear(image', d)
                      /\ Clear(disk', d)
                      /\ \A i \in DOMAIN saves' : Clear(saves'[i].rows, d)
                      /\ \A j \in DOMAIN stack' : stack'[j].name <= call'[d].name => Clear(stack'[j].before, d)
    BY DEF OlderInv, Clear, NoneIn, RowsOf, Children, IsOpen
  <2>1. CASE d = c
    <3>1. \A X \in HeldSets' : Clear(X, c)
      BY <1>1, <1>10, IdleIsClear
    <3>2. IsOpen(call[c].name)'
      BY <1>6, <1>8, <1>9 DEF IsOpen
    <3>3. /\ Clear(disk', c) /\ \A i \in DOMAIN saves' : Clear(saves'[i].rows, c)
          /\ \A j \in DOMAIN stack' : Clear(stack'[j].before, c)
      BY <3>1 DEF HeldSets
    <3> QED
      BY <1>8, <2>1, <3>2, <3>3
  <2>2. CASE d # c
    <3>1. In(d) /\ call'[d] = call[d]
      BY <1>8, <1>11, <2>2
    <3>2. call[d].pc # "drop"
      BY <1>3, <3>1, OneLeaves DEF Leaves
    <3>3. call'[d].pc # "released" => IsOpen(call[d].name)'
      BY <1>6, <3>1 DEF WholeInv, OlderInv, IsOpen
    <3>4. Clear(disk', d) /\ \A i \in DOMAIN saves' : Clear(saves'[i].rows, d)
      BY <1>5, <1>7, <3>1 DEF WholeInv, OlderInv
    <3>5. ~(stack'[Len(stack) + 1].name <= call'[d].name)
      <4>1. call[d].name <= seq /\ call[d].name \in Nat
        BY <3>1, Numbers DEF DbInv, NestInv
      <4> QED
        BY <1>4, <1>9, <3>1, <4>1
    <3>6. \A j \in DOMAIN stack' : stack'[j].name <= call'[d].name => Clear(stack'[j].before, d)
      BY <1>6, <3>1, <3>5 DEF WholeInv, OlderInv
    <3> QED
      BY <3>1, <3>2, <3>3, <3>4, <3>6
  <2> QED
    BY <2>1, <2>2
<1> QED
  BY <1>13, <1>14 DEF WholeInv

(* A step that only moves a call within its transaction. *)
LEMMA MoveWhole ==
    ASSUME DbInv, WholeInv, NEW c \in Caller, In(c), call[c].pc # "released",
           NEW pc \in {"body", "catch"}, call' = [call EXCEPT ![c].pc = pc],
           image' = image, stack' = stack, disk' = disk, saves' = saves, told' = told
    PROVE  WholeInv'
<1>1. call'[c].pc = pc /\ call'[c].name = call[c].name /\ Only(c) /\ \A d \in Caller \ {c} : call'[d] = call[d]
  BY CallShape DEF DbInv, DbTypes, Only
<1>2. stack # <<>>
  BY DEF DbInv, FrameInv
<1>3. \A d \in Caller : In(d)' <=> In(d)
  BY <1>1, <1>2 DEF In
<1>4. HeldSets' = HeldSets
  BY DEF HeldSets
<1>5. \A X \in HeldSets' : Sound(X)'
  BY <1>1, <1>3, <1>4, SoundStays DEF WholeInv
<1>6. \A d \in Caller : In(d) /\ call[d].pc # "released" => IsOpen(call[d].name)'
  BY <1>1 DEF WholeInv, OlderInv, IsOpen
<1>7. IsOpen(call[c].name)'
  BY <1>6
<1>8. OlderInv'
  BY <1>1, <1>3, <1>6, <1>7, OlderStays DEF WholeInv
<1> QED
  BY <1>5, <1>8 DEF WholeInv

LEMMA EnteredWhole ==
    ASSUME DbInv, WholeInv, NEW c \in Caller, Entered(c)
    PROVE  WholeInv'
<1>1. call[c].pc = "begun" /\ In(c)
  BY DEF Entered, In
<1>2. /\ call' = [call EXCEPT ![c].pc = "body"]
      /\ image' = image /\ stack' = stack /\ disk' = disk /\ saves' = saves /\ told' = told
  BY DEF Entered, Goto, driver
<1> QED
  BY <1>1, <1>2, MoveWhole

LEMMA ThrowWhole ==
    ASSUME DbInv, WholeInv, NEW c \in Caller, Throw(c)
    PROVE  WholeInv'
<1>1. call[c].pc = "body" /\ In(c)
  BY DEF Throw, InBody, In
<1>2. /\ call' = [call EXCEPT ![c].pc = "catch"]
      /\ image' = image /\ stack' = stack /\ disk' = disk /\ saves' = saves /\ told' = told
  BY DEF Throw, Goto, driver
<1> QED
  BY <1>1, <1>2, MoveWhole

LEMMA WriteWhole ==
    ASSUME DbInv, WholeInv, NEW c \in Caller, Write(c)
    PROVE  WholeInv'
<1> DEFINE row == <<c, call[c].written + 1>>
<1>1. call[c].pc = "body" /\ In(c) /\ Leaves(c) /\ stack # <<>>
  BY DEF Write, InBody, In, Leaves, DbInv, FrameInv
<1>2. /\ call' = [call EXCEPT ![c].written = @ + 1]
      /\ image' = image \cup {row} /\ stack' = stack /\ disk' = disk /\ saves' = saves /\ told' = told
  BY <1>1 DEF Write, Execute
<1>3. /\ call'[c].pc = "body" /\ call'[c].name = call[c].name /\ Only(c)
      /\ \A d \in Caller \ {c} : call'[d] = call[d]
  BY <1>1, <1>2, CallShape DEF DbInv, DbTypes, Only
<1>4. \A d \in Caller : In(d)' <=> In(d)
  BY <1>1, <1>2, <1>3 DEF In
<1>5. \A d \in Caller : call'[d].pc = "idle" => call[d].pc = "idle"
  BY <1>1, <1>3
<1>6. In(Parent[c])
  <2>1. Parent[c] \in Caller
    BY TransactionAssumption
  <2>2. ~Top(c) => call[Parent[c]].pc = "body"
    BY <1>1 DEF DbInv, NestInv, Running
  <2> QED
    BY <1>1, <2>1, <2>2 DEF Top, In
<1>7. \A X \in HeldSets' : X = image' \/ X \in HeldSets
  BY <1>2 DEF HeldSets
<1>8. Sound(image) /\ \A X \in HeldSets : Sound(X)
  BY DEF WholeInv, HeldSets
<1>9. \A d \in Caller \ {c} : row \notin RowsOf(d)
  BY DEF RowsOf
<1>10. ASSUME NEW X, X = image' PROVE Sound(X)'
  <2>1. X = image \cup {row}
    BY <1>2, <1>10
  <2>2. \A d \in Caller \ {c} : NoneIn(image, d) => NoneIn(X, d)
    BY <1>9, <2>1 DEF NoneIn
  <2>3. \A d \in Caller : Full(image, d) => Full(X, d)
    BY <2>1 DEF Full
  <2> SUFFICES ASSUME NEW d \in Caller
               PROVE  /\ ~In(d)' => Full(X, d) \/ NoneIn(X, d)
                      /\ call'[d].pc = "idle" => NoneIn(X, d)
                      /\ NoneIn(X, d) \/ In(Parent[d])' \/ Full(X, Parent[d])
    BY DEF Sound, Full, NoneIn, RowsOf
  <2>4. Parent[d] \in Caller
    BY TransactionAssumption
  <2>5. CASE d = c
    BY <1>1, <1>3, <1>4, <1>6, <2>4, <2>5
  <2>6. CASE d # c
    BY <1>3, <1>4, <1>8, <2>2, <2>3, <2>4, <2>6 DEF Sound
  <2> QED
    BY <2>5, <2>6
<1>11. \A X \in HeldSets' : Sound(X)'
  <2> SUFFICES ASSUME NEW X \in HeldSets', X # image' PROVE Sound(X)'
    BY <1>10
  <2>1. Sound(X)
    BY <1>7, <1>8
  <2> QED
    BY <1>4, <1>5, <2>1, SoundStays
<1>12. \A d \in Caller : In(d) /\ call[d].pc # "released" => IsOpen(call[d].name)'
  BY <1>2, <1>3 DEF WholeInv, OlderInv, IsOpen
<1>13. OlderInv'
  BY <1>1, <1>2, <1>3, <1>4, <1>12, OlderStays DEF WholeInv
<1> QED
  BY <1>11, <1>13 DEF WholeInv

-----------------------------------------------------------------------------
LEMMA CommitWhole ==
    ASSUME DbInv, WholeInv, NEW c \in Caller, Commit(c)
    PROVE  WholeInv'
<1>1. /\ call[c].pc = "body" /\ In(c) /\ Leaves(c) /\ stack # <<>>
      /\ call[c].name = 0 /\ call[c].written = Statements
  BY DEF Commit, InBody, In, Leaves, DbInv, FrameInv
<1>2. /\ call' = [call EXCEPT ![c].pc = "committed"] /\ image' = image /\ stack' = <<>>
      /\ disk' \in {image, disk} /\ saves' = saves
  BY <1>1 DEF Commit, Goto, Execute
<1>3. call'[c].pc = "committed" /\ \A d \in Caller \ {c} : call'[d] = call[d]
  BY <1>2, CallShape DEF DbInv, DbTypes
<1>4. \A d \in Caller \ {c} : ~In(d)
  BY <1>1, OuterIsAlone DEF DbInv, Leaves
<1>5. HeldSets' \subseteq HeldSets
  BY <1>2, HeldStay DEF HeldSets
<1>6. \A d \in Caller : call'[d].pc = "idle" => call[d].pc = "idle"
  BY <1>3
<1>7. Full(image, c)
  BY <1>1, AllWritten
<1>8. \A X \in HeldSets : Clear(X, c) \/ Full(X, c)
  BY <1>1, <1>7, ClearBelow
<1>9. \A X \in HeldSets' : Sound(X)'
  BY <1>4, <1>5, <1>6, <1>8, SoundStays DEF WholeInv
<1>10. \A d \in Caller : ~In(d)'
  BY <1>2, <1>3, <1>4 DEF In
<1> QED
  BY <1>9, <1>10, NobodyIsIn DEF WholeInv

(* The innermost call ends its frame: those of the others stay. *)
LEMMA OthersStayOpen ==
    ASSUME DbInv, WholeInv, NEW c \in Caller, In(c), Leaves(c), IsOpen(call[c].name),
           NEW m \in Nat, m = Frame(call[c].name) \/ m = Frame(call[c].name) - 1,
           m <= Len(stack), stack' = SubSeq(stack, 1, m),
           NEW d \in Caller \ {c}, In(d), call[d].pc # "released", call'[d] = call[d]
    PROVE  IsOpen(call[d].name)'
<1> DEFINE f == Frame(call[c].name)
<1>1. f \in DOMAIN stack /\ stack[f].name = call[c].name
  BY FrameFound
<1>2. PICK j \in DOMAIN stack : stack[j].name = call[d].name
  BY DEF WholeInv, OlderInv, IsOpen
<1>3. j \in 1..f - 1
  BY <1>1, <1>2, OthersAreBelow
<1>4. stack \in Seq(FrameOf)
  BY DEF DbInv, DbTypes
<1>5. f \in Nat /\ j \in 1..m
  BY <1>1, <1>3, <1>4
<1>6. j \in DOMAIN stack' /\ stack'[j] = stack[j]
  BY <1>4, <1>5
<1> QED
  BY <1>2, <1>6 DEF IsOpen

LEMMA ReleaseWhole ==
    ASSUME DbInv, WholeInv, NEW c \in Caller, Release(c)
    PROVE  WholeInv'
<1>1. call[c].pc = "body" /\ In(c) /\ Leaves(c) /\ call[c].name # 0
  BY DEF Release, InBody, In, Leaves
<1>2. IsOpen(call[c].name)
  BY <1>1 DEF WholeInv, OlderInv
<1>3. /\ Execute(image, Below(c)) /\ call' = [call EXCEPT ![c].pc = "released"] /\ told' = told
      /\ image' = image /\ stack' = Below(c) /\ saves' = saves
  BY <1>2 DEF Release, Goto, Execute, Below
<1>4. /\ stack' # <<>> /\ Frame(call[c].name) - 1 \in 0..Len(stack)
      /\ DOMAIN stack' \subseteq DOMAIN stack /\ \A i \in DOMAIN stack' : stack'[i] = stack[i]
  BY <1>1, <1>2, <1>3, FramesBelow
<1>5. disk' = disk
  BY <1>3, <1>4 DEF Execute
<1>6. /\ call'[c].pc = "released" /\ call'[c].name = call[c].name /\ Only(c)
      /\ \A d \in Caller \ {c} : call'[d] = call[d]
  BY <1>3, CallShape DEF DbInv, DbTypes, Only
<1>7. \A d \in Caller : In(d)' <=> In(d)
  BY <1>1, <1>4, <1>6 DEF In, DbInv, FrameInv
<1>8. HeldSets' \subseteq HeldSets
  BY <1>3, <1>4, <1>5, HeldStay DEF HeldSets
<1>9. \A d \in Caller : call'[d].pc = "idle" => call[d].pc = "idle"
  BY <1>6
<1>10. \A X \in HeldSets' : Sound(X)'
  BY <1>7, <1>8, <1>9, SoundStays DEF WholeInv
<1>11. \A d \in Caller \ {c} : In(d) /\ call[d].pc # "released" => IsOpen(call[d].name)'
  <2>1. stack' = SubSeq(stack, 1, Frame(call[c].name) - 1)
    BY <1>3 DEF Below
  <2>2. Frame(call[c].name) - 1 \in Nat /\ Frame(call[c].name) - 1 <= Len(stack)
    BY <1>4
  <2> QED
    BY <1>1, <1>2, <1>6, <2>1, <2>2, OthersStayOpen
<1>12. OlderInv'
  BY <1>3, <1>4, <1>5, <1>6, <1>7, <1>11, OlderStays DEF WholeInv
<1> QED
  BY <1>10, <1>12 DEF WholeInv

LEMMA ReleasedWhole ==
    ASSUME DbInv, WholeInv, NEW c \in Caller, Released(c)
    PROVE  WholeInv'
<1>1. call[c].pc = "released" /\ In(c) /\ Leaves(c) /\ call[c].written = Statements
  BY DEF Released, In, Leaves, DbInv, CallInv, CallOK
<1>2. /\ call' = [call EXCEPT ![c].pc = "done"] /\ told' = [told EXCEPT ![c] = "ok"]
      /\ image' = image /\ stack' = stack /\ disk' = disk /\ saves' = saves
  BY DEF Released, Return, Goto, driver
<1>3. /\ call'[c].pc = "done" /\ call'[c].name = call[c].name /\ Only(c)
      /\ \A d \in Caller \ {c} : call'[d] = call[d]
  BY <1>2, CallShape DEF DbInv, DbTypes, Only
<1>4. ~In(c)' /\ \A d \in Caller \ {c} : In(d)' <=> In(d)
  BY <1>2, <1>3 DEF In
<1>5. HeldSets' = HeldSets
  BY <1>2 DEF HeldSets
<1>6. \A X \in HeldSets : Clear(X, c) \/ Full(X, c)
  BY <1>1, AllWritten, ClearBelow
<1>7. \A d \in Caller : call'[d].pc = "idle" => call[d].pc = "idle"
  BY <1>3
<1>8. \A X \in HeldSets' : Sound(X)'
  BY <1>4, <1>5, <1>6, <1>7, SoundStays DEF WholeInv
<1>9. \A d \in Caller \ {c} : In(d) /\ call[d].pc # "released" => IsOpen(call[d].name)'
  BY <1>2, <1>3 DEF WholeInv, OlderInv, IsOpen
<1>10. OlderInv'
  BY <1>2, <1>3, <1>4, <1>9, OlderStays DEF WholeInv
<1> QED
  BY <1>8, <1>10 DEF WholeInv

LEMMA RollbackWhole ==
    ASSUME DbInv, WholeInv, NEW c \in Caller, Rollback(c)
    PROVE  WholeInv'
<1>1. call[c].pc = "catch" /\ call[c].name = 0 /\ Leaves(c)
  BY DEF Rollback, Leaves
<1>2. /\ call' = [call EXCEPT ![c].pc = "done"] /\ saves' = saves /\ stack' = <<>>
      /\ image' = CommittedRows /\ disk' \in {disk, image'}
  BY DEF Rollback, Return, Goto, Execute, CommittedRows
<1>3. call'[c].pc = "done" /\ \A d \in Caller \ {c} : call'[d] = call[d]
  BY <1>2, CallShape DEF DbInv, DbTypes
<1>4. \A d \in Caller \ {c} : ~In(d)
  <2>1. CASE stack # <<>>
    <3>1. In(c)
      BY <1>1, <2>1 DEF In
    <3> QED
      BY <1>1, <3>1, OuterIsAlone DEF DbInv, Leaves
  <2>2. CASE stack = <<>>
    BY <2>2 DEF DbInv, FrameInv
  <2> QED
    BY <2>1, <2>2
<1>5. stack \in Seq(FrameOf)
  BY DEF DbInv, DbTypes
<1>6. CommittedRows \in HeldSets /\ (In(c) => Clear(CommittedRows, c))
  <2>1. CASE stack = <<>>
    BY <1>1, <2>1 DEF CommittedRows, HeldSets, In
  <2>2. CASE stack # <<>>
    <3>1. 1 \in DOMAIN stack /\ CommittedRows = stack[1].before
      BY <1>5, <2>2 DEF CommittedRows
    <3>2. In(c) => stack[1].name <= call[c].name
      BY <1>1 DEF DbInv, FrameInv
    <3> QED
      BY <3>1, <3>2 DEF HeldSets, WholeInv, OlderInv
  <2> QED
    BY <2>1, <2>2
<1>7. HeldSets' \subseteq HeldSets
  BY <1>2, <1>6, HeldStay DEF HeldSets
<1>8. In(c) => \A X \in HeldSets' : Clear(X, c)
  <2> SUFFICES ASSUME In(c), NEW X \in HeldSets' PROVE Clear(X, c)
    OBVIOUS
  <2>1. X = CommittedRows \/ X = disk \/ \E i \in DOMAIN saves : X = saves[i].rows
    BY <1>2 DEF HeldSets
  <2> QED
    BY <1>6, <2>1 DEF WholeInv, OlderInv
<1>9. \A d \in Caller : call'[d].pc = "idle" => call[d].pc = "idle"
  BY <1>3
<1>10. \A X \in HeldSets' : Sound(X)'
  BY <1>4, <1>7, <1>8, <1>9, SoundStays DEF WholeInv
<1>11. \A d \in Caller : ~In(d)'
  BY <1>2, <1>3, <1>4 DEF In
<1> QED
  BY <1>10, <1>11, NobodyIsIn DEF WholeInv

LEMMA UndoWhole ==
    ASSUME DbInv, WholeInv, NEW c \in Caller, Undo(c)
    PROVE  WholeInv'
<1> DEFINE i == Frame(call[c].name)
<1>1. call[c].pc = "catch" /\ call[c].name # 0 /\ Leaves(c) /\ In(c)
  BY DEF Undo, DbInv, CallInv, CallOK, Leaves, In
<1>2. stack # <<>> /\ stack \in Seq(FrameOf)
  BY <1>1, BelowIsTheOuter
<1>3. IsOpen(call[c].name)
  BY <1>1 DEF WholeInv, OlderInv
<1>4. /\ Execute(stack[i].before, SubSeq(stack, 1, i)) /\ call' = [call EXCEPT ![c].pc = "drop"]
      /\ image' = stack[i].before /\ stack' = SubSeq(stack, 1, i) /\ told' = told /\ saves' = saves
  BY <1>3 DEF Undo, Goto, Execute
<1>5. i \in DOMAIN stack /\ stack[i].name = call[c].name
  BY <1>3, FrameFound
<1>6. /\ i \in Nat /\ i <= Len(stack) /\ stack' # <<>> /\ i \in DOMAIN stack'
      /\ DOMAIN stack' \subseteq DOMAIN stack /\ \A j \in DOMAIN stack' : stack'[j] = stack[j]
  <2>1. i \in 1..Len(stack)
    BY <1>2, <1>5
  <2>2. stack' \in Seq(FrameOf) /\ Len(stack') = i /\ \A j \in 1..i : stack'[j] = stack[j]
    BY <1>2, <1>4, <2>1
  <2> QED
    BY <1>2, <2>1, <2>2
<1>7. disk' = disk
  BY <1>4, <1>6 DEF Execute
<1>8. /\ call'[c].pc = "drop" /\ call'[c].name = call[c].name /\ Only(c)
      /\ \A d \in Caller \ {c} : call'[d] = call[d]
  BY <1>4, CallShape DEF DbInv, DbTypes, Only
<1>9. \A d \in Caller : In(d)' <=> In(d)
  BY <1>1, <1>2, <1>6, <1>8 DEF In
<1>10. HeldSets' \subseteq HeldSets
  BY <1>4, <1>5, <1>6, <1>7, HeldStay DEF HeldSets
<1>11. \A d \in Caller : call'[d].pc = "idle" => call[d].pc = "idle"
  BY <1>8
<1>12. \A X \in HeldSets' : Sound(X)'
  BY <1>9, <1>10, <1>11, SoundStays DEF WholeInv
<1>13. \A d \in Caller \ {c} : In(d) /\ call[d].pc # "released" => IsOpen(call[d].name)'
  BY <1>1, <1>3, <1>4, <1>6, <1>8, OthersStayOpen
<1>14. IsOpen(call[c].name)'
  BY <1>5, <1>6, <1>8 DEF IsOpen
<1>15. Clear(image', c)
  <2>1. stack[i].name <= call[c].name
    BY <1>5, Numbers DEF DbInv
  <2> QED
    BY <1>1, <1>4, <1>5, <2>1 DEF WholeInv, OlderInv
<1>16. OlderInv'
  BY <1>1, <1>4, <1>6, <1>7, <1>8, <1>9, <1>13, <1>14, <1>15, OlderStays DEF WholeInv
<1> QED
  BY <1>12, <1>16 DEF WholeInv

LEMMA DropWhole ==
    ASSUME DbInv, WholeInv, NEW c \in Caller, Drop(c)
    PROVE  WholeInv'
<1>1. call[c].pc = "drop" /\ call[c].name # 0 /\ Leaves(c) /\ In(c)
  BY DEF Drop, DbInv, CallInv, CallOK, Leaves, In
<1>2. IsOpen(call[c].name) /\ Clear(image, c)
  BY <1>1 DEF WholeInv, OlderInv
<1>3. /\ Execute(image, Below(c)) /\ call' = [call EXCEPT ![c].pc = "done"] /\ told' = [told EXCEPT ![c] = "error"]
      /\ image' = image /\ stack' = Below(c) /\ saves' = saves
  BY <1>2 DEF Drop, Return, Goto, Execute, Below
<1>4. /\ stack' # <<>> /\ Frame(call[c].name) - 1 \in 0..Len(stack)
      /\ DOMAIN stack' \subseteq DOMAIN stack /\ \A i \in DOMAIN stack' : stack'[i] = stack[i]
  BY <1>1, <1>2, <1>3, FramesBelow
<1>5. disk' = disk
  BY <1>3, <1>4 DEF Execute
<1>6. /\ call'[c].pc = "done" /\ call'[c].name = call[c].name /\ Only(c)
      /\ \A d \in Caller \ {c} : call'[d] = call[d]
  BY <1>3, CallShape DEF DbInv, DbTypes, Only
<1>7. ~In(c)' /\ \A d \in Caller \ {c} : In(d)' <=> In(d)
  BY <1>1, <1>4, <1>6 DEF In, DbInv, FrameInv
<1>8. HeldSets' \subseteq HeldSets
  BY <1>3, <1>4, <1>5, HeldStay DEF HeldSets
<1>9. \A d \in Caller : call'[d].pc = "idle" => call[d].pc = "idle"
  BY <1>6
<1>10. \A X \in HeldSets : Clear(X, c)
  BY <1>1, <1>2, ClearBelow
<1>11. \A X \in HeldSets' : Sound(X)'
  BY <1>7, <1>8, <1>9, <1>10, SoundStays DEF WholeInv
<1>12. \A d \in Caller \ {c} : In(d) /\ call[d].pc # "released" => IsOpen(call[d].name)'
  <2>1. stack' = SubSeq(stack, 1, Frame(call[c].name) - 1)
    BY <1>3 DEF Below
  <2>2. Frame(call[c].name) - 1 \in Nat /\ Frame(call[c].name) - 1 <= Len(stack)
    BY <1>4
  <2> QED
    BY <1>1, <1>2, <1>6, <2>1, <2>2, OthersStayOpen
<1>13. OlderInv'
  BY <1>3, <1>4, <1>5, <1>6, <1>7, <1>12, OlderStays DEF WholeInv
<1> QED
  BY <1>11, <1>13 DEF WholeInv

-----------------------------------------------------------------------------
(* Outside of a transaction, with the images there are. *)
LEMMA QuietWhole ==
    ASSUME WholeInv, \A d \in Caller : ~In(d), \A d \in Caller : ~In(d)',
           \A d \in Caller : call'[d].pc = "idle" => call[d].pc = "idle",
           HeldSets' \subseteq HeldSets
    PROVE  WholeInv'
<1>1. \A X \in HeldSets' : Sound(X)'
  BY SoundStays DEF WholeInv
<1> QED
  BY <1>1, NobodyIsIn DEF WholeInv

LEMMA StartSaveWhole ==
    ASSUME DbInv, WholeInv, NEW c \in Caller, StartSave(c), call[c].pc \in {"committed", "waiting"}, stack = <<>>,
           disk' = disk, \A d \in Caller : ~In(d)
    PROVE  WholeInv'
<1>1. /\ call' = [call EXCEPT ![c].pc = "saving"] /\ saves' = Append(saves, [by |-> c, rows |-> image])
      /\ image' = image /\ stack' = <<>>
  BY DEF StartSave, Goto, CommittedRows
<1>2. call'[c].pc = "saving" /\ \A d \in Caller \ {c} : call'[d] = call[d]
  BY <1>1, CallShape DEF DbInv, DbTypes
<1>3. saves \in Seq(SaveOf)
  BY DEF DbInv, DbTypes
<1>4. \A i \in DOMAIN saves' : (i \in DOMAIN saves /\ saves'[i] = saves[i]) \/ saves'[i] = [by |-> c, rows |-> image]
  BY <1>1, <1>3
<1>5. \A i \in DOMAIN saves' : saves'[i].rows \in HeldSets
  BY <1>4 DEF HeldSets
<1>6. HeldSets' \subseteq HeldSets
  BY <1>1, <1>5, HeldStay DEF HeldSets
<1>7. \A d \in Caller : ~In(d)' /\ (call'[d].pc = "idle" => call[d].pc = "idle")
  BY <1>1, <1>2 DEF In
<1> QED
  BY <1>6, <1>7, QuietWhole

LEMMA CommittedWhole ==
    ASSUME DbInv, WholeInv, NEW c \in Caller, Committed(c)
    PROVE  WholeInv'
<1>1. call[c].pc = "committed" /\ stack = <<>> /\ \A d \in Caller \ {c} : call[d].pc \in {"idle", "saving", "waiting", "done"}
  BY DEF Committed, DbInv, FrameInv
<1>2. \A d \in Caller : ~In(d)
  BY <1>1 DEF In
<1>3. disk' = disk
  BY DEF Committed
<1>4. CASE dirty /\ promise = Nobody
  <2>1. StartSave(c)
    BY <1>4 DEF Committed
  <2> QED
    BY <1>1, <1>2, <1>3, <2>1, StartSaveWhole
<1>5. CASE ~(dirty /\ promise = Nobody)
  <2>1. image' = image /\ stack' = stack /\ saves' = saves
    BY <1>5 DEF Committed, driver
  <2>2. /\ call'[c].pc \in {"done", "waiting"} /\ \A d \in Caller \ {c} : call'[d] = call[d]
    BY <1>5 DEF Committed, Return, Goto, DbInv, DbTypes, CallOf
  <2>3. \A d \in Caller : ~In(d)' /\ (call'[d].pc = "idle" => call[d].pc = "idle")
    BY <1>1, <2>1, <2>2 DEF In
  <2>4. HeldSets' = HeldSets
    BY <1>3, <2>1 DEF HeldSets
  <2> QED
    BY <1>2, <2>3, <2>4, QuietWhole
<1> QED
  BY <1>4, <1>5

LEMMA WaitedWhole ==
    ASSUME DbInv, WholeInv, Overlap = FALSE, NEW c \in Caller, Waited(c)
    PROVE  WholeInv'
<1>1. Between /\ call[c].pc = "waiting" /\ StartSave(c) /\ disk' = disk
  BY DEF Waited, MayInterleave
<1>2. stack = <<>> /\ \A d \in Caller : ~In(d)
  BY <1>1, BetweenIsQuiet DEF DbInv
<1> QED
  BY <1>1, <1>2, StartSaveWhole

(* What is left of the saves when the first one has ended. *)
LEMMA TheOtherSaves ==
    ASSUME DbInv, saves # <<>>, saves' = Tail(saves)
    PROVE  /\ saves[1].rows \in HeldSets
           /\ \A i \in DOMAIN saves' : saves'[i].rows \in HeldSets
           /\ saves' = <<>> => Len(saves) = 1
           /\ saves' # <<>> => saves'[Len(saves')] = saves[Len(saves)]
<1>1. saves \in Seq(SaveOf)
  BY DEF DbInv, DbTypes
<1>2. Len(saves) \in Nat /\ Len(saves) > 0 /\ Len(saves') = Len(saves) - 1 /\ DOMAIN saves' = 1..Len(saves) - 1
      /\ DOMAIN saves = 1..Len(saves)
  BY <1>1
<1>3. \A i \in DOMAIN saves' : saves'[i] = saves[i + 1] /\ i + 1 \in DOMAIN saves
  BY <1>1, <1>2
<1>4. saves' # <<>> => Len(saves') \in DOMAIN saves'
  BY <1>1, <1>2
<1> QED
  BY <1>2, <1>3, <1>4 DEF HeldSets

LEMMA SavedWhole ==
    ASSUME DbInv, WholeInv, Overlap = FALSE, Saved
    PROVE  WholeInv'
<1>1. saves # <<>> /\ Between
  BY DEF Saved, MayInterleave
<1>2. stack = <<>> /\ \A d \in Caller : ~In(d) /\ call[d].pc # "catch"
  BY <1>1, BetweenIsQuiet DEF DbInv
<1> PICK c \in Caller : c = saves[1].by
  BY <1>1, FirstSave
<1>3. /\ disk' = saves[1].rows /\ saves' = Tail(saves) /\ call' = [call EXCEPT ![c].pc = "done"]
      /\ image' = image /\ stack' = stack
  BY <1>1, FirstSave DEF Saved, Return, Goto
<1>4. call'[c].pc = "done" /\ \A d \in Caller \ {c} : call'[d] = call[d]
  BY <1>3, CallShape DEF DbInv, DbTypes
<1>5. \A d \in Caller : ~In(d)' /\ (call'[d].pc = "idle" => call[d].pc = "idle")
  BY <1>2, <1>3, <1>4 DEF In
<1>6. HeldSets' \subseteq HeldSets
  BY <1>1, <1>2, <1>3, TheOtherSaves, HeldStay DEF HeldSets
<1> QED
  BY <1>2, <1>5, <1>6, QuietWhole

LEMMA SaveFailsWhole ==
    ASSUME DbInv, WholeInv, Overlap = FALSE, SaveFails
    PROVE  WholeInv'
<1>1. saves # <<>> /\ Between
  BY DEF SaveFails, MayInterleave
<1>2. stack = <<>> /\ \A d \in Caller : ~In(d)
  BY <1>1, BetweenIsQuiet DEF DbInv
<1>3. saves' = Tail(saves) /\ image' = image /\ stack' = stack /\ disk' = disk
  BY <1>1 DEF SaveFails
<1>4. \A d \in Caller : call'[d].pc = "catch" \/ call'[d] = call[d]
  BY DEF SaveFails, DbInv, DbTypes, CallOf
<1>5. \A d \in Caller : ~In(d)' /\ (call'[d].pc = "idle" => call[d].pc = "idle")
  BY <1>2, <1>3, <1>4 DEF In
<1>6. HeldSets' \subseteq HeldSets
  BY <1>1, <1>2, <1>3, TheOtherSaves, HeldStay DEF HeldSets
<1> QED
  BY <1>2, <1>5, <1>6, QuietWhole

LEMMA PlainWriteWhole ==
    ASSUME DbInv, WholeInv, Overlap = FALSE, NEW w \in Writer, PlainWrite(w)
    PROVE  WholeInv'
<1>1. Between
  BY DEF PlainWrite, MayInterleave
<1>2. stack = <<>> /\ \A d \in Caller : ~In(d)
  BY <1>1, BetweenIsQuiet DEF DbInv
<1>3. /\ image' = image \cup {<<w, 1>>} /\ stack' = stack /\ call' = call /\ saves' = saves
      /\ disk' \in {disk, image'}
  BY DEF PlainWrite, Execute
<1>4. \A d \in Caller : ~In(d)'
  BY <1>2, <1>3 DEF In
<1>5. \A X \in HeldSets' : X \in HeldSets \/ X = image \cup {<<w, 1>>}
  BY <1>3 DEF HeldSets
<1>6. \A X \in HeldSets' : Sound(X)
  <2>1. w \notin Caller
    BY TransactionAssumption
  <2>2. PICK Y : Y = image
    OBVIOUS
  <2>3. Sound(Y)
    BY <2>2 DEF WholeInv, HeldSets
  <2>4. Sound(Y \cup {<<w, 1>>})
    BY <2>1, <2>3, SoundWithMore
  <2> QED
    BY <1>5, <2>2, <2>4 DEF WholeInv
<1>7. \A X \in HeldSets' : Sound(X)'
  BY <1>2, <1>3, <1>4, <1>6, SoundStays
<1> QED
  BY <1>4, <1>7, NobodyIsIn DEF WholeInv

LEMMA CloseWhole ==
    ASSUME DbInv, WholeInv, Close
    PROVE  WholeInv'
<1>1. saves = <<>> /\ stack = <<>> /\ \A d \in Caller : ~In(d)
  BY NobodyRuns DEF Close
<1>2. disk' \in {image, disk} /\ image' = disk' /\ stack' = <<>> /\ saves' = saves /\ call' = call
  BY DEF Close
<1>3. \A d \in Caller : ~In(d)' /\ (call'[d].pc = "idle" => call[d].pc = "idle")
  BY <1>1, <1>2 DEF In
<1>4. HeldSets' \subseteq HeldSets
  BY <1>1, <1>2, HeldStay DEF HeldSets
<1> QED
  BY <1>1, <1>3, <1>4, QuietWhole

(* The process that dies leaves the calls of its transaction; what it finds *)
(* again is older than they were.                                           *)
LEMMA CrashWhole ==
    ASSUME DbInv, WholeInv, Crash
    PROVE  WholeInv'
<1>1. PICK rows \in {disk} \cup {saves[i].rows : i \in DOMAIN saves} : disk' = rows /\ image' = rows
  BY DEF Crash
<1>2. /\ stack' = <<>> /\ saves' = <<>>
      /\ call' = [c \in Caller |-> IF Running(c) THEN [Idle EXCEPT !.pc = "done"] ELSE call[c]]
  BY DEF Crash
<1>3. \A c \in Caller : call'[c].pc = "done" \/ (~Running(c) /\ call'[c] = call[c])
  BY <1>2 DEF Idle
<1>4. \A d \in Caller : ~In(d)' /\ (call'[d].pc = "idle" => call[d].pc = "idle")
  BY <1>2, <1>3 DEF In, Running
<1>5. rows \in HeldSets /\ \A d \in Caller : In(d) => Clear(rows, d)
  BY <1>1 DEF HeldSets, WholeInv, OlderInv
<1>6. \A X \in HeldSets' : X = rows
  BY <1>1, <1>2 DEF HeldSets
<1>7. \A X \in HeldSets' : Sound(X)'
  BY <1>4, <1>5, <1>6, SoundStays DEF WholeInv
<1> QED
  BY <1>4, <1>7, NobodyIsIn DEF WholeInv

LEMMA InitWhole == Init => WholeInv
<1> SUFFICES ASSUME Init PROVE WholeInv
  OBVIOUS
<1>1. \A c \in Caller : ~In(c)
  BY DEF Init, In, Idle
<1>2. HeldSets = {{}}
  BY DEF Init, HeldSets
<1>3. Sound({})
  BY DEF Sound, NoneIn
<1> QED
  BY <1>1, <1>2, <1>3 DEF WholeInv, OlderInv

LEMMA NextWhole == Overlap = FALSE /\ DbInv /\ WholeInv /\ [Next]_vars => WholeInv'
<1> SUFFICES ASSUME Overlap = FALSE, DbInv, WholeInv, [Next]_vars PROVE WholeInv'
  OBVIOUS
<1>1. ASSUME NEW c \in Caller, BeginOuter(c) \/ BeginNested(c) \/ Entered(c) \/ Write(c) \/ Throw(c)
      PROVE  WholeInv'
  BY <1>1, BeginOuterWhole, BeginNestedWhole, EnteredWhole, WriteWhole, ThrowWhole
<1>2. ASSUME NEW c \in Caller, Commit(c) \/ Committed(c) \/ Waited(c) \/ Release(c) \/ Released(c)
      PROVE  WholeInv'
  BY <1>2, CommitWhole, CommittedWhole, WaitedWhole, ReleaseWhole, ReleasedWhole
<1>3. ASSUME NEW c \in Caller, Rollback(c) \/ Undo(c) \/ Drop(c)
      PROVE  WholeInv'
  BY <1>3, RollbackWhole, UndoWhole, DropWhole
<1>4. ASSUME NEW w \in Writer, PlainWrite(w) PROVE WholeInv'
  BY <1>4, PlainWriteWhole
<1>5. CASE Saved \/ SaveFails \/ Close \/ Crash
  BY <1>5, SavedWhole, SaveFailsWhole, CloseWhole, CrashWhole
<1>6. CASE UNCHANGED vars
  <2>1. UNCHANGED <<image, stack, disk, saves, call>>
    BY <1>6 DEF vars
  <2>2. (\A d \in Caller : In(d)' <=> In(d)) /\ HeldSets' = HeldSets
    BY <2>1 DEF In, HeldSets
  <2>3. \A X \in HeldSets' : Sound(X)'
    BY <2>1, <2>2, SoundStays DEF WholeInv
  <2>4. OlderInv'
    BY <2>1, <2>2 DEF WholeInv, OlderInv, IsOpen, Clear, NoneIn, RowsOf, Children
  <2> QED
    BY <2>3, <2>4 DEF WholeInv
<1> QED
  BY <1>1, <1>2, <1>3, <1>4, <1>5, <1>6 DEF Next

-----------------------------------------------------------------------------
(* What the connection sees, or goes back to. *)
Seen == {image} \cup {stack[j].before : j \in DOMAIN stack}

LEMMA CallsAreTold ==
    ASSUME DbTypes, told' = told \/ \E c \in Caller, answer \in {"ok", "error"} : told' = [told EXCEPT ![c] = answer]
    PROVE  Plain' = Plain
<1>1. \A w \in Writer : told'[w] = told[w]
  BY TransactionAssumption DEF DbTypes
<1> QED
  BY <1>1 DEF Plain

LEMMA PlainStays ==
    ASSUME PlainInv, Plain' = Plain, spent' = spent,
           \E X \in Seen : X \subseteq image',
           \A j \in DOMAIN stack' : stack'[j].before \in Seen,
           dirty' = Wasm \/ (dirty' = dirty /\ Latest' = Latest) \/ Latest' \in Seen
    PROVE  PlainInv'
<1> SUFFICES ASSUME Unspent' PROVE PlainIn'
  BY DEF PlainInv
<1>1. PlainIn
  BY DEF PlainInv, Unspent
<1>2. \A X \in Seen : Plain \subseteq X
  BY <1>1 DEF PlainIn, Seen
<1>3. Plain' \subseteq image' /\ \A j \in DOMAIN stack' : Plain' \subseteq stack'[j].before
  BY <1>2
<1>4. Wasm /\ ~dirty' => Plain' \subseteq Latest'
  BY <1>1, <1>2 DEF PlainIn
<1> QED
  BY <1>3, <1>4 DEF PlainIn

(* A statement of a call. *)
LEMMA ExecutePlain ==
    ASSUME PlainInv, Plain' = Plain, spent' = spent, NEW img, NEW st, Execute(img, st),
           \E X \in Seen : X \subseteq img, \A j \in DOMAIN st : st[j].before \in Seen
    PROVE  PlainInv'
<1>1. image' = img /\ stack' = st /\ dirty' = Wasm
  BY DEF Execute
<1> QED
  BY <1>1, PlainStays

LEMMA FramesAreSeen ==
    ASSUME DbInv, NEW m \in Nat, m <= Len(stack)
    PROVE  \A j \in DOMAIN SubSeq(stack, 1, m) : SubSeq(stack, 1, m)[j].before \in Seen
<1>1. stack \in Seq(FrameOf)
  BY DEF DbInv, DbTypes
<1>2. \A j \in DOMAIN SubSeq(stack, 1, m) : j \in DOMAIN stack /\ SubSeq(stack, 1, m)[j] = stack[j]
  BY <1>1
<1> QED
  BY <1>2 DEF Seen

LEMMA NoStatementPlain ==
    ASSUME DbInv, PlainInv, UNCHANGED <<image, stack, disk, dirty, saves, spent>>, Plain' = Plain
    PROVE  PlainInv'
<1>1. Latest' = Latest
  BY DEF Latest
<1>2. \A j \in DOMAIN stack' : stack'[j].before \in Seen
  BY DEF Seen
<1>3. image \in Seen
  BY DEF Seen
<1> QED
  BY <1>1, <1>2, <1>3, PlainStays

LEMMA BeginPlain ==
    ASSUME DbInv, PlainInv, NEW c \in Caller, BeginOuter(c) \/ BeginNested(c)
    PROVE  PlainInv'
<1>1. Plain' = Plain
  <2>1. DbTypes
    BY DEF DbInv
  <2>2. told' = told \/ told' = [told EXCEPT ![c] = "error"]
    BY DEF BeginOuter, BeginNested, Return
  <2> QED
    BY <2>1, <2>2, CallsAreTold
<1>2. spent' = spent
  BY DEF BeginOuter, BeginNested
<1>3. image \in Seen
  BY DEF Seen
<1>4. CASE BeginOuter(c) /\ stack # <<>>
  <2>1. UNCHANGED <<image, stack, disk, dirty, saves>>
    BY <1>4 DEF BeginOuter
  <2> QED
    BY <1>1, <1>2, <2>1, NoStatementPlain
<1>5. CASE BeginOuter(c) /\ stack = <<>>
  <2> DEFINE st == <<[name |-> 0, before |-> image]>>
  <2>1. Execute(image, st)
    BY <1>5 DEF BeginOuter
  <2>2. \A j \in DOMAIN st : st[j].before = image
    OBVIOUS
  <2> HIDE DEF st
  <2> QED
    BY <1>1, <1>2, <1>3, <2>1, <2>2, ExecutePlain
<1>6. CASE BeginNested(c)
  <2> DEFINE st == Append(stack, [name |-> seq + 1, before |-> image])
  <2>1. Execute(image, st)
    BY <1>6 DEF BeginNested
  <2>2. \A j \in DOMAIN st : st[j].before \in Seen
    <3>1. stack \in Seq(FrameOf)
      BY DEF DbInv, DbTypes
    <3>2. \A j \in DOMAIN st : (j \in DOMAIN stack /\ st[j] = stack[j]) \/ st[j] = [name |-> seq + 1, before |-> image]
      BY <3>1
    <3> QED
      BY <3>2 DEF Seen
  <2> HIDE DEF st
  <2> QED
    BY <1>1, <1>2, <1>3, <2>1, <2>2, ExecutePlain
<1> QED
  BY <1>4, <1>5, <1>6

LEMMA BodyPlain ==
    ASSUME DbInv, PlainInv, NEW c \in Caller, Entered(c) \/ Write(c) \/ Throw(c)
    PROVE  PlainInv'
<1>1. told' = told
  BY DEF Entered, Write, Throw
<1>2. Plain' = Plain
  BY <1>1, CallsAreTold DEF DbInv
<1>3. image \in Seen /\ \A j \in DOMAIN stack : stack[j].before \in Seen
  BY DEF Seen
<1>4. CASE Entered(c)
  BY <1>2, <1>4, NoStatementPlain DEF Entered, driver
<1>5. CASE Write(c)
  <2>1. PICK img : img = image \cup {<<c, call[c].written + 1>>}
    OBVIOUS
  <2>2. Execute(img, stack) /\ spent' = spent
    BY <1>5, <2>1 DEF Write
  <2>3. image \subseteq img
    BY <2>1
  <2> QED
    BY <1>2, <1>3, <2>2, <2>3, ExecutePlain
<1>6. CASE Throw(c)
  <2>1. UNCHANGED <<image, stack, disk, dirty, saves>> /\ spent' = [spent EXCEPT !.throws = @ + 1]
    BY <1>6 DEF Throw, driver
  <2>2. /\ spent' \in [throws : Nat, faults : Nat, closes : Nat, crashes : Nat]
        /\ spent'.crashes = spent.crashes /\ spent'.faults = spent.faults
    BY <2>1 DEF PlainInv
  <2>3. PlainIn => PlainIn'
    BY <1>2, <2>1 DEF PlainIn, Latest
  <2> QED
    BY <2>2, <2>3 DEF PlainInv, Unspent
<1> QED
  BY <1>4, <1>5, <1>6

LEMMA EndPlain ==
    ASSUME DbInv, PlainInv, NEW c \in Caller,
           Commit(c) \/ Release(c) \/ Released(c) \/ Rollback(c) \/ Undo(c) \/ Drop(c)
    PROVE  PlainInv'
<1> DEFINE f == Frame(call[c].name)
<1>1. Plain' = Plain /\ spent' = spent
  <2>1. told' = told \/ told' = [told EXCEPT ![c] = "ok"] \/ told' = [told EXCEPT ![c] = "error"]
    BY DEF Commit, Release, Released, Rollback, Undo, Drop, Return
  <2>2. Plain' = Plain
    BY <2>1, CallsAreTold DEF DbInv
  <2> QED
    BY <2>2 DEF Commit, Release, Released, Rollback, Undo, Drop
<1>2. stack \in Seq(FrameOf)
  BY DEF DbInv, DbTypes
<1>3. image \in Seen /\ \A j \in DOMAIN stack : stack[j].before \in Seen
  BY DEF Seen
<1>4. IsOpen(call[c].name) => f \in DOMAIN stack /\ f \in Nat /\ f - 1 \in Nat /\ f <= Len(stack) /\ f - 1 <= Len(stack)
  BY <1>2, FrameFound
<1>5. CASE UNCHANGED <<image, stack, disk, dirty, saves>>
  BY <1>1, <1>5, NoStatementPlain
<1>6. CASE Execute(image, <<>>)
  BY <1>1, <1>3, <1>6, ExecutePlain
<1>7. CASE stack # <<>> /\ Execute(CommittedRows, <<>>)
  <2>1. CommittedRows \in Seen
    <3>1. 1 \in DOMAIN stack /\ CommittedRows = stack[1].before
      BY <1>2, <1>7 DEF CommittedRows
    <3> QED
      BY <1>3, <3>1
  <2> QED
    BY <1>1, <1>7, <2>1, ExecutePlain
<1>8. CASE IsOpen(call[c].name) /\ Execute(image, SubSeq(stack, 1, f - 1))
  <2>1. \A j \in DOMAIN SubSeq(stack, 1, f - 1) : SubSeq(stack, 1, f - 1)[j].before \in Seen
    BY <1>4, <1>8, FramesAreSeen
  <2> QED
    BY <1>1, <1>3, <1>8, <2>1, ExecutePlain
<1>9. CASE IsOpen(call[c].name) /\ Execute(stack[f].before, SubSeq(stack, 1, f))
  <2>1. \A j \in DOMAIN SubSeq(stack, 1, f) : SubSeq(stack, 1, f)[j].before \in Seen
    BY <1>4, <1>9, FramesAreSeen
  <2> QED
    BY <1>1, <1>3, <1>4, <1>9, <2>1, ExecutePlain
<1>10. CASE Commit(c)
  <2>1. Execute(image, <<>>) \/ UNCHANGED <<image, stack, disk, dirty, saves>>
    BY <1>10 DEF Commit
  <2> QED
    BY <1>5, <1>6, <2>1
<1>11. CASE Release(c)
  <2>1. (IsOpen(call[c].name) /\ Execute(image, SubSeq(stack, 1, f - 1))) \/ UNCHANGED <<image, stack, disk, dirty, saves>>
    BY <1>11 DEF Release
  <2> QED
    BY <1>5, <1>8, <2>1
<1>12. CASE Released(c)
  BY <1>5, <1>12 DEF Released, driver
<1>13. CASE Rollback(c)
  <2>1. (stack # <<>> /\ Execute(CommittedRows, <<>>)) \/ UNCHANGED <<image, stack, disk, dirty, saves>>
    BY <1>13 DEF Rollback
  <2> QED
    BY <1>5, <1>7, <2>1
<1>14. CASE Undo(c)
  <2>1. \/ IsOpen(call[c].name) /\ Execute(stack[f].before, SubSeq(stack, 1, f))
        \/ UNCHANGED <<image, stack, disk, dirty, saves>>
    BY <1>14 DEF Undo
  <2> QED
    BY <1>5, <1>9, <2>1
<1>15. CASE Drop(c)
  <2>1. (IsOpen(call[c].name) /\ Execute(image, SubSeq(stack, 1, f - 1))) \/ UNCHANGED <<image, stack, disk, dirty, saves>>
    BY <1>15 DEF Drop
  <2> QED
    BY <1>5, <1>8, <2>1
<1> QED
  BY <1>10, <1>11, <1>12, <1>13, <1>14, <1>15

(* A save is handed what is committed: every plain write. *)
LEMMA StartSavePlain ==
    ASSUME DbInv, PlainInv, NEW c \in Caller, StartSave(c), Plain' = Plain, spent' = spent
    PROVE  PlainInv'
<1>1. /\ image' = CommittedRows /\ stack' = <<>> /\ saves' = Append(saves, [by |-> c, rows |-> CommittedRows])
  BY DEF StartSave
<1>2. saves \in Seq(SaveOf) /\ stack \in Seq(FrameOf)
  BY DEF DbInv, DbTypes
<1>3. saves' # <<>> /\ saves'[Len(saves')] = [by |-> c, rows |-> CommittedRows]
  BY <1>1, <1>2
<1>4. Latest' = CommittedRows
  BY <1>3 DEF Latest
<1>5. CommittedRows \in Seen
  <2>1. stack # <<>> => 1 \in DOMAIN stack
    BY <1>2
  <2> QED
    BY <2>1 DEF CommittedRows, Seen
<1> QED
  BY <1>1, <1>4, <1>5, PlainStays

LEMMA FlushPlain ==
    ASSUME DbInv, PlainInv, NEW c \in Caller, Committed(c) \/ Waited(c)
    PROVE  PlainInv'
<1>1. Plain' = Plain /\ spent' = spent
  <2>1. told' = told \/ told' = [told EXCEPT ![c] = "ok"]
    BY DEF Committed, Waited, Return
  <2> QED
    BY <2>1, CallsAreTold DEF DbInv, Committed, Waited
<1>2. CASE StartSave(c)
  BY <1>1, <1>2, StartSavePlain
<1>3. CASE ~StartSave(c)
  <2>1. UNCHANGED <<image, stack, disk, dirty, saves>>
    BY <1>3 DEF Committed, Waited, driver
  <2> QED
    BY <1>1, <2>1, NoStatementPlain
<1> QED
  BY <1>2, <1>3

LEMMA SavedPlain ==
    ASSUME DbInv, PlainInv, Saved
    PROVE  PlainInv'
<1>1. saves # <<>> /\ spent' = spent
  BY DEF Saved
<1>2. /\ disk' = saves[1].rows /\ saves' = Tail(saves) /\ image' = image /\ stack' = stack /\ dirty' = dirty
      /\ saves[1].by \in Caller /\ told' = [told EXCEPT ![saves[1].by] = "ok"]
  BY <1>1, FirstSave DEF Saved, Return
<1>3. Plain' = Plain
  BY <1>2, CallsAreTold DEF DbInv
<1>4. Latest' = Latest
  BY <1>1, <1>2, TheOtherSaves DEF Latest
<1>5. image \in Seen /\ \A j \in DOMAIN stack : stack[j].before \in Seen
  BY DEF Seen
<1> QED
  BY <1>1, <1>2, <1>3, <1>4, <1>5, PlainStays

LEMMA PlainWritePlain ==
    ASSUME DbInv, PlainInv, Overlap = FALSE, NEW w \in Writer, PlainWrite(w)
    PROVE  PlainInv'
<1>1. Between
  BY DEF PlainWrite, MayInterleave
<1>2. stack = <<>>
  BY <1>1, BetweenIsQuiet DEF DbInv
<1>3. /\ image' = image \cup {<<w, 1>>} /\ stack' = <<>> /\ dirty' = Wasm /\ spent' = spent
      /\ told' = [told EXCEPT ![w] = "ok"]
  BY <1>2 DEF PlainWrite, Execute
<1>4. Plain' \subseteq Plain \cup {<<w, 1>>}
  BY <1>3 DEF Plain, DbInv, DbTypes
<1>5. PlainIn => PlainIn'
  BY <1>3, <1>4 DEF PlainIn
<1> QED
  BY <1>3, <1>5 DEF PlainInv, Unspent

LEMMA ClosePlain ==
    ASSUME DbInv, PlainInv, Close
    PROVE  PlainInv'
<1>1. saves = <<>> /\ stack = <<>>
  BY NobodyRuns DEF Close
<1>2. /\ disk' = (IF dirty THEN image ELSE disk) /\ image' = disk' /\ stack' = <<>> /\ saves' = saves
      /\ told' = told /\ spent' = [spent EXCEPT !.closes = @ + 1]
  BY DEF Close
<1>3. /\ spent' \in [throws : Nat, faults : Nat, closes : Nat, crashes : Nat]
      /\ spent'.crashes = spent.crashes /\ spent'.faults = spent.faults
  BY <1>2 DEF PlainInv
<1>4. Plain' = Plain
  BY <1>2 DEF Plain
<1>5. PlainIn => Plain \subseteq disk'
  <2>1. CASE Wasm
    BY <1>1, <1>2, <2>1 DEF PlainIn, Latest
  <2>2. CASE ~Wasm
    BY <1>1, <1>2, <2>2 DEF DbInv, DriverInv, CommittedRows, PlainIn
  <2> QED
    BY <2>1, <2>2
<1>6. PlainIn => PlainIn'
  BY <1>1, <1>2, <1>4, <1>5 DEF PlainIn, Latest
<1> QED
  BY <1>3, <1>6 DEF PlainInv, Unspent

(* Nothing is said of a process that died or of a save that failed. *)
LEMMA FaultPlain ==
    ASSUME PlainInv, SaveFails \/ Crash
    PROVE  PlainInv'
<1>1. spent \in [throws : Nat, faults : Nat, closes : Nat, crashes : Nat]
  BY DEF PlainInv
<1>2. spent' = [spent EXCEPT !.faults = @ + 1] \/ spent' = [spent EXCEPT !.crashes = @ + 1]
  BY DEF SaveFails, Crash
<1>3. spent' \in [throws : Nat, faults : Nat, closes : Nat, crashes : Nat] /\ ~(spent'.crashes = 0 /\ spent'.faults = 0)
  BY <1>1, <1>2
<1> QED
  BY <1>3 DEF PlainInv, Unspent

LEMMA InitPlain == Init => PlainInv
<1> SUFFICES ASSUME Init PROVE PlainInv
  OBVIOUS
<1>1. spent \in [throws : Nat, faults : Nat, closes : Nat, crashes : Nat]
  BY DEF Init
<1>2. Plain = {}
  BY DEF Init, Plain
<1> QED
  BY <1>1, <1>2 DEF PlainInv, PlainIn

LEMMA NextPlain == Overlap = FALSE /\ DbInv /\ PlainInv /\ [Next]_vars => PlainInv'
<1> SUFFICES ASSUME Overlap = FALSE, DbInv, PlainInv, [Next]_vars PROVE PlainInv'
  OBVIOUS
<1>1. ASSUME NEW c \in Caller, BeginOuter(c) \/ BeginNested(c) \/ Entered(c) \/ Write(c) \/ Throw(c)
      PROVE  PlainInv'
  BY <1>1, BeginPlain, BodyPlain
<1>2. ASSUME NEW c \in Caller, Commit(c) \/ Release(c) \/ Released(c) \/ Rollback(c) \/ Undo(c) \/ Drop(c)
      PROVE  PlainInv'
  BY <1>2, EndPlain
<1>3. ASSUME NEW c \in Caller, Committed(c) \/ Waited(c) PROVE PlainInv'
  BY <1>3, FlushPlain
<1>4. ASSUME NEW w \in Writer, PlainWrite(w) PROVE PlainInv'
  BY <1>4, PlainWritePlain
<1>5. CASE Saved \/ SaveFails \/ Close \/ Crash
  BY <1>5, SavedPlain, FaultPlain, ClosePlain
<1>6. CASE UNCHANGED vars
  <2>1. UNCHANGED <<image, stack, disk, dirty, saves, told, spent>>
    BY <1>6 DEF vars
  <2> QED
    BY <2>1 DEF PlainInv, Unspent, PlainIn, Plain, Latest
<1> QED
  BY <1>1, <1>2, <1>3, <1>4, <1>5, <1>6 DEF Next

-----------------------------------------------------------------------------
LEMMA DbIsSound == DbInv /\ WholeInv /\ PlainInv => TransactionsAreSound
<1> SUFFICES ASSUME DbInv, WholeInv, PlainInv PROVE TransactionsAreSound
  OBVIOUS
<1>1. DbTypes
  BY DEF DbInv
<1>2. TypeOK
  <2>1. \A i \in DOMAIN stack : stack[i].name \in 0..seq /\ stack[i].before \subseteq Rows
    <3> SUFFICES ASSUME NEW i \in DOMAIN stack PROVE stack[i].name \in 0..seq /\ stack[i].before \subseteq Rows
      OBVIOUS
    <3>1. stack[i] \in FrameOf
      BY <1>1 DEF DbTypes
    <3>2. PICK c \in Caller : In(c) /\ call[c].name = stack[i].name
      BY DEF DbInv, FrameInv
    <3>3. call[c].name <= seq
      BY <3>2 DEF DbInv, NestInv
    <3> QED
      BY <1>1, <3>1, <3>2, <3>3 DEF FrameOf, DbTypes
  <2>2. \A i \in DOMAIN saves : saves[i].by \in Caller /\ saves[i].rows \subseteq Rows
    <3>1. \A i \in DOMAIN saves : saves[i] \in SaveOf
      BY <1>1 DEF DbTypes
    <3> QED
      BY <3>1 DEF SaveOf
  <2>3. \A c \in Caller : call[c].pc \in Steps /\ call[c].written \in 0..Statements
    BY <1>1, CallShape
  <2> QED
    BY <1>1, <2>1, <2>2, <2>3 DEF TypeOK, DbTypes, Steps
<1>3. DepthIsNesting
  BY BetweenIsQuiet DEF DepthIsNesting, DbInv
<1>4. AllOrNothing
  <2> SUFFICES ASSUME NEW c \in Caller
               PROVE  /\ RowsOf(c) \subseteq disk \/ RowsOf(c) \cap disk = {}
                      /\ RowsOf(c) \subseteq disk => RowsOf(Parent[c]) \subseteq disk
    BY DEF AllOrNothing
  <2>1. Sound(disk) /\ Parent[c] \in Caller
    BY TransactionAssumption DEF WholeInv, HeldSets
  <2>2. In(c) => NoneIn(disk, c)
    BY DEF WholeInv, OlderInv, Clear
  <2>3. In(Parent[c]) => NoneIn(disk, c)
    <3>1. c \in Children(Parent[c]) \cup {Parent[c]}
      BY DEF Children
    <3> QED
      BY <2>1, <3>1 DEF WholeInv, OlderInv, Clear
  <2>4. RowsOf(c) \subseteq disk \/ RowsOf(c) \cap disk = {}
    BY <2>1, <2>2 DEF Sound, NoneIn, Full
  <2>5. RowsOf(c) \subseteq disk /\ NoneIn(disk, c) => RowsOf(Parent[c]) \subseteq disk
    <3> SUFFICES ASSUME RowsOf(c) = {} PROVE RowsOf(Parent[c]) = {}
      BY DEF NoneIn
    <3>1. 1..Statements = {}
      BY DEF RowsOf
    <3> QED
      BY <3>1 DEF RowsOf
  <2> QED
    BY <2>1, <2>3, <2>4, <2>5 DEF Sound, Full
<1>5. PlainWritesKept
  BY DEF PlainWritesKept, PlainInv, PlainIn, Plain, Unspent
<1> QED
  BY <1>2, <1>3, <1>4, <1>5 DEF TransactionsAreSound

-----------------------------------------------------------------------------
(* The copies of the file.  What each file, copy and restore holds is a    *)
(* content the database was in, of whole transactions but for those a      *)
(* restore cut off, which were never told that they are committed; and     *)
(* each step of a restore leaves the files where the next one, or the next *)
(* process, finds them.                                                    *)
RowPair == Nat \X {1, 2}
RowFiles == [kind : {"rows"}, rows : SUBSET RowPair]
TxnOf == [n : Nat, step : 0..2, open : BOOLEAN, rows : SUBSET RowPair]
JobOf == [pc : {"write", "move", "reopen", "save"}, bytes : SUBSET RowPair, before : SUBSET RowPair]
ShotOf == [bytes : SUBSET RowPair, stale : BOOLEAN, during : BOOLEAN]

SnapTypes ==
    /\ file \in RowFiles \cup {Torn, Gone} /\ over \in RowFiles \cup {Nothing} /\ aside \in RowFiles \cup {Nothing}
    /\ handle \in BOOLEAN /\ conn \in BOOLEAN
    /\ txn \in TxnOf /\ ended \in Seq({"ok", "failed", "died"})
    /\ job \in JobOf \cup {NoRestore} /\ shots \subseteq ShotOf
    /\ restores \in Nat /\ kills \in Nat /\ fileFaults \in Nat

(* The rows of a transaction after its first k statements. *)
FirstRows(n, k) == {r \in {<<n, 1>>, <<n, 2>>} : r[2] <= k}

(* The transaction of the app, and those a restore cut off: they have not  *)
(* ended well, and never will.                                             *)
TxnsAreTold ==
    /\ txn.n > 0 => txn.n = Len(ended) + 1
    /\ txn.open => txn.n > 0 /\ txn.rows = FirstRows(txn.n, txn.step)
    /\ txn.n > 0 /\ ~txn.open => txn.n \in cut
    /\ \A n \in cut : \/ n \in DOMAIN ended /\ ended[n] # "ok"
                      \/ n = txn.n /\ n > 0 /\ ~txn.open

(* A content the database was in, of whole transactions but for those cut. *)
StateOf(rows, been, off) ==
    /\ rows \in been
    /\ \A n \in Nat : ((<<n, 1>> \in rows) # (<<n, 2>> \in rows)) => n \in off

AllAreStates ==
    /\ {} \in reached
    /\ file \in RowFiles => StateOf(file.rows, reached, cut)
    /\ over \in RowFiles => StateOf(over.rows, reached, cut)
    /\ \A s \in shots : StateOf(s.bytes, reached, cut) /\ (s.stale => drv = "tauri" /\ s.during)
    /\ job \in JobOf => StateOf(job.bytes, reached, cut)

(* Where the files are while a restore runs. *)
FilesAreThere ==
    /\ over \in RowFiles => file \in RowFiles
    /\ job.pc \in {"write", "move", "reopen"} => ~conn /\ over = Nothing
    /\ job.pc = "write" => file \in RowFiles
    /\ job.pc = "save" => drv = "wasm" /\ over \in RowFiles
    /\ drv = "wasm" /\ job # NoRestore => txn.n = 0
    /\ job.pc = "move" => drv = "node"
    /\ job # NoRestore => restores > 0
    /\ file = Torn => drv = "tauri" /\ kills + fileFaults > 0
    /\ file = Gone /\ restores > 0 => drv = "node" /\ aside \in RowFiles

(* Before the first restore. *)
NothingTakenBack ==
    restores = 0 =>
        /\ cut = {}
        /\ drv = "wasm" => over = Nothing
        /\ \A n \in DOMAIN ended : ended[n] = "ok" =>
               Content \in RowFiles /\ <<n, 1>> \in Content.rows /\ <<n, 2>> \in Content.rows

SnapInv == SnapTypes /\ TxnsAreTold /\ AllAreStates /\ FilesAreThere /\ NothingTakenBack

LEMMA Files ==
    /\ \A S \in SUBSET RowPair : RowFile(S) \in RowFiles /\ RowFile(S).rows = S
    /\ \A f \in RowFiles : f.kind = "rows" /\ f.rows \subseteq RowPair /\ f # Torn /\ f # Gone /\ f # Nothing
    /\ Torn.kind = "torn" /\ Gone.kind = "gone" /\ Nothing.kind = "none" /\ Torn # Gone
    /\ Torn \notin RowFiles /\ Gone \notin RowFiles /\ Nothing \notin RowFiles
<1>1. Torn.kind = "torn" /\ Gone.kind = "gone" /\ Nothing.kind = "none" BY DEF Torn, Gone, Nothing
<1>2. \A f \in RowFiles : f.kind = "rows" /\ f.rows \subseteq RowPair BY DEF RowFiles
<1>3. \A S \in SUBSET RowPair : RowFile(S) \in RowFiles /\ RowFile(S).rows = S BY DEF RowFiles, RowFile
<1> HIDE DEF Torn, Gone, Nothing, RowFiles
<1> QED BY <1>1, <1>2, <1>3

LEMMA Restores ==
    /\ NoRestore.pc = "idle" /\ NoRestore \notin JobOf
    /\ \A j \in JobOf : j.pc \in {"write", "move", "reopen", "save"} /\ j.bytes \subseteq RowPair /\ j # NoRestore
    /\ \A j \in JobOf, p \in {"write", "move", "reopen", "save"} :
           [j EXCEPT !.pc = p] \in JobOf /\ [j EXCEPT !.pc = p].bytes = j.bytes /\ [j EXCEPT !.pc = p].pc = p
<1>1. NoRestore.pc = "idle" BY DEF NoRestore
<1>2. \A j \in JobOf : j.pc \in {"write", "move", "reopen", "save"} /\ j.bytes \subseteq RowPair BY DEF JobOf
<1>3. \A j \in JobOf, p \in {"write", "move", "reopen", "save"} :
          [j EXCEPT !.pc = p] \in JobOf /\ [j EXCEPT !.pc = p].bytes = j.bytes /\ [j EXCEPT !.pc = p].pc = p
    BY DEF JobOf
<1> HIDE DEF NoRestore, JobOf
<1> QED BY <1>1, <1>2, <1>3

LEMMA Txns ==
    /\ NoTxn \in TxnOf /\ NoTxn.n = 0 /\ NoTxn.step = 0 /\ NoTxn.open = FALSE
    /\ \A t \in TxnOf : t.n \in Nat /\ t.step \in 0..2 /\ t.open \in BOOLEAN /\ t.rows \subseteq RowPair
BY DEF NoTxn, TxnOf

LEMMA StateStays ==
    ASSUME NEW rows, NEW been, NEW been2, NEW off, NEW off2,
           StateOf(rows, been, off), been \subseteq been2, off \subseteq off2
    PROVE  StateOf(rows, been2, off2)
BY DEF StateOf

LEMMA InUse ==
    ASSUME SnapInv, Usable
    PROVE  /\ Content \in RowFiles /\ Content.rows \subseteq RowPair /\ StateOf(Content.rows, reached, cut)
           /\ file \in RowFiles /\ conn /\ handle /\ job.pc \notin {"write", "move", "reopen"}
           /\ over # Nothing => over \in RowFiles
<1>1. file \in RowFiles
    BY Files DEF SnapInv, SnapTypes, FilesAreThere, Usable, Content
<1>2. Content \in RowFiles /\ StateOf(Content.rows, reached, cut)
    BY <1>1, Files DEF SnapInv, SnapTypes, AllAreStates, Content
<1>3. conn /\ handle /\ job.pc \notin {"write", "move", "reopen"} BY DEF SnapInv, FilesAreThere, Usable
<1> QED BY <1>1, <1>2, <1>3, Files DEF SnapInv, SnapTypes

LEMMA StatementByStatement ==
    ASSUME NEW t \in TxnOf, t.step < 2
    PROVE  LET row == <<t.n, t.step + 1>>
               u == [t EXCEPT !.step = @ + 1, !.rows = @ \union {row}]
               v == [t EXCEPT !.step = @ + 1]
           IN  /\ row \in RowPair /\ u \in TxnOf /\ v \in TxnOf
               /\ u.n = t.n /\ u.open = t.open /\ u.step = t.step + 1 /\ u.rows = t.rows \union {row}
               /\ v.n = t.n /\ v.open = t.open /\ v.step = t.step + 1 /\ v.rows = t.rows
<1>1. <<t.n, t.step + 1>> \in RowPair /\ t.step + 1 \in 0..2 BY DEF TxnOf, RowPair
<1> QED BY <1>1 DEF TxnOf

LEMMA TheRestIsCutOff ==
    ASSUME NEW t \in TxnOf
    PROVE  LET u == [t EXCEPT !.open = FALSE, !.rows = {}]
           IN  u \in TxnOf /\ u.n = t.n /\ ~u.open
BY DEF TxnOf

LEMMA RowsGrow ==
    ASSUME NEW n \in Nat
    PROVE  /\ FirstRows(n, 0) = {} /\ FirstRows(n, 2) = {<<n, 1>>, <<n, 2>>}
           /\ \A k \in 0..1 : FirstRows(n, k) \union {<<n, k + 1>>} = FirstRows(n, k + 1)
BY DEF FirstRows

LEMMA Told ==
    ASSUME NEW s \in Seq({"ok", "failed", "died"}), NEW e \in {"ok", "failed", "died"}
    PROVE  /\ Len(s) \in Nat /\ DOMAIN s = 1..Len(s)
           /\ Append(s, e) \in Seq({"ok", "failed", "died"})
           /\ DOMAIN Append(s, e) = 1..Len(s) + 1 /\ Append(s, e)[Len(s) + 1] = e
           /\ \A n \in DOMAIN s : n \in DOMAIN Append(s, e) /\ Append(s, e)[n] = s[n]
OBVIOUS

LEMMA SnapStart == SnapshotInit => SnapInv
<1> SUFFICES ASSUME SnapshotInit PROVE SnapInv OBVIOUS
<1>1. SnapTypes 
    <2>1. ended \in Seq({"ok", "failed", "died"}) BY DEF SnapshotInit
    <2> QED BY <2>1, Txns DEF SnapshotInit, SnapTypes
<1>2. TxnsAreTold BY Txns DEF SnapshotInit, TxnsAreTold
<1>3. AllAreStates BY Files, Restores DEF SnapshotInit, AllAreStates
<1>4. FilesAreThere BY Files, Restores DEF SnapshotInit, FilesAreThere
<1>5. NothingTakenBack BY DEF SnapshotInit, NothingTakenBack
<1> QED BY <1>1, <1>2, <1>3, <1>4, <1>5 DEF SnapInv

LEMMA KeepOpenDb == SnapInv /\ OpenDb => SnapInv'
<1> SUFFICES ASSUME SnapInv, OpenDb PROVE SnapInv' OBVIOUS
<1> USE Files, Restores, Txns
<1>0. /\ SnapTypes /\ TxnsAreTold /\ AllAreStates /\ FilesAreThere /\ NothingTakenBack
      /\ Usable => /\ Content \in RowFiles /\ Content.rows \subseteq RowPair /\ StateOf(Content.rows, reached, cut)
                   /\ file \in RowFiles /\ job.pc \notin {"write", "move", "reopen"}
    BY InUse DEF SnapInv
<1>1. SnapTypes' BY <1>0 DEF OpenDb, SnapTypes, Content
<1>2. TxnsAreTold' BY <1>0 DEF OpenDb, SnapTypes, TxnsAreTold
<1>3. AllAreStates' 
    <2>1. StateOf({}, reached, cut) BY <1>0 DEF AllAreStates, StateOf
    <2>2. RowFile({}).rows = {} OBVIOUS
    <2>3. file' \in RowFiles => StateOf(file'.rows, reached', cut')
        BY <1>0, <2>1, <2>2 DEF OpenDb, AllAreStates
    <2> QED BY <1>0, <2>3 DEF OpenDb, AllAreStates
<1>4. FilesAreThere' BY <1>0, <1>1 DEF OpenDb, SnapTypes, FilesAreThere, Content, Usable
<1>5. NothingTakenBack' BY <1>0, <1>1 DEF OpenDb, SnapTypes, NothingTakenBack, FilesAreThere, Content
<1> QED BY <1>1, <1>2, <1>3, <1>4, <1>5 DEF SnapInv

LEMMA KeepCloseDb == SnapInv /\ CloseDb => SnapInv'
<1> SUFFICES ASSUME SnapInv, CloseDb PROVE SnapInv' OBVIOUS
<1> USE Files, Restores, Txns
<1>0. /\ SnapTypes /\ TxnsAreTold /\ AllAreStates /\ FilesAreThere /\ NothingTakenBack
      /\ Usable => /\ Content \in RowFiles /\ Content.rows \subseteq RowPair /\ StateOf(Content.rows, reached, cut)
                   /\ file \in RowFiles /\ job.pc \notin {"write", "move", "reopen"}
    BY InUse DEF SnapInv
<1>1. SnapTypes' BY <1>0 DEF CloseDb, SnapTypes, Content
<1>2. TxnsAreTold' BY <1>0 DEF CloseDb, SnapTypes, TxnsAreTold
<1>3. AllAreStates' BY <1>0, <1>1, StateStays DEF CloseDb, SnapTypes, AllAreStates, FilesAreThere, Content
<1>4. FilesAreThere' BY <1>0, <1>1 DEF CloseDb, SnapTypes, FilesAreThere, Content, Usable
<1>5. NothingTakenBack' BY <1>0, <1>1 DEF CloseDb, SnapTypes, NothingTakenBack, FilesAreThere, Content
<1> QED BY <1>1, <1>2, <1>3, <1>4, <1>5 DEF SnapInv

LEMMA KeepBeginTxn == SnapInv /\ BeginTxn => SnapInv'
<1> SUFFICES ASSUME SnapInv, BeginTxn PROVE SnapInv' OBVIOUS
<1> USE Files, Restores, Txns
<1>0. /\ SnapTypes /\ TxnsAreTold /\ AllAreStates /\ FilesAreThere /\ NothingTakenBack
      /\ Usable => /\ Content \in RowFiles /\ Content.rows \subseteq RowPair /\ StateOf(Content.rows, reached, cut)
                   /\ file \in RowFiles /\ job.pc \notin {"write", "move", "reopen"}
    BY InUse DEF SnapInv
<1>a. /\ txn' \in TxnOf /\ txn'.n = Len(ended) + 1 /\ txn'.step = 0 /\ txn'.open /\ txn'.rows = {}
      /\ Len(ended) \in Nat /\ DOMAIN ended = 1..Len(ended)
    <2>1. Len(ended) \in Nat /\ DOMAIN ended = 1..Len(ended) BY <1>0 DEF SnapTypes
    <2>2. txn' = [n |-> Len(ended) + 1, step |-> 0, open |-> TRUE, rows |-> {}] BY DEF BeginTxn
    <2> QED BY <2>1, <2>2 DEF TxnOf
<1>1. SnapTypes' BY <1>0, <1>a DEF BeginTxn, SnapTypes
<1>2. TxnsAreTold' BY <1>0, <1>a, RowsGrow DEF BeginTxn, TxnsAreTold
<1>3. AllAreStates' BY <1>0, <1>1, StateStays DEF BeginTxn, SnapTypes, AllAreStates, FilesAreThere, Content
<1>4. FilesAreThere' BY <1>0, <1>1 DEF BeginTxn, SnapTypes, FilesAreThere, Content, Usable
<1>5. NothingTakenBack' BY <1>0, <1>1 DEF BeginTxn, SnapTypes, NothingTakenBack, FilesAreThere, Content
<1> QED BY <1>1, <1>2, <1>3, <1>4, <1>5 DEF SnapInv

LEMMA KeepWriteRow == SnapInv /\ WriteRow => SnapInv'
<1> SUFFICES ASSUME SnapInv, WriteRow PROVE SnapInv' OBVIOUS
<1> USE Files, Restores, Txns
<1>0. /\ SnapTypes /\ TxnsAreTold /\ AllAreStates /\ FilesAreThere /\ NothingTakenBack
      /\ Usable => /\ Content \in RowFiles /\ Content.rows \subseteq RowPair /\ StateOf(Content.rows, reached, cut)
                   /\ file \in RowFiles /\ job.pc \notin {"write", "move", "reopen"}
    BY InUse DEF SnapInv
<1> DEFINE row == <<txn.n, txn.step + 1>>
<1>a. /\ row \in RowPair /\ txn \in TxnOf /\ txn' \in TxnOf
      /\ txn'.n = txn.n /\ txn'.open = txn.open /\ txn'.step = txn.step + 1
      /\ txn'.rows = IF txn.open THEN txn.rows \union {row} ELSE txn.rows
    <2>1. txn \in TxnOf /\ txn.step < 2 BY <1>0 DEF SnapTypes, WriteRow
    <2>2. txn' = IF txn.open THEN [txn EXCEPT !.step = @ + 1, !.rows = @ \union {row}] ELSE [txn EXCEPT !.step = @ + 1]
        BY DEF WriteRow
    <2> QED BY <2>1, <2>2, StatementByStatement
<1>b. over' = IF txn.open THEN over ELSE RowFile(Content.rows \union {row}) BY DEF WriteRow
<1>c. Usable /\ txn.n \in Nat /\ txn.n > 0 /\ txn.step \in 0..1 BY <1>a DEF WriteRow
<1>d. /\ reached \subseteq reached' /\ (~txn.open => Content.rows \union {row} \in reached')
      /\ UNCHANGED <<drv, handle, conn, file, aside, ended, cut, shots, job, restores, kills, fileFaults>>
    BY <1>0, <1>a, <1>b, <1>c DEF WriteRow
<1>e. ~txn.open => /\ over' \in RowFiles /\ over'.rows = Content.rows \union {row}
                  /\ StateOf(over'.rows, reached', cut')
    <2> SUFFICES ASSUME ~txn.open PROVE over' \in RowFiles /\ over'.rows = Content.rows \union {row} /\ StateOf(over'.rows, reached', cut')
        OBVIOUS
    <2>1. over' \in RowFiles /\ over'.rows = Content.rows \union {row} BY <1>0, <1>a, <1>b, <1>c
    <2>2. txn.n \in cut BY <1>0, <1>c DEF TxnsAreTold
    <2>3. \A n \in Nat : n # txn.n => /\ (<<n, 1>> \in over'.rows) = (<<n, 1>> \in Content.rows)
                                      /\ (<<n, 2>> \in over'.rows) = (<<n, 2>> \in Content.rows)
        BY <2>1
    <2> QED BY <1>0, <1>c, <1>d, <2>1, <2>2, <2>3 DEF StateOf
<1> HIDE DEF row
<1>1. SnapTypes' BY <1>0, <1>a, <1>b, <1>d, <1>e DEF SnapTypes
<1>2. TxnsAreTold'
    <2>1. txn.open => txn'.rows = FirstRows(txn'.n, txn'.step) BY <1>0, <1>a, <1>c, RowsGrow DEF TxnsAreTold, row
    <2> QED BY <1>0, <1>a, <1>c, <1>d, <2>1 DEF TxnsAreTold
<1>3. AllAreStates' BY <1>0, <1>b, <1>d, <1>e, StateStays DEF AllAreStates
<1>4. FilesAreThere' BY <1>0, <1>1 DEF WriteRow, SnapTypes, FilesAreThere, Content, Usable
<1>5. NothingTakenBack'
    <2>1. restores = 0 => txn.open BY <1>0, <1>c DEF TxnsAreTold, NothingTakenBack
    <2> QED BY <1>0, <1>b, <1>d, <2>1 DEF NothingTakenBack, Content
<1> QED BY <1>1, <1>2, <1>3, <1>4, <1>5 DEF SnapInv

LEMMA KeepCommitTxn == SnapInv /\ CommitTxn => SnapInv'
<1> SUFFICES ASSUME SnapInv, CommitTxn PROVE SnapInv' OBVIOUS
<1> USE Files, Restores, Txns
<1>0. /\ SnapTypes /\ TxnsAreTold /\ AllAreStates /\ FilesAreThere /\ NothingTakenBack
      /\ Usable => /\ Content \in RowFiles /\ Content.rows \subseteq RowPair /\ StateOf(Content.rows, reached, cut)
                   /\ file \in RowFiles /\ job.pc \notin {"write", "move", "reopen"}
    BY InUse DEF SnapInv
<1> DEFINE all == Content.rows \union txn.rows
<1>a. /\ Usable /\ txn \in TxnOf /\ txn.n \in Nat /\ txn.n > 0 /\ txn.n = Len(ended) + 1
      /\ txn.rows = {<<txn.n, 1>>, <<txn.n, 2>>} /\ txn.rows \subseteq RowPair
    BY <1>0, RowsGrow DEF CommitTxn, SnapTypes, TxnsAreTold
<1>b. RowFile(all) \in RowFiles /\ RowFile(all).rows = all BY <1>0, <1>a
<1>c. /\ file' = IF drv = "wasm" THEN RowFile(all) ELSE file
      /\ over' = IF drv = "wasm" THEN Nothing ELSE RowFile(all)
      /\ Content' = RowFile(all)
    BY <1>b DEF CommitTxn, Content
<1>d. /\ reached \subseteq reached' /\ all \in reached'
      /\ UNCHANGED <<drv, handle, conn, aside, cut, shots, job, restores, kills, fileFaults>>
      /\ ended' = Append(ended, "ok") /\ txn' = NoTxn
    BY <1>b DEF CommitTxn
<1>e. StateOf(all, reached', cut')
    <2>1. \A n \in Nat : n # txn.n => /\ (<<n, 1>> \in all) = (<<n, 1>> \in Content.rows)
                                      /\ (<<n, 2>> \in all) = (<<n, 2>> \in Content.rows)
        BY <1>a
    <2>2. <<txn.n, 1>> \in all /\ <<txn.n, 2>> \in all BY <1>a
    <2> QED BY <1>0, <1>a, <1>d, <2>1, <2>2 DEF StateOf
<1>f. Content.rows \subseteq all /\ <<txn.n, 1>> \in all /\ <<txn.n, 2>> \in all BY <1>a
<1> HIDE DEF all
<1>1. SnapTypes' BY <1>0 DEF CommitTxn, SnapTypes, Content
<1>2. TxnsAreTold' BY <1>0 DEF CommitTxn, SnapTypes, TxnsAreTold
<1>3. AllAreStates' BY <1>0, <1>b, <1>c, <1>d, <1>e, StateStays DEF AllAreStates
<1>4. FilesAreThere' BY <1>0, <1>a, <1>b, <1>c, <1>d DEF FilesAreThere
<1>5. NothingTakenBack' 
    <2> SUFFICES ASSUME restores = 0 PROVE NothingTakenBack' BY <1>d DEF NothingTakenBack
    <2>1. cut' = {} /\ (drv' = "wasm" => over' = Nothing) BY <1>0, <1>c, <1>d DEF NothingTakenBack
    <2>2. ASSUME NEW n \in DOMAIN ended', ended'[n] = "ok"
          PROVE  Content' \in RowFiles /\ <<n, 1>> \in Content'.rows /\ <<n, 2>> \in Content'.rows
        <3>1. n = txn.n \/ (n \in DOMAIN ended /\ ended[n] = "ok")
            <4>1. ended \in Seq({"ok", "failed", "died"}) /\ ended' = Append(ended, "ok") BY <1>0, <1>d DEF SnapTypes
            <4>2. Len(ended) \in Nat /\ DOMAIN ended = 1..Len(ended) /\ DOMAIN ended' = 1..Len(ended) + 1
                BY <4>1, Told
            <4>3. n \in DOMAIN ended => ended'[n] = ended[n] BY <4>1, Told
            <4>4. n \in DOMAIN ended \/ n = Len(ended) + 1
                <5>1. n \in 1..Len(ended) + 1 BY <4>2, <2>2
                <5> QED BY <4>2, <5>1
            <4>5. n \in DOMAIN ended => ended[n] = "ok" BY <2>2, <4>3
            <4>6. txn.n = Len(ended) + 1 BY <1>a
            <4> QED BY <4>4, <4>5, <4>6
        <3> QED BY <1>0, <1>b, <1>c, <1>f, <3>1 DEF NothingTakenBack
    <2> QED BY <2>1, <2>2 DEF NothingTakenBack
<1> QED BY <1>1, <1>2, <1>3, <1>4, <1>5 DEF SnapInv

LEMMA KeepFailTxn == SnapInv /\ FailTxn => SnapInv'
<1> SUFFICES ASSUME SnapInv, FailTxn PROVE SnapInv' OBVIOUS
<1> USE Files, Restores, Txns
<1>0. /\ SnapTypes /\ TxnsAreTold /\ AllAreStates /\ FilesAreThere /\ NothingTakenBack
      /\ Usable => /\ Content \in RowFiles /\ Content.rows \subseteq RowPair /\ StateOf(Content.rows, reached, cut)
                   /\ file \in RowFiles /\ job.pc \notin {"write", "move", "reopen"}
    BY InUse DEF SnapInv
<1>1. SnapTypes' BY <1>0 DEF FailTxn, SnapTypes, Content
<1>2. TxnsAreTold' BY <1>0 DEF FailTxn, SnapTypes, TxnsAreTold
<1>3. AllAreStates' BY <1>0, <1>1, StateStays DEF FailTxn, SnapTypes, AllAreStates, FilesAreThere, Content
<1>4. FilesAreThere' BY <1>0, <1>1 DEF FailTxn, SnapTypes, FilesAreThere, Content, Usable
<1>5. NothingTakenBack' BY <1>0, <1>1 DEF FailTxn, SnapTypes, NothingTakenBack, FilesAreThere, Content
<1> QED BY <1>1, <1>2, <1>3, <1>4, <1>5 DEF SnapInv

LEMMA KeepAutoCheckpoint == SnapInv /\ AutoCheckpoint => SnapInv'
<1> SUFFICES ASSUME SnapInv, AutoCheckpoint PROVE SnapInv' OBVIOUS
<1> USE Files, Restores, Txns
<1>0. /\ SnapTypes /\ TxnsAreTold /\ AllAreStates /\ FilesAreThere /\ NothingTakenBack
      /\ Usable => /\ Content \in RowFiles /\ Content.rows \subseteq RowPair /\ StateOf(Content.rows, reached, cut)
                   /\ file \in RowFiles /\ job.pc \notin {"write", "move", "reopen"}
    BY InUse DEF SnapInv
<1>1. SnapTypes' BY <1>0 DEF AutoCheckpoint, SnapTypes, Content
<1>2. TxnsAreTold' BY <1>0 DEF AutoCheckpoint, SnapTypes, TxnsAreTold
<1>3. AllAreStates' BY <1>0, <1>1, StateStays DEF AutoCheckpoint, SnapTypes, AllAreStates, FilesAreThere, Content
<1>4. FilesAreThere' BY <1>0, <1>1 DEF AutoCheckpoint, SnapTypes, FilesAreThere, Content, Usable
<1>5. NothingTakenBack' BY <1>0, <1>1 DEF AutoCheckpoint, SnapTypes, NothingTakenBack, FilesAreThere, Content
<1> QED BY <1>1, <1>2, <1>3, <1>4, <1>5 DEF SnapInv

LEMMA KeepSerialize == SnapInv /\ Serialize => SnapInv'
<1> SUFFICES ASSUME SnapInv, Serialize PROVE SnapInv' OBVIOUS
<1> USE Files, Restores, Txns
<1>0. /\ SnapTypes /\ TxnsAreTold /\ AllAreStates /\ FilesAreThere /\ NothingTakenBack
      /\ Usable => /\ Content \in RowFiles /\ Content.rows \subseteq RowPair /\ StateOf(Content.rows, reached, cut)
                   /\ file \in RowFiles /\ job.pc \notin {"write", "move", "reopen"}
    BY InUse DEF SnapInv
<1>a. shots' \subseteq ShotOf
    <2>1. PICK s : shots' = shots \union {s} /\ s.bytes \subseteq RowPair /\ s = [bytes |-> s.bytes, stale |-> s.stale, during |-> s.during]
                  /\ s.stale \in BOOLEAN /\ s.during \in BOOLEAN
        <3>1. CASE drv = "tauri"
            <4>1. file' \in RowFiles /\ file'.rows \subseteq RowPair /\ txn.open \in BOOLEAN
                BY <1>0, <3>1 DEF Serialize, SnapTypes
            <4> DEFINE s == [bytes |-> file'.rows, stale |-> file' # Content, during |-> txn.open]
            <4>2. shots' = shots \union {s} BY <3>1 DEF Serialize
            <4>3. s.bytes = file'.rows /\ s.stale = (file' # Content) /\ s.during = txn.open OBVIOUS
            <4>4. s = [bytes |-> s.bytes, stale |-> s.stale, during |-> s.during] OBVIOUS
            <4>5. s.stale \in BOOLEAN /\ s.during \in BOOLEAN BY <4>1
            <4>6. s.bytes \subseteq RowPair BY <4>1
            <4> HIDE DEF s
            <4> QED BY <4>2, <4>4, <4>5, <4>6
        <3>2. CASE drv # "tauri"
            <4> DEFINE s == [bytes |-> Content.rows, stale |-> FALSE, during |-> FALSE]
            <4>1. Usable /\ shots' = shots \union {s} BY <3>2 DEF Serialize
            <4>2. s.bytes = Content.rows /\ s.stale = FALSE /\ s.during = FALSE OBVIOUS
            <4>3. s = [bytes |-> s.bytes, stale |-> s.stale, during |-> s.during] OBVIOUS
            <4>4. s.stale \in BOOLEAN /\ s.during \in BOOLEAN OBVIOUS
            <4>5. s.bytes \subseteq RowPair BY <1>0, <4>1
            <4> HIDE DEF s
            <4> QED BY <4>1, <4>3, <4>4, <4>5
        <3> QED BY <3>1, <3>2
    <2> QED BY <1>0, <2>1 DEF SnapTypes, ShotOf
<1>1. SnapTypes' BY <1>0, <1>a DEF Serialize, SnapTypes
<1>2. TxnsAreTold' BY <1>0 DEF Serialize, SnapTypes, TxnsAreTold
<1>3. AllAreStates' BY <1>0, <1>1, StateStays DEF Serialize, SnapTypes, AllAreStates, FilesAreThere, Content
<1>4. FilesAreThere' BY <1>0, <1>1 DEF Serialize, SnapTypes, FilesAreThere, Content, Usable
<1>5. NothingTakenBack' BY <1>0, <1>1 DEF Serialize, SnapTypes, NothingTakenBack, FilesAreThere, Content
<1> QED BY <1>1, <1>2, <1>3, <1>4, <1>5 DEF SnapInv

LEMMA KeepStartRestore == SnapInv /\ StartRestore => SnapInv'
<1> SUFFICES ASSUME SnapInv, StartRestore PROVE SnapInv' OBVIOUS
<1> USE Files, Restores, Txns
<1>0. /\ SnapTypes /\ TxnsAreTold /\ AllAreStates /\ FilesAreThere /\ NothingTakenBack
      /\ Usable => /\ Content \in RowFiles /\ Content.rows \subseteq RowPair /\ StateOf(Content.rows, reached, cut)
                   /\ file \in RowFiles /\ job.pc \notin {"write", "move", "reopen"}
    BY InUse DEF SnapInv
<1>a. txn \in TxnOf /\ txn' \in TxnOf /\ txn'.n = txn.n /\ ~txn'.open
    BY <1>0, TheRestIsCutOff DEF StartRestore, SnapTypes
<1>b. job' \in JobOf
    <2>1. PICK s \in shots : job' = [pc |-> "write", bytes |-> s.bytes, before |-> Content.rows] BY DEF StartRestore
    <2>2. s.bytes \subseteq RowPair /\ Content.rows \subseteq RowPair
        <3>1. s \in ShotOf BY <1>0 DEF SnapTypes
        <3> QED BY <1>0, <3>1 DEF StartRestore, ShotOf
    <2> QED BY <2>1, <2>2 DEF JobOf
<1>c. file' \in RowFiles
    <2>1. Usable /\ file' = Content BY DEF StartRestore
    <2> QED BY <1>0, <2>1
<1>d. over' = Nothing /\ UNCHANGED <<drv, aside, ended, shots, kills, fileFaults>> BY DEF StartRestore
<1>e. handle' \in BOOLEAN /\ conn' \in BOOLEAN BY <1>0 DEF StartRestore
<1>f. restores' \in Nat BY <1>0 DEF StartRestore, SnapTypes
<1>1. SnapTypes' BY <1>0, <1>a, <1>b, <1>c, <1>d, <1>e, <1>f DEF SnapTypes
<1>2. TxnsAreTold' BY <1>0, <1>a DEF StartRestore, TxnsAreTold
<1>3. AllAreStates' BY <1>0, <1>1, StateStays DEF StartRestore, SnapTypes, AllAreStates, FilesAreThere, Content
<1>4. FilesAreThere' BY <1>0, <1>1 DEF StartRestore, SnapTypes, FilesAreThere, Content, Usable
<1>5. NothingTakenBack' BY <1>0, <1>1 DEF StartRestore, SnapTypes, NothingTakenBack, FilesAreThere, Content
<1> QED BY <1>1, <1>2, <1>3, <1>4, <1>5 DEF SnapInv

LEMMA KeepWriteInPlace == SnapInv /\ WriteInPlace => SnapInv'
<1> SUFFICES ASSUME SnapInv, WriteInPlace PROVE SnapInv' OBVIOUS
<1> USE Files, Restores, Txns
<1>0. /\ SnapTypes /\ TxnsAreTold /\ AllAreStates /\ FilesAreThere /\ NothingTakenBack
      /\ Usable => /\ Content \in RowFiles /\ Content.rows \subseteq RowPair /\ StateOf(Content.rows, reached, cut)
                   /\ file \in RowFiles /\ job.pc \notin {"write", "move", "reopen"}
    BY InUse DEF SnapInv
<1>1. SnapTypes' BY <1>0 DEF WriteInPlace, SnapTypes, Content
<1>2. TxnsAreTold' BY <1>0 DEF WriteInPlace, SnapTypes, TxnsAreTold
<1>3. AllAreStates' BY <1>0, <1>1, StateStays DEF WriteInPlace, SnapTypes, AllAreStates, FilesAreThere, Content
<1>4. FilesAreThere' BY <1>0, <1>1 DEF WriteInPlace, SnapTypes, FilesAreThere, Content, Usable
<1>5. NothingTakenBack' BY <1>0, <1>1 DEF WriteInPlace, SnapTypes, NothingTakenBack, FilesAreThere, Content
<1> QED BY <1>1, <1>2, <1>3, <1>4, <1>5 DEF SnapInv

LEMMA KeepMoveAside == SnapInv /\ MoveAside => SnapInv'
<1> SUFFICES ASSUME SnapInv, MoveAside PROVE SnapInv' OBVIOUS
<1> USE Files, Restores, Txns
<1>0. /\ SnapTypes /\ TxnsAreTold /\ AllAreStates /\ FilesAreThere /\ NothingTakenBack
      /\ Usable => /\ Content \in RowFiles /\ Content.rows \subseteq RowPair /\ StateOf(Content.rows, reached, cut)
                   /\ file \in RowFiles /\ job.pc \notin {"write", "move", "reopen"}
    BY InUse DEF SnapInv
<1>1. SnapTypes' BY <1>0 DEF MoveAside, SnapTypes, FilesAreThere
<1>2. TxnsAreTold' BY <1>0 DEF MoveAside, SnapTypes, TxnsAreTold
<1>3. AllAreStates' BY <1>0, <1>1, StateStays DEF MoveAside, SnapTypes, AllAreStates, FilesAreThere, Content
<1>4. FilesAreThere' BY <1>0, <1>1 DEF MoveAside, SnapTypes, FilesAreThere, Content, Usable
<1>5. NothingTakenBack' BY <1>0, <1>1 DEF MoveAside, SnapTypes, NothingTakenBack, FilesAreThere, Content
<1> QED BY <1>1, <1>2, <1>3, <1>4, <1>5 DEF SnapInv

LEMMA KeepMoveIn == SnapInv /\ MoveIn => SnapInv'
<1> SUFFICES ASSUME SnapInv, MoveIn PROVE SnapInv' OBVIOUS
<1> USE Files, Restores, Txns
<1>0. /\ SnapTypes /\ TxnsAreTold /\ AllAreStates /\ FilesAreThere /\ NothingTakenBack
      /\ Usable => /\ Content \in RowFiles /\ Content.rows \subseteq RowPair /\ StateOf(Content.rows, reached, cut)
                   /\ file \in RowFiles /\ job.pc \notin {"write", "move", "reopen"}
    BY InUse DEF SnapInv
<1>1. SnapTypes' BY <1>0 DEF MoveIn, SnapTypes, Content
<1>2. TxnsAreTold' BY <1>0 DEF MoveIn, SnapTypes, TxnsAreTold
<1>3. AllAreStates' BY <1>0, <1>1, StateStays DEF MoveIn, SnapTypes, AllAreStates, FilesAreThere, Content
<1>4. FilesAreThere' BY <1>0, <1>1 DEF MoveIn, SnapTypes, FilesAreThere, Content, Usable
<1>5. NothingTakenBack' BY <1>0, <1>1 DEF MoveIn, SnapTypes, NothingTakenBack, FilesAreThere, Content
<1> QED BY <1>1, <1>2, <1>3, <1>4, <1>5 DEF SnapInv

LEMMA KeepLoadImage == SnapInv /\ LoadImage => SnapInv'
<1> SUFFICES ASSUME SnapInv, LoadImage PROVE SnapInv' OBVIOUS
<1> USE Files, Restores, Txns
<1>0. /\ SnapTypes /\ TxnsAreTold /\ AllAreStates /\ FilesAreThere /\ NothingTakenBack
      /\ Usable => /\ Content \in RowFiles /\ Content.rows \subseteq RowPair /\ StateOf(Content.rows, reached, cut)
                   /\ file \in RowFiles /\ job.pc \notin {"write", "move", "reopen"}
    BY InUse DEF SnapInv
<1>1. SnapTypes' BY <1>0 DEF LoadImage, SnapTypes, Content
<1>2. TxnsAreTold' BY <1>0 DEF LoadImage, SnapTypes, TxnsAreTold
<1>3. AllAreStates' BY <1>0, <1>1, StateStays DEF LoadImage, SnapTypes, AllAreStates, FilesAreThere, Content
<1>4. FilesAreThere' BY <1>0, <1>1 DEF LoadImage, SnapTypes, FilesAreThere, Content, Usable
<1>5. NothingTakenBack' BY <1>0, <1>1 DEF LoadImage, SnapTypes, NothingTakenBack, FilesAreThere, Content
<1> QED BY <1>1, <1>2, <1>3, <1>4, <1>5 DEF SnapInv

LEMMA KeepSaveImage == SnapInv /\ SaveImage => SnapInv'
<1> SUFFICES ASSUME SnapInv, SaveImage PROVE SnapInv' OBVIOUS
<1> USE Files, Restores, Txns
<1>0. /\ SnapTypes /\ TxnsAreTold /\ AllAreStates /\ FilesAreThere /\ NothingTakenBack
      /\ Usable => /\ Content \in RowFiles /\ Content.rows \subseteq RowPair /\ StateOf(Content.rows, reached, cut)
                   /\ file \in RowFiles /\ job.pc \notin {"write", "move", "reopen"}
    BY InUse DEF SnapInv
<1>1. SnapTypes' BY <1>0 DEF SaveImage, SnapTypes, FilesAreThere
<1>2. TxnsAreTold' BY <1>0 DEF SaveImage, SnapTypes, TxnsAreTold
<1>3. AllAreStates' BY <1>0, <1>1, StateStays DEF SaveImage, SnapTypes, AllAreStates, FilesAreThere, Content
<1>4. FilesAreThere' BY <1>0, <1>1 DEF SaveImage, SnapTypes, FilesAreThere, Content, Usable
<1>5. NothingTakenBack' BY <1>0, <1>1 DEF SaveImage, SnapTypes, NothingTakenBack, FilesAreThere, Content
<1> QED BY <1>1, <1>2, <1>3, <1>4, <1>5 DEF SnapInv

LEMMA KeepReopen == SnapInv /\ Reopen => SnapInv'
<1> SUFFICES ASSUME SnapInv, Reopen PROVE SnapInv' OBVIOUS
<1> USE Files, Restores, Txns
<1>0. /\ SnapTypes /\ TxnsAreTold /\ AllAreStates /\ FilesAreThere /\ NothingTakenBack
      /\ Usable => /\ Content \in RowFiles /\ Content.rows \subseteq RowPair /\ StateOf(Content.rows, reached, cut)
                   /\ file \in RowFiles /\ job.pc \notin {"write", "move", "reopen"}
    BY InUse DEF SnapInv
<1>1. SnapTypes' BY <1>0 DEF Reopen, SnapTypes, Content
<1>2. TxnsAreTold' BY <1>0 DEF Reopen, SnapTypes, TxnsAreTold
<1>3. AllAreStates' BY <1>0, <1>1, StateStays DEF Reopen, SnapTypes, AllAreStates, FilesAreThere, Content
<1>4. FilesAreThere' BY <1>0, <1>1 DEF Reopen, SnapTypes, FilesAreThere, Content, Usable
<1>5. NothingTakenBack' BY <1>0, <1>1 DEF Reopen, SnapTypes, NothingTakenBack, FilesAreThere, Content
<1> QED BY <1>1, <1>2, <1>3, <1>4, <1>5 DEF SnapInv

LEMMA KeepWriteFails == SnapInv /\ WriteFails => SnapInv'
<1> SUFFICES ASSUME SnapInv, WriteFails PROVE SnapInv' OBVIOUS
<1> USE Files, Restores, Txns
<1>0. /\ SnapTypes /\ TxnsAreTold /\ AllAreStates /\ FilesAreThere /\ NothingTakenBack
      /\ Usable => /\ Content \in RowFiles /\ Content.rows \subseteq RowPair /\ StateOf(Content.rows, reached, cut)
                   /\ file \in RowFiles /\ job.pc \notin {"write", "move", "reopen"}
    BY InUse DEF SnapInv
<1>1. SnapTypes' BY <1>0 DEF WriteFails, SnapTypes, Content
<1>2. TxnsAreTold' BY <1>0 DEF WriteFails, SnapTypes, TxnsAreTold
<1>3. AllAreStates' BY <1>0, <1>1, StateStays DEF WriteFails, SnapTypes, AllAreStates, FilesAreThere, Content
<1>4. FilesAreThere' BY <1>0, <1>1 DEF WriteFails, SnapTypes, FilesAreThere, Content, Usable
<1>5. NothingTakenBack' BY <1>0, <1>1 DEF WriteFails, SnapTypes, NothingTakenBack, FilesAreThere, Content
<1> QED BY <1>1, <1>2, <1>3, <1>4, <1>5 DEF SnapInv

LEMMA KeepKill == SnapInv /\ Kill => SnapInv'
<1> SUFFICES ASSUME SnapInv, Kill PROVE SnapInv' OBVIOUS
<1> USE Files, Restores, Txns
<1>0. /\ SnapTypes /\ TxnsAreTold /\ AllAreStates /\ FilesAreThere /\ NothingTakenBack
      /\ Usable => /\ Content \in RowFiles /\ Content.rows \subseteq RowPair /\ StateOf(Content.rows, reached, cut)
                   /\ file \in RowFiles /\ job.pc \notin {"write", "move", "reopen"}
    BY InUse DEF SnapInv
<1>1. SnapTypes'
    <2>1. ended' \in Seq({"ok", "failed", "died"}) BY <1>0, Told DEF Kill, SnapTypes
    <2>2. file' \in RowFiles \cup {Torn, Gone} /\ over' \in RowFiles \cup {Nothing} BY <1>0 DEF Kill, SnapTypes
    <2>3. /\ handle' = FALSE /\ conn' = FALSE /\ txn' = NoTxn /\ job' = NoRestore /\ kills' = kills + 1
          /\ UNCHANGED <<aside, shots, restores, fileFaults>>
        BY DEF Kill
    <2>4. txn' \in TxnOf /\ job' \in JobOf \cup {NoRestore} /\ kills' \in Nat BY <1>0, <2>3 DEF SnapTypes
    <2>5. handle' \in BOOLEAN /\ conn' \in BOOLEAN BY <2>3
    <2>6. aside' \in RowFiles \cup {Nothing} /\ shots' \subseteq ShotOf /\ restores' \in Nat /\ fileFaults' \in Nat
        BY <1>0, <2>3 DEF SnapTypes
    <2> QED BY <2>1, <2>2, <2>4, <2>5, <2>6 DEF SnapTypes
<1>2. TxnsAreTold' BY <1>0 DEF Kill, SnapTypes, TxnsAreTold
<1>3. AllAreStates' BY <1>0, <1>1, StateStays DEF Kill, SnapTypes, AllAreStates, FilesAreThere, Content
<1>4. FilesAreThere' BY <1>0, <1>1 DEF Kill, SnapTypes, FilesAreThere, Content, Usable
<1>5. NothingTakenBack' BY <1>0, <1>1 DEF Kill, SnapTypes, NothingTakenBack, FilesAreThere, Content
<1> QED BY <1>1, <1>2, <1>3, <1>4, <1>5 DEF SnapInv

LEMMA NextSnap == SnapInv /\ [SnapshotNext]_snapVars => SnapInv'
<1> SUFFICES ASSUME SnapInv, [SnapshotNext]_snapVars PROVE SnapInv' OBVIOUS
<1>1. CASE UNCHANGED snapVars
    BY <1>1 DEF SnapInv, SnapTypes, TxnsAreTold, AllAreStates, FilesAreThere, NothingTakenBack, Content, snapVars
<1>2. CASE SnapshotNext
    BY <1>2, KeepOpenDb, KeepCloseDb, KeepBeginTxn, KeepWriteRow, KeepCommitTxn, KeepFailTxn,
       KeepAutoCheckpoint, KeepSerialize, KeepStartRestore, KeepWriteInPlace, KeepMoveAside, KeepMoveIn,
       KeepLoadImage, KeepSaveImage, KeepReopen, KeepWriteFails, KeepKill
    DEF SnapshotNext
<1> QED BY <1>1, <1>2

(* Of the two rows of a transaction a half is one of them. *)
LEMMA HalfIsOne ==
    ASSUME NEW rows \in SUBSET RowPair, NEW n \in Nat, Half(rows, n)
    PROVE  (<<n, 1>> \in rows) # (<<n, 2>> \in rows)
<1> DEFINE Of == {r \in rows : r[1] = n}
<1>1. Cardinality(Of) = 1 BY DEF Half
<1>2. Of \subseteq {<<n, 1>>, <<n, 2>>} BY DEF RowPair
<1>5. IsFiniteSet(Of)
    <2>1. IsFiniteSet({<<n, 1>>, <<n, 2>>})
        <3>1. IsFiniteSet({<<n, 1>>}) BY FS_Singleton
        <3>2. IsFiniteSet({<<n, 1>>} \cup {<<n, 2>>}) BY <3>1, FS_AddElement
        <3>3. {<<n, 1>>, <<n, 2>>} = {<<n, 1>>} \cup {<<n, 2>>} OBVIOUS
        <3> QED BY <3>2, <3>3
    <2> HIDE DEF Of
    <2> QED BY <1>2, <2>1, FS_Subset
<1>3. ASSUME <<n, 1>> \in rows, <<n, 2>> \in rows PROVE FALSE
    <2>1. <<n, 1>> \in Of /\ <<n, 2>> \in Of BY <1>3
    <2>2. PICK x : Of = {x} BY <1>1, <1>5, FS_Singleton
    <2>3. <<n, 1>> # <<n, 2>> OBVIOUS
    <2> QED BY <2>1, <2>2, <2>3
<1>4. ASSUME <<n, 1>> \notin rows, <<n, 2>> \notin rows PROVE FALSE
    <2>1. Of = {} BY <1>2, <1>4
    <2> QED BY <1>1, <2>1, FS_EmptySet
<1> QED BY <1>3, <1>4

LEMMA SnapSuffices == SnapshotAssumption /\ SnapInv => SnapshotsAreSound
<1> SUFFICES ASSUME SnapshotAssumption, SnapInv PROVE SnapshotsAreSound OBVIOUS
<1> USE Files
<1>0. SnapTypes /\ TxnsAreTold /\ AllAreStates /\ FilesAreThere /\ NothingTakenBack BY DEF SnapInv
<1>1. SnapshotTypeOK BY <1>0, Txns DEF SnapTypes, SnapshotTypeOK
<1>2. SnapshotsAreStates BY <1>0 DEF AllAreStates, StateOf, SnapshotsAreStates
<1>3. HalvesWereCut
    <2> SUFFICES ASSUME Content.kind = "rows", NEW n \in 1..MaxTxns, Half(Content.rows, n)
                 PROVE  n \in cut /\ (n \in DOMAIN ended => ended[n] # "ok")
        BY DEF HalvesWereCut
    <2>1. Content \in RowFiles /\ StateOf(Content.rows, reached, cut) BY <1>0 DEF SnapTypes, AllAreStates, Content
    <2>2. n \in Nat BY DEF SnapshotAssumption
    <2>3. n \in cut BY <2>1, <2>2, HalfIsOne DEF StateOf
    <2>4. n \in DOMAIN ended => n # Len(ended) + 1 BY <1>0 DEF SnapTypes
    <2> QED BY <1>0, <2>3, <2>4 DEF TxnsAreTold
<1>4. RestoreKeepsOne BY <1>0 DEF SnapTypes, FilesAreThere, RestoreKeepsOne, Content
<1>5. CommitsStay BY <1>0 DEF NothingTakenBack, CommitsStay
<1> QED BY <1>1, <1>2, <1>3, <1>4, <1>5 DEF SnapshotsAreSound

(* Transactions are whole: between them the count the next call chooses    *)
(* BEGIN or SAVEPOINT by is what SQLite has open; what a new process finds  *)
(* has the rows of a call all or not at all, a nested call's only with     *)
(* those of the call around it; and a plain write that was answered is     *)
(* there unless the process died or a save failed: on every driver and for *)
(* every tree of calls, when calls that do not know of each other do not   *)
(* overlap (database.ts, wasm.ts).                                         *)
THEOREM TransactionSafety == Overlap = FALSE => (Spec => []TransactionsAreSound)
<1> SUFFICES ASSUME Overlap = FALSE PROVE Spec => []TransactionsAreSound
  OBVIOUS
<1> DEFINE I == DbInv /\ WholeInv /\ PlainInv
<1>1. Init => I
  BY InitDb, InitWhole, InitPlain
<1>2. I /\ [Next]_vars => I'
  BY NextDb, NextWhole, NextPlain
<1>3. I => TransactionsAreSound
  BY DbIsSound
<1> QED
  BY <1>1, <1>2, <1>3, PTL DEF Spec

(* A snapshot is a state the database was in; a half of a transaction is   *)
(* in it only when a restore cut that transaction off, and its caller was  *)
(* not told that it is committed; a restore that fails or dies leaves what *)
(* was there, except that Rust may tear its file; and what was committed   *)
(* stays until a restore takes it back: on the four drivers, wherever they *)
(* are killed or fail (driver.ts, db.rs, node.ts, wasm.ts).                *)
THEOREM SnapshotSafety == SnapshotSpec => []SnapshotsAreSound
<1>1. SnapshotInit => SnapInv
  BY SnapStart
<1>2. SnapInv /\ [SnapshotNext]_snapVars => SnapInv'
  BY NextSnap
<1>3. SnapInv => SnapshotsAreSound
  BY SnapSuffices, SnapshotAssumption
<1> QED
  BY <1>1, <1>2, <1>3, PTL DEF SnapshotSpec

(* Both, of the composition the run checks: what the app keeps on the disk *)
(* is sound, in transactions and in the copies made of the file and put in *)
(* its place (driver.ts, db.rs).                                           *)
THEOREM StorageSafety == Overlap = FALSE => (MCSpec => []StorageIsSound)
<1> SUFFICES ASSUME Overlap = FALSE PROVE MCSpec => []StorageIsSound
  OBVIOUS
<1> DEFINE I == (DbInv /\ WholeInv /\ PlainInv) /\ SnapInv
<1>1. MCInit => I
  BY InitDb, InitWhole, InitPlain, SnapStart DEF MCInit
<1>2. I /\ [MCNext]_<<part, vars, snapVars>> => I'
  <2> SUFFICES ASSUME I, [MCNext]_<<part, vars, snapVars>> PROVE I'
    OBVIOUS
  <2>1. [Next]_vars /\ [SnapshotNext]_snapVars
    BY DEF MCNext
  <2> QED
    BY <2>1, NextDb, NextWhole, NextPlain, NextSnap
<1>3. I => StorageIsSound
  BY DbIsSound, SnapSuffices, SnapshotAssumption DEF StorageIsSound
<1> QED
  BY <1>1, <1>2, <1>3, PTL DEF MCSpec
=============================================================================
