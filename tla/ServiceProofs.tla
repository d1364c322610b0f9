---------------------------- MODULE ServiceProofs ----------------------------
(***************************************************************************)
(* The safety of the sessions of an account and of the news, for any       *)
(* devices, callers, sources and readers.                                  *)
(***************************************************************************)
EXTENDS Sessions, NewsFeed, SequenceTheorems, TLAPS

-----------------------------------------------------------------------------
(* Sessions: what every call carries, and what is known of the tokens.     *)

Entry == {"access", "refresh", "session", "sync"}
Call == [kind : {"none", "register", "login", "refresh", "store"}, token : Nat, todo : Seq(Entry)]

(* A login carries the version of the password it was compared with, a     *)
(* refresh or a store one of its own device's tokens, a store also what is *)
(* to be written.                                                          *)
CallIsTyped(k, d, ts, pw) ==
    /\ k.token \in IF k.kind = "login" THEN 1..pw ELSE 0..Len(ts)
    /\ k.kind \in {"refresh", "store"} /\ k.token # 0 => ts[k.token].dev = d
    /\ k.kind = "refresh" => k.token # 0
    /\ k.kind = "store" => k.todo # <<>>

AccountTypes ==
    /\ account \in {"none", "live", "gone"} /\ password \in 1..MaxChanges + 1
    /\ change = 0 \/ (change = password /\ password <= MaxChanges)
TokenTypes == tokens \in Seq(Token) /\ Len(tokens) <= MaxTokens
DeviceTypes ==
    /\ access \in [Client -> 0..Len(tokens)]
    /\ refresh \in [Client -> 0..Len(tokens)]
    /\ session \in [Client -> {"none", "fresh", "stale"}]
    /\ syncOn \in [Client -> BOOLEAN]
    /\ \A d \in Client : refresh[d] # 0 => tokens[refresh[d]].dev = d
CallTypes ==
    /\ call \in [Client -> [Caller -> Call]]
    /\ \A d \in Client, c \in Caller : CallIsTyped(call[d][c], d, tokens, password)
    /\ trouble \subseteq Client

SessionTypes == AccountTypes /\ TokenTypes /\ DeviceTypes /\ CallTypes

(* A token that has a successor has only that one and is used up, and what *)
(* is good is of the password pw.                                          *)
Lineage(ts, pw) ==
    /\ \A i \in DOMAIN ts : ts[i].from # 0 =>
          ts[i].from \in DOMAIN ts /\ ts[ts[i].from].revoked # "no"
    /\ \A i, j \in DOMAIN ts : i # j /\ ts[i].from = ts[j].from => ts[i].from = 0
    /\ \A i \in DOMAIN ts : ts[i].row /\ ts[i].revoked = "no" => ts[i].at = pw

TInv == SessionTypes /\ Lineage(tokens, password) /\ PurgeLeavesNothing

(* us has the tokens of ts, whatever was done to them, and maybe more.     *)
Grows(ts, us) == Len(us) >= Len(ts) /\ \A i \in DOMAIN ts : us[i].dev = ts[i].dev

Reason == {"rotated", "replayed", "expired", "logout", "removed", "password"}

LEMMA TokenShape ==
    ASSUME NEW ts \in Seq(Token)
    PROVE  /\ DOMAIN ts = 1..Len(ts) /\ Len(ts) \in Nat
           /\ \A i \in DOMAIN ts : ts[i] \in Token
  OBVIOUS

(* us is ts after an UPDATE refresh_tokens SET revoked_at for the rows S,   *)
(* or after an INSERT of a token of device d that continues from.          *)
Revoked(us, ts, S, reason) ==
    /\ us \in Seq(Token) /\ Len(us) = Len(ts) /\ DOMAIN us = DOMAIN ts
    /\ \A i \in DOMAIN ts :
         /\ us[i].dev = ts[i].dev /\ us[i].from = ts[i].from /\ us[i].row = ts[i].row /\ us[i].at = ts[i].at
         /\ us[i].revoked = IF i \in S /\ ts[i].revoked = "no" THEN reason ELSE ts[i].revoked

Issued(us, ts, d, from, pw) ==
    /\ us \in Seq(Token) /\ Len(us) = Len(ts) + 1 /\ DOMAIN us = 1..Len(ts) + 1
    /\ \A i \in DOMAIN ts : us[i] = ts[i]
    /\ us[Len(ts) + 1].dev = d /\ us[Len(ts) + 1].from = from
    /\ us[Len(ts) + 1].revoked = "no" /\ us[Len(ts) + 1].at = pw

LEMMA RevokeFacts ==
    ASSUME NEW ts \in Seq(Token), NEW S, NEW reason \in Reason
    PROVE  Revoked(Revoke(S, reason, ts), ts, S, reason)
<1> DEFINE us == Revoke(S, reason, ts)
           new(i) == IF i \in S /\ ts[i].revoked = "no" THEN [ts[i] EXCEPT !.revoked = reason] ELSE ts[i]
<1>1. us = [i \in DOMAIN ts |-> new(i)]
  BY DEF Revoke
<1>2. \A i \in DOMAIN ts : ts[i] \in Token
  BY TokenShape
<1>3. ASSUME NEW i \in DOMAIN ts
      PROVE  /\ new(i) \in Token
             /\ new(i).dev = ts[i].dev /\ new(i).from = ts[i].from /\ new(i).row = ts[i].row
             /\ new(i).at = ts[i].at
             /\ new(i).revoked = IF i \in S /\ ts[i].revoked = "no" THEN reason ELSE ts[i].revoked
  BY <1>2 DEF Token, Reason
<1> HIDE DEF new, us
<1>4. DOMAIN us = 1..Len(ts) /\ Len(ts) \in Nat
  BY <1>1
<1>5. us \in Seq(Token) /\ Len(us) = Len(ts)
  BY <1>1, <1>3, <1>4
<1> QED BY <1>1, <1>3, <1>4, <1>5 DEF us, Revoked

LEMMA RevokeKeepsLineage ==
    ASSUME NEW ts \in Seq(Token), NEW S, NEW reason \in Reason, NEW pw, Lineage(ts, pw)
    PROVE  Lineage(Revoke(S, reason, ts), pw) /\ Grows(ts, Revoke(S, reason, ts))
<1> DEFINE us == Revoke(S, reason, ts)
<1>1. /\ DOMAIN us = DOMAIN ts /\ Len(us) = Len(ts) /\ Len(ts) \in Nat
      /\ \A i \in DOMAIN ts :
           /\ us[i].dev = ts[i].dev /\ us[i].from = ts[i].from /\ us[i].row = ts[i].row /\ us[i].at = ts[i].at
           /\ us[i].revoked = "no" => ts[i].revoked = "no"
  <2>1. Revoked(us, ts, S, reason)
    BY RevokeFacts
  <2> HIDE DEF us
  <2> QED BY <2>1 DEF Revoked, Reason
<1> HIDE DEF us
<1> QED BY <1>1 DEF Lineage, Grows, us

(* us has the tokens of ts, and they are as sound.                         *)
TokensKept(us, ts, pw) ==
    us \in Seq(Token) /\ Len(us) = Len(ts) /\ DOMAIN us = DOMAIN ts /\ Lineage(us, pw) /\ Grows(ts, us)

LEMMA RevokeKeeps ==
    ASSUME NEW ts \in Seq(Token), NEW S, NEW reason \in Reason, NEW pw, Lineage(ts, pw)
    PROVE  /\ TokensKept(Revoke(S, reason, ts), ts, pw)
           /\ \A n \in DOMAIN Revoke(S, reason, ts) : Revoke(S, reason, ts)[n].row = ts[n].row
<1> DEFINE us == Revoke(S, reason, ts)
<1>1. Revoked(us, ts, S, reason) /\ Lineage(us, pw) /\ Grows(ts, us)
  BY RevokeFacts, RevokeKeepsLineage
<1> HIDE DEF us
<1>2. TokensKept(us, ts, pw) /\ \A n \in DOMAIN us : us[n].row = ts[n].row
  BY <1>1 DEF Revoked, TokensKept
<1> QED BY <1>2 DEF us

LEMMA IssueFacts ==
    ASSUME NEW ts \in Seq(Token), NEW d \in Client, NEW from \in Nat, NEW knew \in Nat, password \in Nat
    PROVE  Issued(Issue(d, from, knew, ts), ts, d, from, password)
<1> DEFINE t == [dev |-> d, from |-> from, row |-> TRUE, revoked |-> "no",
                 expired |-> FALSE, at |-> password, knew |-> knew]
<1>1. t \in Token
  BY DEF Token
<1>2. Issue(d, from, knew, ts) = Append(ts, t)
  BY DEF Issue
<1> HIDE DEF t
<1>3. /\ Append(ts, t) \in Seq(Token) /\ Len(Append(ts, t)) = Len(ts) + 1
      /\ \A i \in DOMAIN ts : Append(ts, t)[i] = ts[i]
      /\ Append(ts, t)[Len(ts) + 1] = t
      /\ DOMAIN Append(ts, t) = 1..Len(ts) + 1
  BY <1>1
<1> QED BY <1>2, <1>3 DEF t, Issued

(* A token that is issued continues one that is used up and has no         *)
(* successor, or none.                                                     *)
LEMMA IssueKeepsLineage ==
    ASSUME NEW ts \in Seq(Token), NEW d \in Client, NEW from \in Nat, NEW knew \in Nat, password \in Nat,
           Lineage(ts, password),
           from # 0 => /\ from \in DOMAIN ts /\ ts[from].revoked # "no"
                       /\ \A i \in DOMAIN ts : ts[i].from # from
    PROVE  Lineage(Issue(d, from, knew, ts), password) /\ Grows(ts, Issue(d, from, knew, ts))
<1> DEFINE us == Issue(d, from, knew, ts)
           n == Len(ts) + 1
<1>1. /\ DOMAIN us = 1..n /\ Len(us) = n /\ Len(ts) \in Nat /\ DOMAIN ts = 1..Len(ts)
      /\ \A i \in DOMAIN ts : us[i] = ts[i]
      /\ us[n].from = from /\ us[n].at = password
  <2>1. Issued(us, ts, d, from, password)
    BY IssueFacts
  <2> HIDE DEF us
  <2> QED BY <2>1, TokenShape DEF Issued
<1> HIDE DEF us
<1>2. \A i \in DOMAIN us : i \in DOMAIN ts \/ i = n
  BY <1>1
<1>3. \A i \in DOMAIN ts : us[i].from = ts[i].from
  BY <1>1
<1>4. \A i \in DOMAIN us : us[i].from # 0 => us[i].from \in DOMAIN us /\ us[us[i].from].revoked # "no"
  <2>1. \A k \in DOMAIN ts : k \in DOMAIN us
    BY <1>1
  <2> QED BY <1>1, <1>2, <2>1 DEF Lineage
<1>5. \A i, j \in DOMAIN us : i # j /\ us[i].from = us[j].from => us[i].from = 0
  BY <1>1, <1>2, <1>3 DEF Lineage
<1>6. \A i \in DOMAIN us : us[i].row /\ us[i].revoked = "no" => us[i].at = password
  BY <1>1, <1>2 DEF Lineage
<1>7. Grows(ts, us)
  BY <1>1 DEF Grows
<1> QED BY <1>4, <1>5, <1>6, <1>7 DEF Lineage, us

-----------------------------------------------------------------------------
(* What the steps leave alone. *)

LEMMA DeviceFrame ==
    ASSUME SessionTypes, tokens' \in Seq(Token), Grows(tokens, tokens'), UNCHANGED device
    PROVE  DeviceTypes'
<1>1. Len(tokens) \in Nat /\ Len(tokens') \in Nat /\ Len(tokens') >= Len(tokens) /\ DOMAIN tokens = 1..Len(tokens)
  BY DEF SessionTypes, TokenTypes, Grows
<1>2. \A n \in 0..Len(tokens) : n \in 0..Len(tokens')
  BY <1>1
<1>3. \A d \in Client : refresh[d] # 0 => tokens'[refresh[d]].dev = d
  BY <1>1 DEF SessionTypes, DeviceTypes, Grows
<1> QED BY <1>2, <1>3 DEF SessionTypes, DeviceTypes, device

LEMMA CallFrame ==
    ASSUME SessionTypes, tokens' \in Seq(Token), Grows(tokens, tokens'), password' \in {password, password + 1}
    PROVE  \A k \in Call, d \in Client : CallIsTyped(k, d, tokens, password) => CallIsTyped(k, d, tokens', password')
<1>1. Len(tokens) \in Nat /\ Len(tokens') \in Nat /\ Len(tokens') >= Len(tokens) /\ DOMAIN tokens = 1..Len(tokens)
  BY DEF SessionTypes, TokenTypes, Grows
<1>2. password \in Nat /\ password' \in Nat /\ password' >= password
  BY SessionAssumption DEF SessionTypes, AccountTypes
<1> SUFFICES ASSUME NEW k \in Call, NEW d \in Client, CallIsTyped(k, d, tokens, password)
             PROVE  CallIsTyped(k, d, tokens', password')
  OBVIOUS
<1>3. k.token \in Nat
  BY DEF Call
<1>4. CASE k.kind = "login"
  BY <1>2, <1>4 DEF CallIsTyped
<1>5. CASE k.kind # "login"
  <2>1. k.token \in 0..Len(tokens) /\ k.token \in 0..Len(tokens')
    BY <1>1, <1>3, <1>5 DEF CallIsTyped
  <2>2. k.token # 0 => tokens'[k.token].dev = tokens[k.token].dev
    BY <1>1, <2>1 DEF Grows
  <2> QED BY <1>5, <2>1, <2>2 DEF CallIsTyped
<1> QED BY <1>4, <1>5

(* A call that goes on, with what is known of it then.                     *)
LEMMA GoesKeepsTypes ==
    ASSUME SessionTypes, tokens' \in Seq(Token), Grows(tokens, tokens'), password' \in {password, password + 1},
           NEW d \in Client, NEW c \in Caller, NEW kind, NEW token, NEW todo,
           LET k == [kind |-> kind, token |-> token, todo |-> todo]
           IN  k \in Call /\ CallIsTyped(k, d, tokens', password') /\ call' = [call EXCEPT ![d][c] = k],
           trouble' \subseteq Client
    PROVE  CallTypes'
<1> DEFINE k == [kind |-> kind, token |-> token, todo |-> todo]
<1>1. k \in Call /\ CallIsTyped(k, d, tokens', password') /\ call' = [call EXCEPT ![d][c] = k]
  OBVIOUS
<1> HIDE DEF k
<1>2. call \in [Client -> [Caller -> Call]]
  BY DEF SessionTypes, CallTypes
<1>3. /\ call' \in [Client -> [Caller -> Call]]
      /\ call'[d][c] = k
      /\ \A e \in Client, b \in Caller : ~(e = d /\ b = c) => call'[e][b] = call[e][b]
  BY <1>1, <1>2
<1>4. ASSUME NEW e \in Client, NEW b \in Caller
      PROVE  CallIsTyped(call'[e][b], e, tokens', password')
  <2>1. CASE e = d /\ b = c
    BY <2>1, <1>1, <1>3
  <2>2. CASE ~(e = d /\ b = c)
    <3>1. call[e][b] \in Call /\ CallIsTyped(call[e][b], e, tokens, password)
      BY <1>2 DEF SessionTypes, CallTypes
    <3> QED BY <1>3, <2>2, <3>1, CallFrame
  <2> QED BY <2>1, <2>2
<1> QED BY <1>3, <1>4 DEF CallTypes

(* A step that leaves the tables of the server alone.                      *)
LEMMA ServerFrame ==
    ASSUME TInv, UNCHANGED server, DeviceTypes', CallTypes'
    PROVE  TInv'
  BY DEF TInv, SessionTypes, AccountTypes, TokenTypes, PurgeLeavesNothing, server

LEMMA GrowsReflexive == ASSUME NEW ts \in Seq(Token) PROVE Grows(ts, ts)
  BY DEF Grows

LEMMA SessionInitInv == SessionInit => TInv
<1> SUFFICES ASSUME SessionInit PROVE TInv
  OBVIOUS
<1>1. AccountTypes /\ TokenTypes /\ DeviceTypes
  BY SessionAssumption DEF SessionInit, AccountTypes, TokenTypes, DeviceTypes
<1>2. CallTypes
  BY DEF SessionInit, CallTypes, CallIsTyped, NoCall, Call
<1>3. Lineage(tokens, password) /\ PurgeLeavesNothing
  BY DEF SessionInit, Lineage, PurgeLeavesNothing
<1> QED BY <1>1, <1>2, <1>3 DEF TInv, SessionTypes

(* The calls begin; the server does not notice, or looks an account up.    *)
LEMMA BeginsKeep ==
    ASSUME TInv, NEW d \in Client, NEW c \in Caller, signIn(d, c) \/ accessToken(d, c)
    PROVE  TInv'
<1>1. UNCHANGED server /\ UNCHANGED device /\ trouble' \in {trouble, trouble \cup {d}}
  BY DEF signIn, accessToken, Begins
<1>2. /\ tokens' = tokens /\ tokens \in Seq(Token) /\ Grows(tokens, tokens')
      /\ password' = password /\ password \in Nat \ {0} /\ trouble' \subseteq Client
  BY <1>1, GrowsReflexive, SessionAssumption
     DEF server, TInv, SessionTypes, TokenTypes, AccountTypes, CallTypes
<1>3. DeviceTypes'
  BY <1>1, <1>2, DeviceFrame DEF TInv
<1>4. CallTypes'
  <2>1. CASE Goes(d, c, "register", 0, <<>>)
    <3>1. [kind |-> "register", token |-> 0, todo |-> <<>>] \in Call
      BY DEF Call
    <3>2. CallIsTyped([kind |-> "register", token |-> 0, todo |-> <<>>], d, tokens', password')
      BY <1>2 DEF CallIsTyped
    <3> QED BY <1>2, <2>1, <3>1, <3>2, GoesKeepsTypes DEF Goes, TInv
  <2>2. CASE Goes(d, c, "login", password, <<>>)
    <3>1. [kind |-> "login", token |-> password, todo |-> <<>>] \in Call
      BY <1>2 DEF Call
    <3>2. CallIsTyped([kind |-> "login", token |-> password, todo |-> <<>>], d, tokens', password')
      BY <1>2 DEF CallIsTyped
    <3> QED BY <1>2, <2>2, <3>1, <3>2, GoesKeepsTypes DEF Goes, TInv
  <2>3. CASE Goes(d, c, "refresh", refresh[d], <<>>) /\ refresh[d] # 0
    <3>1. refresh[d] \in 0..Len(tokens) /\ tokens[refresh[d]].dev = d
      BY <2>3 DEF TInv, SessionTypes, DeviceTypes
    <3>2. [kind |-> "refresh", token |-> refresh[d], todo |-> <<>>] \in Call
      BY <3>1 DEF Call
    <3>3. CallIsTyped([kind |-> "refresh", token |-> refresh[d], todo |-> <<>>], d, tokens', password')
      BY <1>2, <2>3, <3>1 DEF CallIsTyped
    <3> QED BY <1>2, <2>3, <3>2, <3>3, GoesKeepsTypes DEF Goes, TInv
  <2> QED BY <2>1, <2>2, <2>3 DEF signIn, accessToken
<1> QED BY <1>1, <1>3, <1>4, ServerFrame

(* What a finished call leaves, and one that stores token n.               *)
LEMMA CallShapes ==
    ASSUME NEW ts \in Seq(Token), NEW pw, NEW d \in Client, NEW n \in 0..Len(ts), n # 0 => ts[n].dev = d,
           NEW todo \in Seq(Entry), todo # <<>>
    PROVE  /\ [kind |-> "none", token |-> 0, todo |-> <<>>] \in Call
           /\ CallIsTyped([kind |-> "none", token |-> 0, todo |-> <<>>], d, ts, pw)
           /\ [kind |-> "store", token |-> n, todo |-> todo] \in Call
           /\ CallIsTyped([kind |-> "store", token |-> n, todo |-> todo], d, ts, pw)
<1>1. n \in Nat
  OBVIOUS
<1> QED BY <1>1 DEF Call, CallIsTyped

LEMMA StoredShapes ==
    /\ Stored \in Seq(Entry) /\ Stored # <<>>
    /\ SubSeq(Stored, 1, 3) \in Seq(Entry) /\ SubSeq(Stored, 1, 3) # <<>>
    /\ <<"session", "sync", "access", "refresh">> \in Seq(Entry)
    /\ <<"session", "sync", "access", "refresh">> # <<>>
<1>1. Stored \in Seq(Entry) /\ Len(Stored) = 4
  BY DEF Stored, Entry
<1>2. SubSeq(Stored, 1, 3) \in Seq(Entry) /\ Len(SubSeq(Stored, 1, 3)) = 3
  BY <1>1, SubSeqProperties
<1>3. <<"session", "sync", "access", "refresh">> \in Seq(Entry)
  BY DEF Entry
<1> QED BY <1>1, <1>2, <1>3 DEF Stored

LEMMA AuthenticatedKeeps ==
    ASSUME TInv, NEW d \in Client, NEW c \in Caller, Authenticated(d, c)
    PROVE  TInv'
<1> DEFINE k == call[d][c]
           knew == IF k.kind = "login" THEN k.token ELSE password
<1>1. /\ tokens \in Seq(Token) /\ Len(tokens) \in Nat /\ password \in Nat /\ Lineage(tokens, password)
      /\ k \in Call /\ UNCHANGED device /\ trouble' = trouble /\ trouble \subseteq Client
      /\ password' = password /\ change' = change
  BY SessionAssumption DEF Authenticated, TInv, SessionTypes, TokenTypes, AccountTypes, CallTypes
<1>2. CASE UNCHANGED <<tokens, account>> /\ Goes(d, c, "none", 0, <<>>)
  <2>1. UNCHANGED server /\ Grows(tokens, tokens') /\ tokens' \in Seq(Token)
    BY <1>1, <1>2, GrowsReflexive DEF server
  <2>2. DeviceTypes'
    BY <1>1, <2>1, DeviceFrame DEF TInv
  <2>3. /\ [kind |-> "none", token |-> 0, todo |-> <<>>] \in Call
        /\ CallIsTyped([kind |-> "none", token |-> 0, todo |-> <<>>], d, tokens', password')
    BY DEF Call, CallIsTyped
  <2>4. CallTypes'
    BY <1>1, <1>2, <2>1, <2>3, GoesKeepsTypes DEF Goes, TInv
  <2> QED BY <2>1, <2>2, <2>4, ServerFrame
<1>3. CASE /\ Len(tokens) < MaxTokens /\ tokens' = Issue(d, 0, knew, tokens)
           /\ account' = "live" /\ Goes(d, c, "store", Len(tokens'), Stored)
  <2>1. knew \in Nat
    BY <1>1 DEF Call
  <2> HIDE DEF knew
  <2>2. /\ Issued(tokens', tokens, d, 0, password)
        /\ Lineage(tokens', password) /\ Grows(tokens, tokens')
    BY <1>1, <1>3, <2>1, IssueFacts, IssueKeepsLineage
  <2>3. tokens' \in Seq(Token) /\ Len(tokens') = Len(tokens) + 1 /\ Len(tokens') <= MaxTokens
    BY <1>1, <1>3, <2>2, SessionAssumption DEF Issued
  <2>4. DeviceTypes'
    BY <1>1, <2>2, <2>3, DeviceFrame DEF TInv
  <2>5. /\ [kind |-> "store", token |-> Len(tokens'), todo |-> Stored] \in Call
        /\ CallIsTyped([kind |-> "store", token |-> Len(tokens'), todo |-> Stored], d, tokens', password')
    <3>1. Len(tokens') \in Nat
      BY <1>1, <2>3
    <3>2. Len(tokens') \in 0..Len(tokens') /\ tokens'[Len(tokens')].dev = d
      BY <2>2, <2>3, <3>1 DEF Issued
    <3> QED BY <2>3, <3>2, StoredShapes, CallShapes
  <2>6. CallTypes'
    BY <1>1, <1>3, <2>2, <2>3, <2>5, GoesKeepsTypes DEF Goes, TInv
  <2>7. AccountTypes' /\ PurgeLeavesNothing'
    BY <1>1, <1>3 DEF TInv, SessionTypes, AccountTypes, PurgeLeavesNothing
  <2> QED BY <1>1, <2>2, <2>3, <2>4, <2>6, <2>7 DEF TInv, SessionTypes, TokenTypes
<1> QED BY <1>2, <1>3 DEF Authenticated

(* rotate changes the tokens in one of four ways: us is ts once the device  *)
(* d has presented the token i.                                            *)
Exchanged(us, ts, i, d) ==
    /\ i \in DOMAIN ts /\ ts[i].dev = d
    /\ \/ /\ ts[i].row /\ ts[i].revoked = "no"
          /\ us = Issue(d, i, ts[i].knew, Revoke({i}, "rotated", ts))
       \/ us = ts /\ ~ts[i].row
       \/ us = Revoke({n \in DOMAIN ts : ts[n].dev = d}, "replayed", ts) /\ ts[i].revoked # "no"
       \/ us = Revoke({i}, "expired", ts)

LEMMA RotateFacts ==
    ASSUME TInv, NEW d \in Client, NEW c \in Caller, rotate(d, c)
    PROVE  Exchanged(tokens', tokens, call[d][c].token, d) /\ call[d][c].kind = "refresh"
<1> DEFINE i == call[d][c].token
<1>1. call[d][c].kind = "refresh" /\ tokens' = Rotated(i)
  BY DEF rotate
<1>2. i \in 0..Len(tokens) /\ i # 0 /\ tokens[i].dev = d
  BY <1>1 DEF TInv, SessionTypes, CallTypes, CallIsTyped
<1>3. i \in DOMAIN tokens
  BY <1>2 DEF TInv, SessionTypes, TokenTypes
<1> HIDE DEF i
<1>4. Exchanged(tokens', tokens, i, d)
  BY <1>1, <1>2, <1>3 DEF Rotated, Exchanged, OfDevice
<1> QED BY <1>1, <1>4 DEF i

(* An exchanged token is used up and gets its one successor.               *)
LEMMA RotatedTokens ==
    ASSUME TInv, NEW d \in Client, NEW c \in Caller, rotate(d, c)
    PROVE  /\ tokens' \in Seq(Token) /\ Lineage(tokens', password) /\ Grows(tokens, tokens')
           /\ Len(tokens') \in {Len(tokens), Len(tokens) + 1}
           /\ Len(tokens') > Len(tokens) => tokens'[Len(tokens')].dev = d
           /\ account = "gone" => \A n \in DOMAIN tokens' : ~tokens'[n].row
<1> DEFINE i == call[d][c].token
           used == Revoke({i}, "rotated", tokens)
<1>1. /\ tokens \in Seq(Token) /\ Len(tokens) \in Nat /\ password \in Nat /\ Lineage(tokens, password)
      /\ DOMAIN tokens = 1..Len(tokens)
      /\ account = "gone" => \A n \in DOMAIN tokens : ~tokens[n].row
  BY SessionAssumption DEF TInv, SessionTypes, TokenTypes, AccountTypes, PurgeLeavesNothing
<1>e. Exchanged(tokens', tokens, i, d)
  BY RotateFacts
<1> HIDE DEF i
<1>d. i \in DOMAIN tokens
  BY <1>e DEF Exchanged
<1>k. i \in Nat /\ tokens[i] \in Token
  BY <1>1, <1>d
<1>2. CASE /\ tokens[i].row /\ tokens[i].revoked = "no"
           /\ tokens' = Issue(d, i, tokens[i].knew, used)
  <2>1. /\ Revoked(used, tokens, {i}, "rotated") /\ Lineage(used, password) /\ Grows(tokens, used)
    BY <1>1, RevokeFacts, RevokeKeepsLineage DEF Reason
  <2> HIDE DEF used
  <2>2. used \in Seq(Token) /\ i \in DOMAIN used /\ used[i].revoked # "no" /\ Len(used) = Len(tokens)
    BY <2>1, <1>d, <1>2 DEF Revoked
  <2>3. \A n \in DOMAIN used : used[n].from # i
    <3>1. \A n \in DOMAIN used : n \in DOMAIN tokens /\ used[n].from = tokens[n].from
      BY <2>1 DEF Revoked
    <3>2. \A n \in DOMAIN tokens : tokens[n].from # 0 => tokens[tokens[n].from].revoked # "no"
      BY <1>1 DEF Lineage
    <3>3. i # 0
      BY <1>d, <1>1
    <3>4. ASSUME NEW n \in DOMAIN tokens PROVE tokens[n].from # i
      BY <3>2, <3>3, <1>2
    <3> QED BY <3>1, <3>4
  <2> DEFINE kn == tokens[i].knew
  <2>4. kn \in Nat
    BY <1>k DEF Token
  <2>k. tokens' = Issue(d, i, kn, used)
    BY <1>2
  <2> HIDE DEF kn
  <2>5. /\ Issued(tokens', used, d, i, password)
        /\ Lineage(tokens', password) /\ Grows(used, tokens')
    BY <1>1, <1>k, <2>1, <2>2, <2>3, <2>4, <2>k, IssueFacts, IssueKeepsLineage
  <2>6. tokens' \in Seq(Token) /\ Len(tokens') = Len(tokens) + 1 /\ tokens'[Len(tokens')].dev = d
    BY <2>2, <2>5 DEF Issued
  <2>7. Grows(tokens, tokens')
    BY <2>1, <2>5, <2>6, <1>1 DEF Grows, Revoked
  <2>8. account # "gone"
    BY <1>1, <1>d, <1>2
  <2> QED BY <2>5, <2>6, <2>7, <2>8
<1>3. CASE tokens' = tokens
  BY <1>1, <1>3, GrowsReflexive
<1>4. ASSUME NEW S, NEW reason \in Reason, tokens' = Revoke(S, reason, tokens)
      PROVE  /\ TokensKept(tokens', tokens, password) /\ Len(tokens') = Len(tokens)
             /\ account = "gone" => \A n \in DOMAIN tokens' : ~tokens'[n].row
  <2>1. TokensKept(tokens', tokens, password) /\ \A n \in DOMAIN tokens' : tokens'[n].row = tokens[n].row
    BY <1>1, <1>4, RevokeKeeps
  <2> QED BY <2>1, <1>1 DEF TokensKept
<1> QED BY <1>1, <1>2, <1>3, <1>4, <1>e DEF Exchanged, Reason, TokensKept

LEMMA RotateKeeps ==
    ASSUME TInv, NEW d \in Client, NEW c \in Caller, rotate(d, c)
    PROVE  TInv'
<1>1. /\ Len(tokens) < MaxTokens /\ Len(tokens) \in Nat
      /\ UNCHANGED <<account, password, change>> /\ UNCHANGED device
      /\ trouble' \subseteq Client /\ tokens \in Seq(Token)
  BY DEF rotate, TInv, SessionTypes, TokenTypes, CallTypes
<1>2. /\ tokens' \in Seq(Token) /\ Lineage(tokens', password') /\ Grows(tokens, tokens')
      /\ Len(tokens') \in Nat /\ Len(tokens') <= MaxTokens
      /\ PurgeLeavesNothing'
  BY <1>1, RotatedTokens, SessionAssumption DEF PurgeLeavesNothing
<1>3. DeviceTypes'
  BY <1>1, <1>2, DeviceFrame DEF TInv
<1>4. CallTypes'
  <2>1. CASE Goes(d, c, "none", 0, <<>>)
    <3>1. /\ [kind |-> "none", token |-> 0, todo |-> <<>>] \in Call
          /\ CallIsTyped([kind |-> "none", token |-> 0, todo |-> <<>>], d, tokens', password')
      BY DEF Call, CallIsTyped
    <3> QED BY <1>1, <1>2, <2>1, <3>1, GoesKeepsTypes DEF Goes, TInv
  <2>2. ASSUME NEW n \in 0..Len(tokens'), n # 0 => tokens'[n].dev = d,
               NEW todo \in Seq(Entry), todo # <<>>, Goes(d, c, "store", n, todo)
        PROVE  CallTypes'
    <3>1. /\ [kind |-> "store", token |-> n, todo |-> todo] \in Call
          /\ CallIsTyped([kind |-> "store", token |-> n, todo |-> todo], d, tokens', password')
      BY <1>2, <2>2, CallShapes
    <3> QED BY <1>1, <1>2, <2>2, <3>1, GoesKeepsTypes DEF Goes, TInv
  <2>3. CASE Goes(d, c, "store", Len(tokens'), Stored) /\ Len(tokens') > Len(tokens)
    <3>1. Len(tokens') \in 0..Len(tokens') /\ tokens'[Len(tokens')].dev = d
      BY <1>2, <2>3, RotatedTokens
    <3> QED BY <2>2, <2>3, <3>1, StoredShapes
  <2>4. CASE Goes(d, c, "store", 0, SubSeq(Stored, 1, 3))
    <3> DEFINE three == SubSeq(Stored, 1, 3)
    <3>1. three \in Seq(Entry) /\ three # <<>> /\ Goes(d, c, "store", 0, three)
      BY <2>4, StoredShapes
    <3>2. 0 \in 0..Len(tokens')
      BY <1>2
    <3> HIDE DEF three
    <3> QED BY <2>2, <3>1, <3>2
  <2>5. CASE Len(tokens') > Len(tokens)
    BY <2>1, <2>3, <2>5 DEF rotate
  <2>6. CASE ~(Len(tokens') > Len(tokens))
    BY <2>1, <2>4, <2>6 DEF rotate
  <2> QED BY <2>5, <2>6
<1> QED BY <1>1, <1>2, <1>3, <1>4 DEF TInv, SessionTypes, AccountTypes, TokenTypes

(* A step of a call that goes on to store nothing, or is done, and leaves  *)
(* the tokens as they were or revoked.                                     *)
LEMMA EndsKeep ==
    ASSUME TInv, UNCHANGED device, AccountTypes', password' \in {password, password + 1}, trouble' \subseteq Client,
           TokensKept(tokens', tokens, password'), PurgeLeavesNothing',
           call' = call \/ (\E d \in Client, c \in Caller, todo \in Seq(Entry) \ {<<>>} : Goes(d, c, "store", 0, todo))
    PROVE  TInv'
<1>1. /\ tokens' \in Seq(Token) /\ Grows(tokens, tokens') /\ Len(tokens') = Len(tokens) /\ Lineage(tokens', password')
      /\ Len(tokens') <= MaxTokens /\ Len(tokens') \in Nat
  BY DEF TokensKept, TInv, SessionTypes, TokenTypes
<1>2. DeviceTypes'
  BY <1>1, DeviceFrame DEF TInv
<1>3. CallTypes'
  <2>1. CASE call' = call
    BY <1>1, <2>1, CallFrame DEF TInv, SessionTypes, CallTypes
  <2>2. ASSUME NEW d \in Client, NEW c \in Caller, NEW todo \in Seq(Entry), todo # <<>>, Goes(d, c, "store", 0, todo)
        PROVE  CallTypes'
    <3>1. 0 \in 0..Len(tokens')
      BY <1>1
    <3>2. /\ [kind |-> "store", token |-> 0, todo |-> todo] \in Call
          /\ CallIsTyped([kind |-> "store", token |-> 0, todo |-> todo], d, tokens', password')
      BY <1>1, <2>2, <3>1, CallShapes
    <3> QED BY <1>1, <2>2, <3>2, GoesKeepsTypes DEF Goes, TInv
  <2> QED BY <2>1, <2>2
<1> QED BY <1>1, <1>2, <1>3 DEF TInv, SessionTypes, TokenTypes

LEMMA KeptReflexive == ASSUME TInv PROVE TokensKept(tokens, tokens, password)
  BY GrowsReflexive DEF TInv, SessionTypes, TokenTypes, TokensKept

LEMMA signOutKeeps ==
    ASSUME TInv, NEW d \in Client, NEW c \in Caller, signOut(d, c)
    PROVE  TInv'
<1>1. /\ UNCHANGED device /\ password' = password /\ trouble' \subseteq Client /\ AccountTypes' /\ account' = account
      /\ Goes(d, c, "store", 0, Stored) /\ Stored \in Seq(Entry) \ {<<>>}
  BY StoredShapes DEF signOut, Begins, TInv, SessionTypes, AccountTypes, CallTypes
<1>2. TokensKept(tokens', tokens, password') /\ \A n \in DOMAIN tokens' : tokens'[n].row = tokens[n].row
  <2>1. CASE tokens' = tokens
    BY <1>1, <2>1, KeptReflexive
  <2>2. CASE tokens' = Revoke({refresh[d]}, "logout", tokens)
    BY <1>1, <2>2, RevokeKeeps DEF TInv, SessionTypes, TokenTypes, Reason
  <2> QED BY <2>1, <2>2 DEF signOut
<1>3. PurgeLeavesNothing'
  BY <1>1, <1>2 DEF TInv, PurgeLeavesNothing, TokensKept
<1> QED BY <1>1, <1>2, <1>3, EndsKeep

LEMMA deleteAccountKeeps ==
    ASSUME TInv, NEW d \in Client, NEW c \in Caller, deleteAccount(d, c)
    PROVE  TInv'
<1> DEFINE todo == <<"session", "sync", "access", "refresh">>
<1>1. /\ UNCHANGED device /\ password' = password /\ trouble' \subseteq Client /\ AccountTypes'
      /\ Goes(d, c, "store", 0, todo) /\ todo \in Seq(Entry) \ {<<>>}
  BY StoredShapes DEF deleteAccount, Begins, TInv, SessionTypes, AccountTypes, CallTypes
<1> HIDE DEF todo
<1>2. TokensKept(tokens', tokens, password') /\ PurgeLeavesNothing'
  <2>1. CASE UNCHANGED <<account, tokens>>
    BY <1>1, <2>1, KeptReflexive DEF TInv, PurgeLeavesNothing
  <2>2. CASE tokens' = [i \in DOMAIN tokens |-> [tokens[i] EXCEPT !.row = FALSE]]
    <3>1. tokens \in Seq(Token) /\ Lineage(tokens, password) /\ Len(tokens) \in Nat /\ DOMAIN tokens = 1..Len(tokens)
      BY DEF TInv, SessionTypes, TokenTypes
    <3> DEFINE new(i) == [tokens[i] EXCEPT !.row = FALSE]
    <3>2. ASSUME NEW i \in DOMAIN tokens
          PROVE  /\ new(i) \in Token /\ ~new(i).row
                 /\ new(i).dev = tokens[i].dev /\ new(i).from = tokens[i].from
                 /\ new(i).revoked = tokens[i].revoked
      <4>1. tokens[i] \in Token
        BY <3>1
      <4> QED BY <4>1 DEF Token
    <3>4. tokens' = [i \in DOMAIN tokens |-> new(i)]
      BY <2>2
    <3> HIDE DEF new
    <3>3. tokens' \in Seq(Token) /\ Len(tokens') = Len(tokens) /\ DOMAIN tokens' = DOMAIN tokens
      BY <3>1, <3>2, <3>4
    <3>5. Lineage(tokens', password)
      BY <3>1, <3>2, <3>3, <3>4 DEF Lineage
    <3>6. Grows(tokens, tokens')
      BY <3>1, <3>2, <3>3, <3>4 DEF Grows
    <3> QED BY <1>1, <3>2, <3>3, <3>4, <3>5, <3>6 DEF TokensKept, PurgeLeavesNothing
  <2> QED BY <2>1, <2>2 DEF deleteAccount
<1> QED BY <1>1, <1>2, EndsKeep

(* The steps that only touch the tables of the server.                     *)
LEMMA ServerStepsKeep ==
    ASSUME TInv,
           \/ \E d \in Client : revokeDevice(d) \/ changePassword(d)
           \/ \E i \in DOMAIN tokens : RefreshExpires(i)
           \/ PasswordChanged
    PROVE  TInv'
<1>1. /\ tokens \in Seq(Token) /\ Lineage(tokens, password) /\ Len(tokens) \in Nat /\ DOMAIN tokens = 1..Len(tokens)
      /\ UNCHANGED device /\ UNCHANGED <<call, trouble>> /\ account' = account /\ trouble' \subseteq Client
  BY DEF TInv, SessionTypes, TokenTypes, CallTypes, revokeDevice, changePassword, RefreshExpires, PasswordChanged
<1>2. AccountTypes' /\ password' \in {password, password + 1}
  BY SessionAssumption
     DEF TInv, SessionTypes, AccountTypes, revokeDevice, changePassword, RefreshExpires, PasswordChanged
<1>3. TokensKept(tokens', tokens, password') /\ \A n \in DOMAIN tokens' : tokens'[n].row = tokens[n].row
  <2>1. ASSUME NEW d \in Client, revokeDevice(d)
        PROVE  TokensKept(tokens', tokens, password') /\ \A n \in DOMAIN tokens' : tokens'[n].row = tokens[n].row
    BY <1>1, <2>1, RevokeKeeps DEF revokeDevice, Reason
  <2>2. CASE UNCHANGED <<tokens, password>>
    BY <2>2, KeptReflexive
  <2>3. ASSUME NEW k \in DOMAIN tokens, RefreshExpires(k)
        PROVE  TokensKept(tokens', tokens, password') /\ \A n \in DOMAIN tokens' : tokens'[n].row = tokens[n].row
    <3>1. password' = password /\ tokens' = [tokens EXCEPT ![k].expired = TRUE]
      BY <2>3 DEF RefreshExpires
    <3> DEFINE new(i) == IF i = k THEN [tokens[i] EXCEPT !.expired = TRUE] ELSE tokens[i]
    <3>2. ASSUME NEW i \in DOMAIN tokens
          PROVE  /\ new(i) \in Token /\ new(i).row = tokens[i].row /\ new(i).at = tokens[i].at
                 /\ new(i).dev = tokens[i].dev /\ new(i).from = tokens[i].from
                 /\ new(i).revoked = tokens[i].revoked
      <4>1. tokens[i] \in Token /\ new(i) \in {tokens[i], [tokens[i] EXCEPT !.expired = TRUE]}
        BY <1>1
      <4> QED BY <4>1 DEF Token
    <3>4. tokens' = [i \in DOMAIN tokens |-> new(i)]
      BY <1>1, <3>1, <2>3
    <3> HIDE DEF new
    <3>3. tokens' \in Seq(Token) /\ Len(tokens') = Len(tokens) /\ DOMAIN tokens' = DOMAIN tokens
      BY <1>1, <3>2, <3>4
    <3> QED BY <1>1, <3>1, <3>2, <3>3, <3>4 DEF TokensKept, Lineage, Grows
  <2>4. CASE tokens' = Revoke(DOMAIN tokens, "password", tokens)
    <3>1. /\ Revoked(tokens', tokens, DOMAIN tokens, "password")
          /\ TokensKept(tokens', tokens, password) /\ \A n \in DOMAIN tokens' : tokens'[n].row = tokens[n].row
      BY <1>1, <2>4, RevokeFacts, RevokeKeeps DEF Reason
    <3>2. \A n \in DOMAIN tokens' : tokens'[n].revoked # "no"
      BY <3>1 DEF Revoked
    <3> QED BY <3>1, <3>2 DEF TokensKept, Lineage
  <2> QED BY <2>1, <2>2, <2>3, <2>4 DEF changePassword, PasswordChanged
<1>4. PurgeLeavesNothing'
  BY <1>1, <1>3 DEF TInv, PurgeLeavesNothing, TokensKept
<1> QED BY <1>1, <1>2, <1>3, <1>4, EndsKeep

LEMMA WithTodo ==
    ASSUME NEW k \in Call, NEW todo
    PROVE  [k EXCEPT !.todo = todo] = [kind |-> k.kind, token |-> k.token, todo |-> todo]
  BY DEF Call

(* What a device writes to its own storage.                                *)
LEMMA StoreKeeps ==
    ASSUME TInv, NEW d \in Client, NEW c \in Caller, Store(d, c)
    PROVE  TInv'
<1> DEFINE k == call[d][c]
           n == k.token
           todo == Tail(k.todo)
<1>1. /\ tokens \in Seq(Token) /\ Grows(tokens, tokens) /\ Len(tokens) \in Nat /\ password \in Nat
      /\ call \in [Client -> [Caller -> Call]] /\ k \in Call /\ CallIsTyped(k, d, tokens, password)
      /\ UNCHANGED server /\ trouble' \subseteq Client /\ k.kind = "store"
  BY GrowsReflexive, SessionAssumption DEF Store, TInv, SessionTypes, TokenTypes, CallTypes, AccountTypes
<1>2. n \in 0..Len(tokens) /\ (n # 0 => tokens[n].dev = d) /\ k.todo # <<>> /\ k.todo \in Seq(Entry)
  BY <1>1 DEF CallIsTyped, Call
<1>3. DeviceTypes'
  <2> HIDE DEF k
  <2>1. access \in [Client -> 0..Len(tokens)] /\ access' \in [Client -> 0..Len(tokens)]
    BY <1>2 DEF Store, k, TInv, SessionTypes, DeviceTypes
  <2>2. /\ refresh \in [Client -> 0..Len(tokens)] /\ refresh' \in [Client -> 0..Len(tokens)]
        /\ \A e \in Client : refresh'[e] # 0 => tokens[refresh'[e]].dev = e
    BY <1>2 DEF Store, k, TInv, SessionTypes, DeviceTypes
  <2>3. session' \in [Client -> {"none", "fresh", "stale"}] /\ syncOn' \in [Client -> BOOLEAN]
    BY DEF Store, TInv, SessionTypes, DeviceTypes
  <2> QED BY <1>1, <2>1, <2>2, <2>3 DEF DeviceTypes, server
<1>4. CallTypes'
  <2>1. tokens' = tokens /\ password' = password
    BY <1>1 DEF server
  <2>2. CASE Goes(d, c, "none", 0, <<>>)
    <3>1. /\ [kind |-> "none", token |-> 0, todo |-> <<>>] \in Call
          /\ CallIsTyped([kind |-> "none", token |-> 0, todo |-> <<>>], d, tokens', password')
      BY DEF Call, CallIsTyped
    <3> QED BY <1>1, <2>1, <2>2, <3>1, GoesKeepsTypes DEF Goes, TInv
  <2>3. CASE Len(k.todo) # 1 /\ call' = [call EXCEPT ![d][c].todo = Tail(@)]
    <3>1. todo \in Seq(Entry) /\ todo # <<>>
      <4> DEFINE es == k.todo
      <4>1. es \in Seq(Entry) /\ es # <<>> /\ Len(es) # 1 /\ todo = Tail(es)
        BY <1>2, <2>3
      <4> HIDE DEF es, todo
      <4>2. Len(es) \in Nat /\ Len(es) # 0
        BY <4>1
      <4>3. todo \in Seq(Entry) /\ Len(todo) = Len(es) - 1
        BY <4>1, HeadTailProperties
      <4>4. Len(todo) # 0
        BY <4>1, <4>2, <4>3
      <4> QED BY <4>3, <4>4, EmptySeq
    <3>4. Goes(d, c, "store", n, todo)
      <4>1. [k EXCEPT !.todo = todo] = [kind |-> "store", token |-> n, todo |-> todo]
        BY <1>1, WithTodo
      <4> QED BY <1>1, <2>3, <4>1 DEF Goes
    <3> HIDE DEF todo, n, k
    <3>5. /\ [kind |-> "store", token |-> n, todo |-> todo] \in Call
          /\ CallIsTyped([kind |-> "store", token |-> n, todo |-> todo], d, tokens', password')
      BY <1>1, <1>2, <2>1, <3>1, CallShapes
    <3> QED BY <1>1, <2>1, <3>4, <3>5, GoesKeepsTypes DEF Goes, TInv
  <2> QED BY <2>2, <2>3 DEF Store
<1> QED BY <1>1, <1>3, <1>4, ServerFrame

LEMMA DeviceStepsKeep ==
    ASSUME TInv, NEW d \in Client, AccessExpires(d) \/ ClientCrash(d)
    PROVE  TInv'
<1>1. UNCHANGED server /\ tokens' = tokens /\ password' = password
  BY DEF AccessExpires, ClientCrash, server
<1>2. DeviceTypes'
  BY <1>1 DEF AccessExpires, ClientCrash, TInv, SessionTypes, DeviceTypes, device
<1>3. CallTypes'
  <2>1. CASE AccessExpires(d)
    BY <1>1, <2>1 DEF AccessExpires, TInv, SessionTypes, CallTypes
  <2>2. CASE ClientCrash(d)
    <3>1. NoCall \in Call /\ CallIsTyped(NoCall, d, tokens, password)
      BY DEF NoCall, Call, CallIsTyped
    <3> HIDE DEF NoCall
    <3>2. /\ call' = [call EXCEPT ![d] = [c \in Caller |-> NoCall]] /\ call \in [Client -> [Caller -> Call]]
          /\ trouble' \subseteq Client
      BY <2>2 DEF ClientCrash, TInv, SessionTypes, CallTypes
    <3>3. call' \in [Client -> [Caller -> Call]]
      BY <3>1, <3>2
    <3>4. ASSUME NEW e \in Client, NEW c \in Caller PROVE CallIsTyped(call'[e][c], e, tokens, password)
      BY <3>1, <3>2 DEF TInv, SessionTypes, CallTypes
    <3> QED BY <1>1, <3>2, <3>3, <3>4 DEF CallTypes
  <2> QED BY <2>1, <2>2
<1> QED BY <1>1, <1>2, <1>3, ServerFrame

LEMMA SessionStep == TInv /\ [SessionNext]_sessionVars => TInv'
<1> SUFFICES ASSUME TInv, [SessionNext]_sessionVars PROVE TInv'
  OBVIOUS
<1>1. CASE UNCHANGED sessionVars
  BY <1>1 DEF sessionVars, server, device, TInv, SessionTypes, AccountTypes, TokenTypes, DeviceTypes,
              CallTypes, PurgeLeavesNothing
<1>2. CASE SessionNext
  BY <1>2, BeginsKeep, AuthenticatedKeeps, RotateKeeps, StoreKeeps, signOutKeeps, deleteAccountKeeps,
     ServerStepsKeep, DeviceStepsKeep DEF SessionNext
<1> QED BY <1>1, <1>2

LEMMA SessionInvariant == SessionSpec => []TInv
<1> QED BY SessionInitInv, SessionStep, PTL DEF SessionSpec

(* However sign-ins, exchanges, revocations and a change of the password    *)
(* overlap: a token has one successor at most, what is good is of the      *)
(* current password, and a purged account has no token (tokens.ts 71-101,   *)
(* routes/auth.ts 87-88, users.ts 115-125).                                 *)
THEOREM SessionSafety == SessionSpec => []TokensAreSound
<1>1. TInv => TokensAreSound
  <2> SUFFICES ASSUME TInv PROVE TokensAreSound
    OBVIOUS
  <2>1. SessionTypeOK
    BY SessionAssumption
       DEF TInv, SessionTypes, AccountTypes, TokenTypes, DeviceTypes, CallTypes, CallIsTyped, SessionTypeOK
  <2>2. OneSuccessor /\ LiveIsCurrent /\ PurgeLeavesNothing
    BY DEF TInv, Lineage, OneSuccessor, LiveIsCurrent, Live
  <2> QED BY <2>1, <2>2 DEF TokensAreSound
<1> QED BY <1>1, SessionInvariant, PTL

LEMMA RevokeSpares ==
    ASSUME NEW ts, NEW S, NEW reason, NEW i \in DOMAIN ts, i \notin S
    PROVE  i \in DOMAIN Revoke(S, reason, ts) /\ Revoke(S, reason, ts)[i] = ts[i]
  BY DEF Revoke

LEMMA ExchangeSpares ==
    ASSUME TInv, NEW d \in Client, NEW c \in Caller, rotate(d, c),
           NEW n \in DOMAIN tokens, tokens[n].dev # d
    PROVE  tokens'[n] = tokens[n]
<1> DEFINE i == call[d][c].token
           used == Revoke({i}, "rotated", tokens)
           S == {m \in DOMAIN tokens : tokens[m].dev = d}
<1>1. tokens \in Seq(Token) /\ password \in Nat
  BY SessionAssumption DEF TInv, SessionTypes, TokenTypes, AccountTypes
<1>2. Exchanged(tokens', tokens, i, d)
  BY RotateFacts
<1> HIDE DEF i
<1>3. n # i /\ n \notin S /\ i \in DOMAIN tokens /\ i \in Nat
  BY <1>1, <1>2 DEF Exchanged
<1> HIDE DEF S
<1>4. CASE tokens' = Issue(d, i, tokens[i].knew, used)
  <2> DEFINE kn == tokens[i].knew
  <2>1. used \in Seq(Token) /\ n \in DOMAIN used /\ used[n] = tokens[n]
    <3>1. Revoked(used, tokens, {i}, "rotated")
      BY <1>1, RevokeFacts DEF Reason
    <3>2. used[n] = tokens[n]
      BY <1>3, RevokeSpares
    <3> QED BY <3>1, <3>2 DEF Revoked
  <2>2. kn \in Nat /\ tokens' = Issue(d, i, kn, used)
    <3>1. tokens[i] \in Token
      BY <1>1, <1>3
    <3> QED BY <1>4, <3>1 DEF Token
  <2> HIDE DEF kn, used
  <2>3. Issued(tokens', used, d, i, password)
    BY <1>1, <1>3, <2>1, <2>2, IssueFacts
  <2> QED BY <2>1, <2>3 DEF Issued
<1>5. CASE tokens' = tokens
  BY <1>5
<1>6. CASE tokens' = Revoke(S, "replayed", tokens)
  BY <1>3, <1>6, RevokeSpares
<1>7. CASE tokens' = Revoke({i}, "expired", tokens)
  BY <1>3, <1>7, RevokeSpares
<1> QED BY <1>2, <1>4, <1>5, <1>6, <1>7 DEF Exchanged, S

(* An exchange, whether it succeeds, is a replay or comes too late, leaves  *)
(* the tokens of the user's other devices as they are (tokens.ts 81-92).    *)
THEOREM ExchangeIsLocal == SessionSpec => OthersAreLeftAlone
<1>1. ASSUME TInv, NEW d \in Client, \E c \in Caller : rotate(d, c)
      PROVE  \A i \in DOMAIN tokens : tokens[i].dev # d => tokens'[i] = tokens[i]
  BY <1>1, ExchangeSpares
<1>2. TInv => (\A d \in Client : (\E c \in Caller : rotate(d, c)) =>
                \A i \in DOMAIN tokens : tokens[i].dev # d => tokens'[i] = tokens[i])
  BY <1>1
<1> QED BY <1>2, SessionInvariant, PTL DEF OthersAreLeftAlone

-----------------------------------------------------------------------------
(* A device: what its storage holds between two calls and within one.      *)

(* The token n was not used up, or there is none.                          *)
Unspent(ts, n) == n # 0 => ts[n].revoked \notin {"rotated", "replayed", "logout"}

Whole(d) ==
    /\ Unspent(tokens, refresh[d]) /\ access[d] = refresh[d]
    /\ access[d] = 0 <=> session[d] = "none"
    /\ access[d] # 0 => syncOn[d]

(* What a call has not yet to write is written.                            *)
Awaits(todo, entry) == \E i \in DOMAIN todo : todo[i] = entry
Written(k, a, r, s, on) ==
    /\ Awaits(k.todo, "access") \/ a = k.token
    /\ Awaits(k.todo, "refresh") \/ r = k.token
    /\ Awaits(k.todo, "session") \/ (k.token = 0 <=> s = "none")
    /\ Awaits(k.todo, "sync") \/ (k.token # 0 => on)

(* One call at a time; the storage is whole unless that call is writing;   *)
(* then what it has written is its token, which is not used up.            *)
DInv(d) ==
    /\ \A b, c \in Caller : call[d][b].kind # "none" /\ call[d][c].kind # "none" => b = c
    /\ (\A c \in Caller : call[d][c].kind # "store") => Whole(d)
    /\ \A c \in Caller : call[d][c].kind = "refresh" => call[d][c].token = refresh[d]
    /\ \A c \in Caller : call[d][c].kind = "store" =>
         /\ Unspent(tokens, call[d][c].token)
         /\ Written(call[d][c], access[d], refresh[d], session[d], syncOn[d])

DevicesInv == \A d \in Client \ trouble : DInv(d)

(* The tokens of device d that were not used up in ts are not in us.       *)
Spares(us, ts, d) == \A n \in DOMAIN ts : ts[n].dev = d /\ Unspent(ts, n) => Unspent(us, n)

LEMMA OwnTokens ==
    ASSUME TInv, NEW d \in Client
    PROVE  /\ refresh[d] # 0 => refresh[d] \in DOMAIN tokens /\ tokens[refresh[d]].dev = d
           /\ \A c \in Caller : call[d][c].kind = "store" /\ call[d][c].token # 0 =>
                call[d][c].token \in DOMAIN tokens /\ tokens[call[d][c].token].dev = d
<1>1. DOMAIN tokens = 1..Len(tokens) /\ Len(tokens) \in Nat
  BY DEF TInv, SessionTypes, TokenTypes
<1>2. refresh[d] \in 0..Len(tokens) /\ (refresh[d] # 0 => tokens[refresh[d]].dev = d)
  BY DEF TInv, SessionTypes, DeviceTypes
<1>3. ASSUME NEW c \in Caller, call[d][c].kind = "store", call[d][c].token # 0
      PROVE  call[d][c].token \in DOMAIN tokens /\ tokens[call[d][c].token].dev = d
  <2>1. CallIsTyped(call[d][c], d, tokens, password)
    BY DEF TInv, SessionTypes, CallTypes
  <2>2. call[d][c].token \in 0..Len(tokens) /\ tokens[call[d][c].token].dev = d
    BY <1>3, <2>1 DEF CallIsTyped
  <2> QED BY <1>1, <1>3, <2>2
<1> QED BY <1>1, <1>2, <1>3

(* A step that leaves the storage and the calls of d alone.                *)
LEMMA Untouched ==
    ASSUME TInv, NEW d \in Client, DInv(d), Spares(tokens', tokens, d),
           call'[d] = call[d], access'[d] = access[d], refresh'[d] = refresh[d], syncOn'[d] = syncOn[d],
           session'[d] = "none" <=> session[d] = "none"
    PROVE  DInv(d)'
<1>1. Unspent(tokens, refresh[d]) => Unspent(tokens', refresh[d])
  BY OwnTokens DEF Spares, Unspent
<1>2. ASSUME NEW c \in Caller, call[d][c].kind = "store", Unspent(tokens, call[d][c].token)
      PROVE  Unspent(tokens', call[d][c].token)
  BY <1>2, OwnTokens DEF Spares, Unspent
<1>3. (\A c \in Caller : call[d][c].kind # "store") => Whole(d)'
  BY <1>1 DEF DInv, Whole
<1>4. ASSUME NEW c \in Caller, call[d][c].kind = "store"
      PROVE  Written(call[d][c], access'[d], refresh'[d], session'[d], syncOn'[d])
  BY <1>4 DEF DInv, Written
<1> QED BY <1>2, <1>3, <1>4 DEF DInv

(* A step of the one call that d makes.                                    *)
LEMMA OwnStep ==
    ASSUME TInv, NEW d \in Client, NEW c \in Caller, NEW kind, NEW token, NEW todo,
           Goes(d, c, kind, token, todo),
           \A b \in Caller \ {c} : call[d][b].kind = "none",
           kind = "store" =>
              /\ Unspent(tokens', token)
              /\ Written([kind |-> kind, token |-> token, todo |-> todo], access'[d], refresh'[d], session'[d], syncOn'[d]),
           kind # "store" => Whole(d)',
           kind = "refresh" => token = refresh'[d]
    PROVE  DInv(d)'
<1> DEFINE k == [kind |-> kind, token |-> token, todo |-> todo]
<1>1. k.kind = kind /\ k.token = token
  OBVIOUS
<1> HIDE DEF k
<1>2. call' = [call EXCEPT ![d][c] = k] /\ call \in [Client -> [Caller -> Call]]
  BY DEF Goes, k, TInv, SessionTypes, CallTypes
<1>3. call'[d][c] = k /\ \A b \in Caller \ {c} : call'[d][b] = call[d][b]
  BY <1>2
<1>4. kind = "store" => Written(k, access'[d], refresh'[d], session'[d], syncOn'[d])
  BY DEF k
<1> QED BY <1>1, <1>3, <1>4 DEF DInv

LEMMA OthersCalls ==
    ASSUME TInv, NEW d \in Client, NEW c \in Caller, NEW kind, NEW token, NEW todo,
           Goes(d, c, kind, token, todo), NEW e \in Client, e # d
    PROVE  call'[e] = call[e]
  BY DEF Goes, TInv, SessionTypes, CallTypes

(* The one call of a device that is not in trouble.                        *)
LEMMA OnlyCall ==
    ASSUME TInv, NEW d \in Client, DInv(d), NEW c \in Caller, call[d][c].kind # "none"
    PROVE  /\ \A b \in Caller \ {c} : call[d][b].kind = "none"
           /\ call[d][c].kind # "store" => Whole(d)
<1>1. \A b \in Caller \ {c} : call[d][b].kind = "none"
  BY DEF DInv
<1>2. call[d][c].kind # "store" => \A b \in Caller : call[d][b].kind # "store"
  BY <1>1
<1> QED BY <1>1, <1>2 DEF DInv

LEMMA SparesReflexive == ASSUME NEW ts, NEW d PROVE Spares(ts, ts, d)
  BY DEF Spares

(* A revocation for another reason, or of other devices' tokens.           *)
LEMMA RevokeIsSpare ==
    ASSUME NEW ts \in Seq(Token), NEW S, NEW reason \in Reason, NEW d,
           reason \in {"expired", "removed", "password"} \/ \A n \in DOMAIN ts : n \in S => ts[n].dev # d
    PROVE  Spares(Revoke(S, reason, ts), ts, d)
<1> DEFINE us == Revoke(S, reason, ts)
<1>1. Revoked(us, ts, S, reason)
  BY RevokeFacts
<1> HIDE DEF us
<1>2. Spares(us, ts, d)
  BY <1>1 DEF Revoked, Spares, Unspent, Reason
<1> QED BY <1>2 DEF us

(* The token an exchange adds is the last one, and good.                   *)
LEMMA RotatedNew ==
    ASSUME TInv, NEW d \in Client, NEW c \in Caller, rotate(d, c), Len(tokens') > Len(tokens)
    PROVE  tokens'[Len(tokens')].revoked = "no"
<1> DEFINE i == call[d][c].token
           used == Revoke({i}, "rotated", tokens)
           S == {m \in DOMAIN tokens : tokens[m].dev = d}
<1>1. tokens \in Seq(Token) /\ password \in Nat /\ Len(tokens) \in Nat
  BY SessionAssumption DEF TInv, SessionTypes, TokenTypes, AccountTypes
<1>2. Exchanged(tokens', tokens, i, d)
  BY RotateFacts
<1> HIDE DEF i
<1>3. i \in DOMAIN tokens /\ i \in Nat /\ tokens[i] \in Token
  BY <1>1, <1>2 DEF Exchanged
<1> HIDE DEF S
<1>4. CASE tokens' = Issue(d, i, tokens[i].knew, used)
  <2> DEFINE kn == tokens[i].knew
  <2>1. Revoked(used, tokens, {i}, "rotated")
    BY <1>1, RevokeFacts DEF Reason
  <2>2. kn \in Nat /\ tokens' = Issue(d, i, kn, used)
    BY <1>3, <1>4 DEF Token
  <2> HIDE DEF kn, used
  <2>3. Issued(tokens', used, d, i, password)
    BY <1>1, <1>3, <2>1, <2>2, IssueFacts DEF Revoked
  <2> QED BY <2>3 DEF Issued
<1>5. ASSUME NEW T, NEW reason \in Reason, tokens' = Revoke(T, reason, tokens)
      PROVE  FALSE
  <2>1. Revoked(tokens', tokens, T, reason)
    BY <1>1, <1>5, RevokeFacts
  <2> QED BY <1>1, <2>1 DEF Revoked
<1> QED BY <1>1, <1>2, <1>4, <1>5 DEF Exchanged, S, Reason

LEMMA DevicesInit == SessionInit => DevicesInv
<1> SUFFICES ASSUME SessionInit, NEW d \in Client PROVE DInv(d)
  BY DEF DevicesInv
<1>1. \A c \in Caller : call[d][c].kind = "none"
  BY DEF SessionInit, NoCall
<1>2. Whole(d)
  BY DEF SessionInit, Whole, Unspent
<1> QED BY <1>1, <1>2 DEF DInv

(* A call begins on a device that makes no other.                          *)
LEMMA BeginsKeepDevices ==
    ASSUME TInv, DevicesInv, NEW d \in Client, NEW c \in Caller, signIn(d, c) \/ accessToken(d, c)
    PROVE  DevicesInv'
<1>1. UNCHANGED server /\ UNCHANGED device /\ Begins(d)
  BY DEF signIn, accessToken
<1>2. \E kind, token, todo : /\ Goes(d, c, kind, token, todo) /\ kind # "store"
                             /\ kind = "refresh" => token = refresh[d]
  BY DEF signIn, accessToken
<1>3. PICK kind, token, todo : /\ Goes(d, c, kind, token, todo) /\ kind # "store"
                               /\ kind = "refresh" => token = refresh[d]
  BY <1>2
<1> SUFFICES ASSUME NEW e \in Client, e \notin trouble' PROVE DInv(e)'
  BY DEF DevicesInv
<1>4. e \notin trouble /\ DInv(e)
  BY <1>1 DEF Begins, DevicesInv
<1>5. CASE e = d
  <2>1. \A b \in Caller : call[d][b].kind = "none"
    BY <1>1, <1>5 DEF Begins, Busy
  <2>2. Whole(d)
    BY <1>4, <1>5, <2>1 DEF DInv
  <2>3. Whole(d)'
    BY <1>1, <2>2 DEF Whole, server, device
  <2> QED BY <1>1, <1>3, <1>5, <2>1, <2>3, OwnStep DEF device
<1>6. CASE e # d
  BY <1>1, <1>3, <1>4, <1>6, OthersCalls, Untouched, SparesReflexive DEF server, device
<1> QED BY <1>5, <1>6

(* A step of a call of d that leaves the storage of the devices alone.     *)
LEMMA CallStepKeepsDevices ==
    ASSUME TInv, DevicesInv, NEW d \in Client, NEW c \in Caller, UNCHANGED device, trouble \subseteq trouble',
           NEW kind, NEW token, NEW todo, Goes(d, c, kind, token, todo),
           \A e \in Client : e # d => Spares(tokens', tokens, e),
           d \notin trouble' =>
              /\ \A b \in Caller \ {c} : call[d][b].kind = "none"
              /\ kind = "store" =>
                    /\ Unspent(tokens', token)
                    /\ Written([kind |-> kind, token |-> token, todo |-> todo], access[d], refresh[d], session[d], syncOn[d])
              /\ kind # "store" => Whole(d)'
              /\ kind # "refresh"
    PROVE  DevicesInv'
<1> SUFFICES ASSUME NEW e \in Client, e \notin trouble' PROVE DInv(e)'
  BY DEF DevicesInv
<1>1. DInv(e)
  BY DEF DevicesInv
<1>2. CASE e = d
  BY <1>2, OwnStep DEF device
<1>3. CASE e # d
  BY <1>1, <1>3, OthersCalls, Untouched DEF device
<1> QED BY <1>2, <1>3

(* A call that has everything still to write.                              *)
LEMMA AllAwaited ==
    ASSUME NEW kind, NEW token, NEW a, NEW r, NEW s, NEW on
    PROVE  /\ Written([kind |-> kind, token |-> token, todo |-> Stored], a, r, s, on)
           /\ Written([kind |-> kind, token |-> token, todo |-> <<"session", "sync", "access", "refresh">>], a, r, s, on)
           /\ Written([kind |-> kind, token |-> 0, todo |-> SubSeq(Stored, 1, 3)], a, r, s, on)
<1>1. ASSUME NEW t, t = <<"access", "refresh", "session", "sync">> \/ t = <<"session", "sync", "access", "refresh">>
      PROVE  Awaits(t, "access") /\ Awaits(t, "refresh") /\ Awaits(t, "session") /\ Awaits(t, "sync")
  <2>1. DOMAIN t = 1..4
    BY <1>1
  <2>2. \A i \in 1..4 : i \in DOMAIN t
    BY <2>1
  <2>3. 1 \in DOMAIN t /\ 2 \in DOMAIN t /\ 3 \in DOMAIN t /\ 4 \in DOMAIN t
    BY <2>2
  <2>4. CASE t = <<"access", "refresh", "session", "sync">>
    <3>1. t[1] = "access" /\ t[2] = "refresh" /\ t[3] = "session" /\ t[4] = "sync"
      BY <2>4
    <3> QED BY <2>3, <3>1 DEF Awaits
  <2>5. CASE t = <<"session", "sync", "access", "refresh">>
    <3>1. t[1] = "session" /\ t[2] = "sync" /\ t[3] = "access" /\ t[4] = "refresh"
      BY <2>5
    <3> QED BY <2>3, <3>1 DEF Awaits
  <2> QED BY <1>1, <2>4, <2>5
<1>2. ASSUME NEW t, t = SubSeq(Stored, 1, 3)
      PROVE  Awaits(t, "access") /\ Awaits(t, "refresh") /\ Awaits(t, "session")
  <2>1. Stored \in Seq(Entry) /\ Len(Stored) = 4
    BY DEF Stored, Entry
  <2>2. Len(t) = 3 /\ t[1] = Stored[1] /\ t[2] = Stored[2] /\ t[3] = Stored[3] /\ t \in Seq(Entry)
    BY <1>2, <2>1, SubSeqProperties
  <2>3. 1 \in DOMAIN t /\ 2 \in DOMAIN t /\ 3 \in DOMAIN t
    BY <2>2
  <2>4. t[1] = "access" /\ t[2] = "refresh" /\ t[3] = "session"
    BY <2>2 DEF Stored
  <2> QED BY <2>3, <2>4 DEF Awaits
<1>3. Written([kind |-> kind, token |-> token, todo |-> Stored], a, r, s, on)
  BY <1>1 DEF Written, Stored
<1>4. Written([kind |-> kind, token |-> token, todo |-> <<"session", "sync", "access", "refresh">>], a, r, s, on)
  BY <1>1 DEF Written
<1> DEFINE three == SubSeq(Stored, 1, 3)
<1>5. Awaits(three, "access") /\ Awaits(three, "refresh") /\ Awaits(three, "session")
  BY <1>2
<1> HIDE DEF three
<1>6. Written([kind |-> kind, token |-> 0, todo |-> three], a, r, s, on)
  BY <1>5 DEF Written
<1> QED BY <1>3, <1>4, <1>6 DEF three

LEMMA AuthenticatedKeepsDevices ==
    ASSUME TInv, DevicesInv, NEW d \in Client, NEW c \in Caller, Authenticated(d, c)
    PROVE  DevicesInv'
<1> DEFINE knew == IF call[d][c].kind = "login" THEN call[d][c].token ELSE password
<1>1. /\ UNCHANGED device /\ trouble' = trouble /\ call[d][c].kind \notin {"none", "store"}
      /\ tokens \in Seq(Token) /\ Len(tokens) \in Nat /\ password \in Nat /\ call[d][c] \in Call
  BY SessionAssumption DEF Authenticated, TInv, SessionTypes, TokenTypes, AccountTypes, CallTypes
<1>2. d \notin trouble => (\A b \in Caller \ {c} : call[d][b].kind = "none") /\ Whole(d)
  BY <1>1, OnlyCall DEF DevicesInv
<1>3. CASE UNCHANGED <<tokens, account>> /\ Goes(d, c, "none", 0, <<>>)
  <2>1. Whole(d) => Whole(d)'
    BY <1>1, <1>3 DEF Whole, device
  <2> QED BY <1>1, <1>2, <1>3, <2>1, SparesReflexive, CallStepKeepsDevices
<1>4. CASE tokens' = Issue(d, 0, knew, tokens) /\ Goes(d, c, "store", Len(tokens'), Stored)
  <2>1. knew \in Nat
    BY <1>1 DEF Call
  <2> HIDE DEF knew
  <2>2. Issued(tokens', tokens, d, 0, password)
    BY <1>1, <1>4, <2>1, IssueFacts
  <2>3. \A e \in Client : Spares(tokens', tokens, e)
    BY <2>2 DEF Issued, Spares, Unspent
  <2>4. Unspent(tokens', Len(tokens'))
    BY <2>2 DEF Issued, Unspent
  <2> QED BY <1>1, <1>2, <1>4, <2>3, <2>4, AllAwaited, CallStepKeepsDevices
<1> QED BY <1>3, <1>4 DEF Authenticated

LEMMA rotateKeepsDevices ==
    ASSUME TInv, DevicesInv, NEW d \in Client, NEW c \in Caller, rotate(d, c)
    PROVE  DevicesInv'
<1>1. UNCHANGED device /\ call[d][c].kind = "refresh" /\ trouble \subseteq trouble'
  BY DEF rotate
<1>2. d \notin trouble' => \A b \in Caller \ {c} : call[d][b].kind = "none"
  BY <1>1, OnlyCall DEF DevicesInv
<1>3. \A e \in Client : e # d => Spares(tokens', tokens, e)
  BY ExchangeSpares DEF Spares, Unspent
<1>4. CASE Goes(d, c, "none", 0, <<>>) /\ d \in trouble'
  BY <1>1, <1>3, <1>4, CallStepKeepsDevices
<1>5. CASE Len(tokens') > Len(tokens) /\ Goes(d, c, "store", Len(tokens'), Stored)
  <2>1. Unspent(tokens', Len(tokens'))
    BY <1>5, RotatedNew DEF Unspent
  <2> QED BY <1>1, <1>2, <1>3, <1>5, <2>1, AllAwaited, CallStepKeepsDevices
<1>6. CASE Goes(d, c, "store", 0, SubSeq(Stored, 1, 3))
  <2> DEFINE three == SubSeq(Stored, 1, 3)
  <2>1. /\ Goes(d, c, "store", 0, three) /\ Unspent(tokens', 0)
        /\ Written([kind |-> "store", token |-> 0, todo |-> three], access[d], refresh[d], session[d], syncOn[d])
    BY <1>6, AllAwaited DEF Unspent
  <2> HIDE DEF three
  <2> QED BY <1>1, <1>2, <1>3, <2>1, CallStepKeepsDevices
<1>7. CASE Len(tokens') > Len(tokens)
  <2>1. \/ Goes(d, c, "none", 0, <<>>) /\ trouble' = trouble \cup {d}
        \/ Goes(d, c, "store", Len(tokens'), Stored)
    BY <1>7 DEF rotate
  <2> QED BY <1>4, <1>5, <1>7, <2>1
<1>8. CASE ~(Len(tokens') > Len(tokens))
  <2>1. \/ Goes(d, c, "none", 0, <<>>) /\ trouble' = trouble \cup {d}
        \/ Goes(d, c, "store", 0, SubSeq(Stored, 1, 3))
    BY <1>8 DEF rotate
  <2> QED BY <1>4, <1>6, <2>1
<1> QED BY <1>7, <1>8

(* A device forgets its session from the storage on: signing out, or       *)
(* deleting the account.                                                   *)
LEMMA EndingsKeepDevices ==
    ASSUME TInv, DevicesInv, NEW d \in Client, NEW c \in Caller, signOut(d, c) \/ deleteAccount(d, c)
    PROVE  DevicesInv'
<1>1. UNCHANGED device /\ Begins(d) /\ trouble \subseteq trouble' /\ tokens \in Seq(Token)
  BY DEF signOut, deleteAccount, Begins, TInv, SessionTypes, TokenTypes
<1>2. d \notin trouble' => \A b \in Caller : call[d][b].kind = "none"
  BY <1>1 DEF Begins, Busy
<1>3. \A e \in Client : e # d => Spares(tokens', tokens, e)
  <2> SUFFICES ASSUME NEW e \in Client, e # d PROVE Spares(tokens', tokens, e)
    OBVIOUS
  <2>1. CASE tokens' = tokens
    BY <2>1, SparesReflexive
  <2>2. CASE refresh[d] # 0 /\ tokens' = Revoke({refresh[d]}, "logout", tokens)
    <3>1. \A n \in DOMAIN tokens : n \in {refresh[d]} => tokens[n].dev # e
      BY <2>2, OwnTokens
    <3> QED BY <1>1, <2>2, <3>1, RevokeIsSpare DEF Reason
  <2>3. CASE tokens' = [i \in DOMAIN tokens |-> [tokens[i] EXCEPT !.row = FALSE]]
    <3>1. ASSUME NEW i \in DOMAIN tokens PROVE tokens'[i].revoked = tokens[i].revoked
      <4>1. tokens[i] \in Token /\ tokens'[i] = [tokens[i] EXCEPT !.row = FALSE]
        BY <1>1, <2>3
      <4> QED BY <4>1 DEF Token
    <3> QED BY <3>1 DEF Spares, Unspent
  <2> QED BY <2>1, <2>2, <2>3 DEF signOut, deleteAccount
<1>4. Unspent(tokens', 0)
  BY DEF Unspent
<1>5. CASE Goes(d, c, "store", 0, Stored)
  BY <1>1, <1>2, <1>3, <1>4, <1>5, AllAwaited, CallStepKeepsDevices
<1>6. CASE Goes(d, c, "store", 0, <<"session", "sync", "access", "refresh">>)
  BY <1>1, <1>2, <1>3, <1>4, <1>6, AllAwaited, CallStepKeepsDevices
<1> QED BY <1>5, <1>6 DEF signOut, deleteAccount

LEMMA ServerStepsKeepDevices ==
    ASSUME TInv, DevicesInv,
           \/ \E d \in Client : revokeDevice(d) \/ changePassword(d)
           \/ \E i \in DOMAIN tokens : RefreshExpires(i)
           \/ PasswordChanged
    PROVE  DevicesInv'
<1>1. UNCHANGED device /\ UNCHANGED <<call, trouble>> /\ tokens \in Seq(Token)
  BY DEF revokeDevice, changePassword, RefreshExpires, PasswordChanged, TInv, SessionTypes, TokenTypes
<1>2. ASSUME NEW e \in Client PROVE Spares(tokens', tokens, e)
  <2>1. CASE tokens' = tokens
    BY <2>1, SparesReflexive
  <2>2. ASSUME NEW S, NEW reason \in {"removed", "password"}, tokens' = Revoke(S, reason, tokens)
        PROVE  Spares(tokens', tokens, e)
    BY <1>1, <2>2, RevokeIsSpare DEF Reason
  <2>3. ASSUME NEW k \in DOMAIN tokens, tokens' = [tokens EXCEPT ![k].expired = TRUE]
        PROVE  Spares(tokens', tokens, e)
    <3>1. ASSUME NEW i \in DOMAIN tokens PROVE tokens'[i].revoked = tokens[i].revoked
      <4>1. tokens[i] \in Token /\ i \in DOMAIN tokens
        BY <1>1
      <4>2. CASE i = k
        BY <2>3, <4>1, <4>2 DEF Token
      <4>3. CASE i # k
        BY <2>3, <4>1, <4>3
      <4> QED BY <4>2, <4>3
    <3> QED BY <3>1 DEF Spares, Unspent
  <2> QED BY <2>1, <2>2, <2>3 DEF revokeDevice, changePassword, RefreshExpires, PasswordChanged
<1> SUFFICES ASSUME NEW e \in Client, e \notin trouble' PROVE DInv(e)'
  BY DEF DevicesInv
<1> QED BY <1>1, <1>2, Untouched DEF DevicesInv, device

LEMMA DeviceStepsKeepDevices ==
    ASSUME TInv, DevicesInv, NEW d \in Client, AccessExpires(d) \/ ClientCrash(d)
    PROVE  DevicesInv'
<1> SUFFICES ASSUME NEW e \in Client, e \notin trouble' PROVE DInv(e)'
  BY DEF DevicesInv
<1>1. CASE AccessExpires(d)
  <2>1. /\ UNCHANGED <<tokens, access, refresh, syncOn, call, trouble>>
        /\ session'[e] = "none" <=> session[e] = "none"
    BY <1>1 DEF AccessExpires, server, TInv, SessionTypes, DeviceTypes
  <2> QED BY <2>1, SparesReflexive, Untouched DEF DevicesInv
<1>2. CASE ClientCrash(d)
  <2>1. UNCHANGED <<tokens, device>> /\ e # d /\ e \notin trouble /\ call'[e] = call[e]
    BY <1>2 DEF ClientCrash, server, TInv, SessionTypes, CallTypes
  <2> QED BY <2>1, SparesReflexive, Untouched DEF DevicesInv, device
<1> QED BY <1>1, <1>2

(* What is left to write after the next entry.                             *)
LEMMA AwaitsTail ==
    ASSUME NEW todo \in Seq(Entry), todo # <<>>, NEW e \in Entry, Awaits(todo, e), e # Head(todo)
    PROVE  Len(todo) # 1 /\ Awaits(Tail(todo), e)
<1>1. PICK i \in DOMAIN todo : todo[i] = e
  BY DEF Awaits
<1>2. Len(todo) \in Nat /\ Len(todo) # 0 /\ DOMAIN todo = 1..Len(todo) /\ Head(todo) = todo[1]
  BY EmptySeq
<1>3. i # 1 /\ i \in 1..Len(todo)
  BY <1>1, <1>2
<1>4. Tail(todo) \in Seq(Entry) /\ Len(Tail(todo)) = Len(todo) - 1
  BY HeadTailProperties
<1>5. i - 1 \in DOMAIN Tail(todo) /\ Tail(todo)[i - 1] = todo[i]
  BY <1>2, <1>3, <1>4, HeadTailProperties
<1> QED BY <1>1, <1>2, <1>3, <1>5 DEF Awaits

LEMMA StoreKeepsDevices ==
    ASSUME TInv, DevicesInv, NEW d \in Client, NEW c \in Caller, Store(d, c)
    PROVE  DevicesInv'
<1> SUFFICES ASSUME NEW e \in Client, e \notin trouble' PROVE DInv(e)'
  BY DEF DevicesInv
<1> DEFINE k == call[d][c]
           n == k.token
           todo == Tail(k.todo)
<1>1. /\ k.kind = "store" /\ k \in Call /\ UNCHANGED server /\ tokens' = tokens /\ DInv(e)
      /\ k.todo # <<>> /\ k.todo \in Seq(Entry) /\ n \in Nat
  BY DEF Store, server, DevicesInv, TInv, SessionTypes, CallTypes, CallIsTyped, Call
<1>2. \/ Len(k.todo) = 1 /\ Goes(d, c, "none", 0, <<>>)
      \/ Len(k.todo) # 1 /\ Goes(d, c, "store", n, todo)
  <2>1. [k EXCEPT !.todo = todo] = [kind |-> "store", token |-> n, todo |-> todo]
    BY <1>1, WithTodo
  <2> QED BY <2>1 DEF Store, Goes, TInv, SessionTypes, CallTypes
<1>3. CASE e # d
  <2>1. call'[e] = call[e]
    BY <1>2, <1>3, OthersCalls
  <2>2. access'[e] = access[e] /\ refresh'[e] = refresh[e] /\ session'[e] = session[e] /\ syncOn'[e] = syncOn[e]
    BY <1>3 DEF Store, TInv, SessionTypes, DeviceTypes
  <2> QED BY <1>1, <2>1, <2>2, SparesReflexive, Untouched
<1>4. CASE e = d
  <2>1. /\ \A b \in Caller \ {c} : call[d][b].kind = "none"
        /\ Unspent(tokens, n) /\ Written(k, access[d], refresh[d], session[d], syncOn[d])
    BY <1>1, <1>4, OnlyCall DEF DInv
  <2> DEFINE step == Head(k.todo)
  <2>2. /\ access'[d] = IF step = "access" THEN n ELSE access[d]
        /\ refresh'[d] = IF step = "refresh" THEN n ELSE refresh[d]
        /\ session'[d] = IF step = "session" THEN (IF n = 0 THEN "none" ELSE "fresh") ELSE session[d]
        /\ syncOn'[d] = IF step = "sync" THEN n # 0 ELSE syncOn[d]
    <3> HIDE DEF n
    <3> QED BY DEF Store, TInv, SessionTypes, DeviceTypes, n
  <2>3. \A x \in Entry : Awaits(k.todo, x) /\ x # step => Len(k.todo) # 1 /\ Awaits(todo, x)
    BY <1>1, AwaitsTail
  <2>4. /\ Awaits(k.todo, "access") \/ access[d] = n
        /\ Awaits(k.todo, "refresh") \/ refresh[d] = n
        /\ Awaits(k.todo, "session") \/ (n = 0 <=> session[d] = "none")
        /\ Awaits(k.todo, "sync") \/ (n # 0 => syncOn[d])
    BY <2>1 DEF Written
  <2> HIDE DEF k, n, todo, step
  <2>5. /\ (Len(k.todo) # 1 /\ Awaits(todo, "access")) \/ access'[d] = n
        /\ (Len(k.todo) # 1 /\ Awaits(todo, "refresh")) \/ refresh'[d] = n
    BY <2>2, <2>3, <2>4 DEF Entry
  <2>6. (Len(k.todo) # 1 /\ Awaits(todo, "session")) \/ (n = 0 <=> session'[d] = "none")
    BY <2>2, <2>3, <2>4 DEF Entry
  <2>7. (Len(k.todo) # 1 /\ Awaits(todo, "sync")) \/ (n # 0 => syncOn'[d])
    BY <2>2, <2>3, <2>4 DEF Entry
  <2>8. CASE Len(k.todo) = 1 /\ Goes(d, c, "none", 0, <<>>)
    <3>1. Whole(d)'
      BY <1>1, <2>1, <2>5, <2>6, <2>7, <2>8 DEF Whole
    <3> QED BY <1>4, <2>1, <2>8, <3>1, OwnStep
  <2>9. CASE Len(k.todo) # 1 /\ Goes(d, c, "store", n, todo)
    <3>1. Written([kind |-> "store", token |-> n, todo |-> todo], access'[d], refresh'[d], session'[d], syncOn'[d])
      BY <2>5, <2>6, <2>7 DEF Written
    <3> QED BY <1>1, <1>4, <2>1, <2>9, <3>1, OwnStep
  <2> QED BY <1>2, <2>8, <2>9 DEF k, n, todo
<1> QED BY <1>3, <1>4

LEMMA DevicesStep == TInv /\ DevicesInv /\ [SessionNext]_sessionVars => DevicesInv'
<1> SUFFICES ASSUME TInv, DevicesInv, [SessionNext]_sessionVars PROVE DevicesInv'
  OBVIOUS
<1>1. CASE UNCHANGED sessionVars
  BY <1>1 DEF sessionVars, server, device, DevicesInv, DInv, Whole
<1>2. CASE SessionNext
  BY <1>2, BeginsKeepDevices, AuthenticatedKeepsDevices, rotateKeepsDevices, StoreKeepsDevices, EndingsKeepDevices,
     ServerStepsKeepDevices, DeviceStepsKeepDevices DEF SessionNext
<1> QED BY <1>1, <1>2

(* A device that never lost an answer, stopped in a call or overlapped two  *)
(* holds, between calls, a whole session or nothing, and a token that the   *)
(* rotation has not used up, whatever the user's other devices do (auth.ts  *)
(* 174-194 and 232-264, tokens.ts 75-101).                                  *)
THEOREM DeviceSafety == SessionSpec => []DeviceIsWhole
<1>1. TInv /\ DevicesInv => DeviceIsWhole
  <2> SUFFICES ASSUME TInv, DevicesInv, NEW d \in Client \ trouble, ~Busy(d)
               PROVE  /\ refresh[d] # 0 => tokens[refresh[d]].revoked \notin {"rotated", "replayed", "logout"}
                      /\ access[d] = refresh[d]
                      /\ access[d] = 0 <=> session[d] = "none"
                      /\ access[d] # 0 => syncOn[d]
    BY DEF DeviceIsWhole, StoredTokenIsGood, SessionIsWhole
  <2>1. Whole(d)
    BY DEF DevicesInv, DInv, Busy
  <2> QED BY <2>1 DEF Whole, Unspent
<1> QED BY <1>1, SessionInvariant, DevicesInit, DevicesStep, PTL DEF SessionSpec

-----------------------------------------------------------------------------
(* News: what a refresh holds in memory against what the tables hold.      *)

Poll == [pc : {"idle", "source", "item", "enrich", "announce"}, left : 0..Len(Sources), items : Seq(Url),
         urgent : SUBSET Url, found : SUBSET Url, asked : Nat, readers : SUBSET Reader]

(* A refresh p, when the urls known are in the cache and left is the       *)
(* budget: what it found urgent is in the cache until the cache is pruned, *)
(* the item it words anew is not.                                          *)
Fits(p, known, going, left) ==
    /\ p \in Poll
    /\ p.pc = "idle" => p.urgent = {} /\ p.found = {} /\ p.asked = 0
    /\ p.pc # "idle" => going /\ p.asked + left <= MaxEnrich
    /\ p.pc \in {"source", "item", "enrich"} => p.urgent \union p.found \subseteq known
    /\ p.pc \in {"item", "enrich"} => p.left # 0
    /\ p.pc = "enrich" => p.items # <<>> /\ Head(p.items) \notin known

(* The refresh p still has u to hand to r.                                 *)
Owes(p, r, u) == u \in p.urgent \union p.found /\ (p.pc = "announce" => r \in p.readers)

NInv ==
    /\ budget \in Nat /\ running \in BOOLEAN
    /\ stored \in [Url -> Nat] /\ handed \in [Reader \X Url -> Nat]
    /\ poll \in [Starter -> Poll]
    /\ \A c \in Starter : Fits(poll[c], DOMAIN cache, running, budget)
    /\ \A b, c \in Starter : poll[b].pc # "idle" /\ poll[c].pc # "idle" => b = c
    /\ \A r \in Reader, u \in Url :
         /\ handed[<<r, u>>] <= stored[u]
         /\ \A c \in Starter : Owes(poll[c], r, u) => handed[<<r, u>>] + 1 <= stored[u]

LEMMA Idle ==
    /\ NoRefresh \in Poll
    /\ \A known, going, left : Fits(NoRefresh, known, going, left)
    /\ \A r, u : ~Owes(NoRefresh, r, u)
<1>1. Len(Sources) \in Nat
  BY NewsAssumption
<1>2. NoRefresh \in Poll
  BY <1>1 DEF NoRefresh, Poll
<1>3. NoRefresh.pc = "idle" /\ NoRefresh.urgent = {} /\ NoRefresh.found = {} /\ NoRefresh.asked = 0
  BY DEF NoRefresh
<1> QED BY <1>2, <1>3 DEF Fits, Owes

LEMMA NewsInitInv == NewsInit => NInv
<1> SUFFICES ASSUME NewsInit PROVE NInv
  OBVIOUS
<1>1. \A c \in Starter : poll[c] = NoRefresh
  BY DEF NewsInit
<1>2. /\ budget \in Nat /\ running \in BOOLEAN
      /\ stored \in [Url -> Nat] /\ handed \in [Reader \X Url -> Nat]
      /\ \A r \in Reader, u \in Url : handed[<<r, u>>] = 0 /\ stored[u] = 0
  BY DEF NewsInit
<1>3. poll \in [Starter -> Poll]
  BY Idle DEF NewsInit
<1>4. \A c \in Starter : poll[c].pc = "idle"
  BY <1>1 DEF NoRefresh
<1> QED BY <1>1, <1>2, <1>3, <1>4, Idle DEF NInv

(* The refresh of c takes a step to q.                                     *)
LEMMA RefreshStep ==
    ASSUME NInv, NEW c \in Starter, poll[c].pc # "idle" \/ ~running, NEW q, Continue(c, q),
           Fits(q, DOMAIN cache', running', budget'), budget' \in Nat, running' \in BOOLEAN,
           stored' \in [Url -> Nat], handed' \in [Reader \X Url -> Nat],
           \A r \in Reader, u \in Url :
               /\ handed'[<<r, u>>] <= stored'[u]
               /\ Owes(q, r, u) => handed'[<<r, u>>] + 1 <= stored'[u]
    PROVE  NInv'
<1>1. poll' \in [Starter -> Poll] /\ poll'[c] = q /\ \A b \in Starter \ {c} : poll'[b] = poll[b]
  BY DEF Continue, NInv, Fits
<1>2. \A b \in Starter \ {c} : poll[b].pc = "idle"
  BY DEF NInv, Fits
<1>3. ASSUME NEW b \in Starter \ {c}
      PROVE  Fits(poll[b], DOMAIN cache', running', budget') /\ \A r, u : ~Owes(poll[b], r, u)
  <2>1. Fits(poll[b], DOMAIN cache, running, budget) /\ poll[b].pc = "idle"
    BY <1>2 DEF NInv
  <2> QED BY <2>1 DEF Fits, Owes
<1>4. \A b \in Starter : Fits(poll'[b], DOMAIN cache', running', budget')
  BY <1>1, <1>3
<1>5. \A b \in Starter, r \in Reader, u \in Url : Owes(poll'[b], r, u) => handed'[<<r, u>>] + 1 <= stored'[u]
  BY <1>1, <1>3
<1>6. \A a, b \in Starter : poll'[a].pc # "idle" /\ poll'[b].pc # "idle" => a = b
  BY <1>1, <1>2
<1> QED BY <1>1, <1>4, <1>5, <1>6 DEF NInv

(* A step that neither hands over nor stores, of a refresh that then owes   *)
(* no more than before.                                                    *)
LEMMA QuietStep ==
    ASSUME NInv, NEW c \in Starter, poll[c].pc # "idle", NEW q, Continue(c, q),
           UNCHANGED <<running, stored, handed>>,
           Fits(q, DOMAIN cache', running, budget'), budget' \in Nat,
           \A r \in Reader, u \in Url : Owes(q, r, u) => Owes(poll[c], r, u)
    PROVE  NInv'
<1>1. \A r \in Reader, u \in Url : /\ handed[<<r, u>>] <= stored[u]
                                   /\ Owes(q, r, u) => handed[<<r, u>>] + 1 <= stored[u]
  BY DEF NInv
<1> QED BY <1>1, RefreshStep DEF NInv

LEMMA BeginRefreshKeeps ==
    ASSUME NInv, NEW c \in Starter, BeginRefresh(c)
    PROVE  NInv'
<1> DEFINE q == [NoRefresh EXCEPT !.pc = "source", !.left = Len(Sources)]
<1>1. q \in Poll /\ q.pc = "source" /\ q.urgent = {} /\ q.found = {} /\ q.asked = 0
  <2>1. Len(Sources) \in 0..Len(Sources)
    BY NewsAssumption
  <2>2. /\ q \in Poll /\ q.pc = "source" /\ q.urgent = NoRefresh.urgent /\ q.found = NoRefresh.found
        /\ q.asked = NoRefresh.asked
    BY <2>1, Idle DEF Poll
  <2>3. NoRefresh.urgent = {} /\ NoRefresh.found = {} /\ NoRefresh.asked = 0
    BY DEF NoRefresh
  <2> QED BY <2>2, <2>3
<1>2. Continue(c, q) /\ ~running /\ running' = TRUE /\ budget' = MaxEnrich /\ UNCHANGED <<stored, handed>>
  BY DEF BeginRefresh
<1> HIDE DEF q
<1>3. Fits(q, DOMAIN cache', running', budget') /\ \A r, u : ~Owes(q, r, u)
  BY <1>1, <1>2, NewsAssumption DEF Fits, Owes
<1>4. budget' \in Nat /\ running' \in BOOLEAN
  BY <1>2, NewsAssumption
<1> QED BY <1>2, <1>3, <1>4, RefreshStep DEF NInv

(* The records a refresh goes through.                                     *)
LEMMA PollShapes ==
    ASSUME NEW p \in Poll
    PROVE  /\ p.items \in Seq(Url) /\ p.urgent \subseteq Url /\ p.found \subseteq Url /\ p.asked \in Nat
           /\ p.left \in Nat /\ p.left <= Len(Sources) /\ Len(Sources) \in Nat /\ p.readers \subseteq Reader
           /\ p.items # <<>> => Head(p.items) \in Url /\ Tail(p.items) \in Seq(Url)
<1>1. Len(Sources) \in Nat
  BY NewsAssumption
<1>2. p.items \in Seq(Url) /\ p.left \in 0..Len(Sources)
  BY DEF Poll
<1>3. p.items # <<>> => Head(p.items) \in Url /\ Tail(p.items) \in Seq(Url)
  BY <1>2, HeadTailProperties
<1> QED BY <1>1, <1>2, <1>3 DEF Poll

LEMMA FetchPageKeeps ==
    ASSUME NInv, NEW c \in Starter, FetchPage(c)
    PROVE  NInv'
<1> DEFINE p == poll[c]
<1>1. p \in Poll /\ Fits(p, DOMAIN cache, running, budget) /\ p.pc = "source" /\ p.left > 0
  BY DEF NInv, FetchPage
<1>2. PICK page \in Page[SourceOf(c)] : Continue(c, [p EXCEPT !.pc = "item", !.items = page, !.found = {}])
  BY DEF FetchPage
<1>3. page \in Seq(Url)
  <2>1. Len(Sources) - p.left + 1 \in 1..Len(Sources)
    BY <1>1, PollShapes
  <2>2. SourceOf(c) \in DOMAIN Page
    <3> DEFINE n == Len(Sources) - p.left + 1
    <3>1. n \in 1..Len(Sources) /\ SourceOf(c) = Sources[n]
      BY <2>1 DEF SourceOf
    <3> HIDE DEF n
    <3> QED BY <3>1, NewsAssumption
  <2> QED BY <2>2, NewsAssumption
<1> DEFINE q == [p EXCEPT !.pc = "item", !.items = page, !.found = {}]
<1> HIDE DEF p
<1>4. /\ q \in Poll /\ q.pc = "item" /\ q.left = p.left /\ q.items = page /\ q.urgent = p.urgent
      /\ q.found = {} /\ q.asked = p.asked /\ q.readers = p.readers
  BY <1>1, <1>3 DEF Poll
<1> HIDE DEF q
<1>5. Fits(q, DOMAIN cache, running, budget)
  BY <1>1, <1>4, PollShapes DEF Fits
<1>6. \A r \in Reader, u \in Url : Owes(q, r, u) => Owes(p, r, u)
  BY <1>1, <1>4 DEF Owes
<1>7. Continue(c, q) /\ UNCHANGED <<cache, running, budget, stored, handed>>
  BY <1>2 DEF q, p, FetchPage
<1> QED BY <1>1, <1>5, <1>6, <1>7, QuietStep DEF p, NInv

(* The page in hand is lost, and what it held that was urgent.             *)
LEMMA FailuresKeep ==
    ASSUME NInv, NEW c \in Starter, FetchFails(c) \/ StoreFails(c)
    PROVE  NInv'
<1> DEFINE p == poll[c]
           none == <<>>
           q == [p EXCEPT !.pc = "source", !.left = p.left - 1, !.items = none, !.found = {}]
<1>1. /\ p \in Poll /\ Fits(p, DOMAIN cache, running, budget) /\ p.pc \in {"source", "item", "enrich"} /\ p.left # 0
      /\ UNCHANGED <<cache, running, budget, stored, handed>>
  BY DEF NInv, Fits, FetchFails, StoreFails, AtItem
<1>2. Continue(c, q)
  BY DEF FetchFails, StoreFails, SourceFails
<1>3. p.left - 1 \in 0..Len(Sources)
  BY <1>1, PollShapes
<1>s. none \in Seq(Url)
  BY EmptySeq
<1> HIDE DEF p, none
<1>4. /\ q \in Poll /\ q.pc = "source" /\ q.urgent = p.urgent /\ q.found = {} /\ q.asked = p.asked
  BY <1>1, <1>3, <1>s DEF Poll
<1> HIDE DEF q
<1>5. Fits(q, DOMAIN cache, running, budget)
  BY <1>1, <1>4, PollShapes DEF Fits
<1>6. \A r \in Reader, u \in Url : Owes(q, r, u) => Owes(p, r, u)
  BY <1>1, <1>4 DEF Owes
<1> QED BY <1>1, <1>2, <1>5, <1>6, QuietStep DEF p, NInv

LEMMA PassKnownKeeps ==
    ASSUME NInv, NEW c \in Starter, PassKnown(c)
    PROVE  NInv'
<1> DEFINE p == poll[c]
           q == [p EXCEPT !.items = Tail(p.items)]
<1>1. /\ p \in Poll /\ Fits(p, DOMAIN cache, running, budget) /\ p.pc = "item" /\ p.items # <<>>
      /\ UNCHANGED <<cache, running, budget, stored, handed>> /\ Continue(c, q)
  BY DEF NInv, PassKnown, AtItem
<1> HIDE DEF p
<1>4. /\ q \in Poll /\ q.pc = "item" /\ q.left = p.left /\ q.urgent = p.urgent /\ q.found = p.found /\ q.asked = p.asked
  <2>1. Tail(p.items) \in Seq(Url)
    BY <1>1, PollShapes
  <2> QED BY <1>1, <2>1 DEF Poll
<1> HIDE DEF q
<1>5. Fits(q, DOMAIN cache, running, budget)
  BY <1>1, <1>4 DEF Fits
<1>6. \A r \in Reader, u \in Url : Owes(q, r, u) => Owes(p, r, u)
  BY <1>1, <1>4 DEF Owes
<1> QED BY <1>1, <1>5, <1>6, QuietStep DEF p, NInv

LEMMA AskModelKeeps ==
    ASSUME NInv, NEW c \in Starter, AskModel(c)
    PROVE  NInv'
<1> DEFINE p == poll[c]
           q == [p EXCEPT !.pc = "enrich", !.asked = p.asked + 1]
<1>1. /\ p \in Poll /\ Fits(p, DOMAIN cache, running, budget) /\ p.pc = "item" /\ p.items # <<>>
      /\ Head(p.items) \notin DOMAIN cache
      /\ UNCHANGED <<cache, running, stored, handed>> /\ Continue(c, q)
      /\ budget \in Nat /\ budget > 0 /\ budget' = budget - 1
  BY DEF NInv, AskModel, AtItem, Seen
<1> HIDE DEF p
<1>4. /\ q \in Poll /\ q.pc = "enrich" /\ q.left = p.left /\ q.items = p.items /\ q.urgent = p.urgent
      /\ q.found = p.found /\ q.asked = p.asked + 1
  <2>1. p.asked + 1 \in Nat
    BY <1>1, PollShapes
  <2> QED BY <1>1, <2>1 DEF Poll
<1> HIDE DEF q
<1>5. Fits(q, DOMAIN cache, running, budget')
  BY <1>1, <1>4, PollShapes DEF Fits
<1>6. \A r \in Reader, u \in Url : Owes(q, r, u) => Owes(p, r, u)
  BY <1>1, <1>4 DEF Owes
<1>7. budget' \in Nat
  BY <1>1
<1> QED BY <1>1, <1>5, <1>6, <1>7, QuietStep DEF p, NInv

(* An item that is stored was not in the cache, so nothing was owed of it. *)
LEMMA StoreItemKeeps ==
    ASSUME NInv, NEW c \in Starter, StoreItem(c)
    PROVE  NInv'
<1> DEFINE p == poll[c]
           v == Head(p.items)
           q == [p EXCEPT !.pc = "item", !.items = Tail(p.items), !.found = p.found \union ({v} \intersect Urgent)]
<1>1. /\ p \in Poll /\ Fits(p, DOMAIN cache, running, budget) /\ p.pc \in {"item", "enrich"} /\ p.items # <<>>
      /\ v \notin DOMAIN cache
      /\ UNCHANGED <<running, budget, handed>> /\ Continue(c, q)
  BY DEF NInv, StoreItem, AtItem, Seen, Fits
<1>2. /\ v \in Url /\ Tail(p.items) \in Seq(Url)
      /\ stored \in [Url -> Nat] /\ handed \in [Reader \X Url -> Nat]
      /\ \A r \in Reader, u \in Url : handed[<<r, u>>] <= stored[u] /\ (Owes(p, r, u) => handed[<<r, u>>] + 1 <= stored[u])
  BY <1>1, PollShapes DEF NInv
<1>3. stored' = [stored EXCEPT ![v] = stored[v] + 1] /\ DOMAIN cache' = DOMAIN cache \union {v}
  BY <1>1 DEF StoreItem, Seen
<1> HIDE DEF p, v
<1>4. /\ q \in Poll /\ q.pc = "item" /\ q.left = p.left /\ q.urgent = p.urgent
      /\ q.found \subseteq p.found \union {v} /\ q.asked = p.asked
  BY <1>1, <1>2 DEF Poll
<1> HIDE DEF q
<1>5. Fits(q, DOMAIN cache', running', budget')
  BY <1>1, <1>3, <1>4 DEF Fits
<1>6. ASSUME NEW r \in Reader, NEW u \in Url
      PROVE  /\ handed'[<<r, u>>] <= stored'[u]
             /\ Owes(q, r, u) => handed'[<<r, u>>] + 1 <= stored'[u]
  <2>1. handed'[<<r, u>>] = handed[<<r, u>>] /\ handed[<<r, u>>] \in Nat /\ stored[u] \in Nat
    BY <1>1, <1>2
  <2>2. CASE u = v
    <3>1. stored'[u] = stored[u] + 1
      BY <1>2, <1>3, <2>2
    <3>2. handed[<<r, u>>] <= stored[u]
      BY <1>2
    <3> QED BY <2>1, <3>1, <3>2
  <2>3. CASE u # v
    <3>1. stored'[u] = stored[u]
      BY <1>2, <1>3, <2>3
    <3>2. Owes(q, r, u) => Owes(p, r, u)
      BY <1>1, <1>4, <2>3 DEF Owes
    <3> QED BY <1>2, <2>1, <3>1, <3>2
  <2> QED BY <2>2, <2>3
<1>7. stored' \in [Url -> Nat] /\ handed' \in [Reader \X Url -> Nat]
  BY <1>1, <1>2, <1>3
<1> QED BY <1>1, <1>5, <1>6, <1>7, RefreshStep DEF p, NInv

LEMMA SourceDoneKeeps ==
    ASSUME NInv, NEW c \in Starter, SourceDone(c)
    PROVE  NInv'
<1> DEFINE p == poll[c]
           q == [p EXCEPT !.pc = "source", !.left = p.left - 1, !.urgent = p.urgent \union p.found, !.found = {}]
<1>1. /\ p \in Poll /\ Fits(p, DOMAIN cache, running, budget) /\ p.pc = "item" /\ p.left # 0
      /\ UNCHANGED <<cache, running, budget, stored, handed>> /\ Continue(c, q)
  BY DEF NInv, Fits, SourceDone
<1>3. p.left - 1 \in 0..Len(Sources) /\ p.urgent \union p.found \subseteq Url
  BY <1>1, PollShapes
<1> HIDE DEF p
<1>4. /\ q \in Poll /\ q.pc = "source" /\ q.urgent = p.urgent \union p.found /\ q.found = {} /\ q.asked = p.asked
  BY <1>1, <1>3 DEF Poll
<1> HIDE DEF q
<1>5. Fits(q, DOMAIN cache, running, budget)
  BY <1>1, <1>4 DEF Fits
<1>6. \A r \in Reader, u \in Url : Owes(q, r, u) => Owes(p, r, u)
  BY <1>1, <1>4 DEF Owes
<1> QED BY <1>1, <1>5, <1>6, QuietStep DEF p, NInv

LEMMA PruneCacheKeeps ==
    ASSUME NInv, NEW c \in Starter, PruneCache(c)
    PROVE  NInv'
<1> DEFINE p == poll[c]
           some == IF p.urgent = {} THEN {} ELSE Reader
           q == [p EXCEPT !.pc = "announce", !.readers = some]
<1>1. /\ p \in Poll /\ Fits(p, DOMAIN cache, running, budget) /\ p.pc = "source" /\ some \subseteq Reader
      /\ UNCHANGED <<running, budget, stored, handed>> /\ Continue(c, q)
  BY DEF NInv, PruneCache
<1> HIDE DEF p, some
<1>4. q \in Poll /\ q.pc = "announce" /\ q.urgent = p.urgent /\ q.found = p.found /\ q.asked = p.asked
  BY <1>1 DEF Poll
<1> HIDE DEF q
<1>5. Fits(q, DOMAIN cache', running, budget')
  BY <1>1, <1>4 DEF Fits
<1>6. \A r \in Reader, u \in Url : Owes(q, r, u) => Owes(p, r, u)
  BY <1>1, <1>4 DEF Owes
<1> QED BY <1>1, <1>5, <1>6, QuietStep DEF p, NInv

(* What is handed over was owed, and is not owed any more.                 *)
LEMMA AnnounceKeeps ==
    ASSUME NInv, NEW c \in Starter, Announce(c)
    PROVE  NInv'
<1> DEFINE p == poll[c]
<1>1. /\ p \in Poll /\ Fits(p, DOMAIN cache, running, budget) /\ p.pc = "announce"
      /\ UNCHANGED <<cache, running, budget, stored>>
      /\ stored \in [Url -> Nat] /\ handed \in [Reader \X Url -> Nat]
      /\ \A r \in Reader, u \in Url : handed[<<r, u>>] <= stored[u] /\ (Owes(p, r, u) => handed[<<r, u>>] + 1 <= stored[u])
  BY DEF NInv, Announce
<1>2. PICK s \in p.readers :
          /\ handed' = [k \in Reader \X Url |-> handed[k] + (IF k[1] = s /\ k[2] \in p.urgent THEN 1 ELSE 0)]
          /\ Continue(c, [p EXCEPT !.readers = p.readers \ {s}])
  BY DEF Announce
<1> DEFINE q == [p EXCEPT !.readers = p.readers \ {s}]
<1>3. Continue(c, q)
  BY <1>2
<1> HIDE DEF p
<1>4. /\ q \in Poll /\ q.pc = "announce" /\ q.urgent = p.urgent /\ q.found = p.found /\ q.asked = p.asked
      /\ q.readers = p.readers \ {s}
  BY <1>1 DEF Poll
<1> HIDE DEF q
<1>5. Fits(q, DOMAIN cache', running', budget')
  BY <1>1, <1>4 DEF Fits
<1>6. ASSUME NEW r \in Reader, NEW u \in Url
      PROVE  /\ handed'[<<r, u>>] \in Nat
             /\ handed'[<<r, u>>] <= stored'[u]
             /\ Owes(q, r, u) => handed'[<<r, u>>] + 1 <= stored'[u]
  <2>1. handed[<<r, u>>] \in Nat /\ stored[u] \in Nat /\ stored'[u] = stored[u]
    BY <1>1
  <2>2. handed'[<<r, u>>] = handed[<<r, u>>] + (IF r = s /\ u \in p.urgent THEN 1 ELSE 0)
    BY <1>2
  <2>3. handed[<<r, u>>] <= stored[u] /\ (Owes(p, r, u) => handed[<<r, u>>] + 1 <= stored[u])
    BY <1>1
  <2>4. CASE r = s /\ u \in p.urgent
    <3>1. Owes(p, r, u) /\ ~Owes(q, r, u)
      BY <1>1, <1>2, <1>4, <2>4 DEF Owes
    <3> QED BY <2>1, <2>2, <2>3, <2>4, <3>1
  <2>5. CASE ~(r = s /\ u \in p.urgent)
    <3>1. Owes(q, r, u) => Owes(p, r, u)
      BY <1>1, <1>4 DEF Owes
    <3> QED BY <2>1, <2>2, <2>3, <2>5, <3>1
  <2> QED BY <2>4, <2>5
<1>7. handed' \in [Reader \X Url -> Nat]
  <2> DEFINE new(k) == handed[k] + (IF k[1] = s /\ k[2] \in p.urgent THEN 1 ELSE 0)
  <2>1. \A k \in Reader \X Url : new(k) \in Nat
    BY <1>1
  <2>2. handed' = [k \in Reader \X Url |-> new(k)]
    BY <1>2
  <2> HIDE DEF new
  <2> QED BY <2>1, <2>2
<1> QED BY <1>1, <1>3, <1>5, <1>6, <1>7, RefreshStep DEF p, NInv

LEMMA EndKeeps ==
    ASSUME NInv, NEW c \in Starter, AnnounceFails(c) \/ RefreshDone(c)
    PROVE  NInv'
<1> DEFINE p == poll[c]
<1>1. /\ p \in Poll /\ Fits(p, DOMAIN cache, running, budget) /\ p.pc = "announce"
      /\ UNCHANGED <<cache, budget, stored, handed>>
  BY DEF NInv, AnnounceFails, RefreshDone
<1>2. CASE AnnounceFails(c)
  <2> DEFINE q == [p EXCEPT !.readers = {}]
  <2>1. Continue(c, q) /\ running' = running
    BY <1>2 DEF AnnounceFails
  <2> HIDE DEF p
  <2>2. q \in Poll /\ q.pc = "announce" /\ q.urgent = p.urgent /\ q.found = p.found /\ q.asked = p.asked /\ q.readers = {}
    BY <1>1 DEF Poll
  <2> HIDE DEF q
  <2>3. Fits(q, DOMAIN cache', running, budget') /\ \A r, u : ~Owes(q, r, u)
    BY <1>1, <2>2 DEF Fits, Owes
  <2> QED BY <1>1, <2>1, <2>3, QuietStep DEF p, NInv
<1>3. CASE RefreshDone(c)
  <2>1. Continue(c, NoRefresh) /\ running' = FALSE
    BY <1>3 DEF RefreshDone
  <2>2. running' \in BOOLEAN
    BY <2>1
  <2> QED BY <1>1, <2>1, <2>2, Idle, RefreshStep DEF NInv
<1> QED BY <1>2, <1>3

LEMMA RestartKeeps == ASSUME NInv, NewsRestart PROVE NInv'
<1>1. /\ \A c \in Starter : poll'[c] = NoRefresh
      /\ poll' = [c \in Starter |-> NoRefresh] /\ running' = FALSE /\ budget' = 0 /\ UNCHANGED <<stored, handed>>
  BY DEF NewsRestart
<1>2. poll' \in [Starter -> Poll]
  BY <1>1, Idle
<1>3. NoRefresh.pc = "idle"
  BY DEF NoRefresh
<1> HIDE DEF NoRefresh
<1> QED BY <1>1, <1>2, <1>3, Idle DEF NInv

LEMMA NewsStep == NInv /\ [NewsNext]_newsVars => NInv'
<1> SUFFICES ASSUME NInv, [NewsNext]_newsVars PROVE NInv'
  OBVIOUS
<1>1. CASE UNCHANGED <<cache, running, budget, poll, stored, handed>>
  BY <1>1 DEF NInv
<1>2. CASE NewsNext
  BY <1>1, <1>2, BeginRefreshKeeps, FetchPageKeeps, FailuresKeep, PassKnownKeeps, AskModelKeeps, StoreItemKeeps,
     SourceDoneKeeps, PruneCacheKeeps, AnnounceKeeps, EndKeeps, RestartKeeps DEF NewsNext, NewsDayPasses
<1> QED BY <1>1, <1>2 DEF newsVars

(* However many sources carry an item, and whatever fails or restarts: an   *)
(* urgent item is handed to a user at most once for each time it was        *)
(* stored, and a refresh asks the model within its cap (news-feed.ts        *)
(* fetchOne, refresh, MAX_ENRICH_PER_REFRESH).                              *)
THEOREM NewsSafety == NewsSpec => []NewsIsToldOnce
<1>1. NInv => NewsIsToldOnce
  <2> SUFFICES ASSUME NInv PROVE NewsIsToldOnce
    OBVIOUS
  <2>1. HandedOncePerStoring
    BY DEF NInv, HandedOncePerStoring
  <2>2. ASSUME NEW c \in Starter PROVE poll[c].asked <= MaxEnrich
    <3>1. Fits(poll[c], DOMAIN cache, running, budget) /\ budget \in Nat /\ poll[c].asked \in Nat
      BY DEF NInv, Poll
    <3> QED BY <3>1, NewsAssumption DEF Fits
  <2> QED BY <2>1, <2>2 DEF ModelIsAskedWithinCap, NewsIsToldOnce
<1> QED BY <1>1, NewsInitInv, NewsStep, PTL DEF NewsSpec
=============================================================================
