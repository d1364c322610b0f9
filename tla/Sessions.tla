------------------------------ MODULE Sessions ------------------------------
(***************************************************************************)
(* The sessions of one account: the refresh tokens of the server           *)
(* (services/tokens.ts, services/users.ts, routes/auth.ts) and the calls    *)
(* of AuthService on the user's devices, which overlap and whose answers    *)
(* may be lost.                                                             *)
(*                                                                         *)
(* A handler of the server runs in one step up to the next scrypt; a call   *)
(* on a device is split at every entry of the secure storage or table it    *)
(* writes.                                                                  *)
(***************************************************************************)
EXTENDS Naturals, Sequences, FiniteSets

CONSTANTS
    Client,              \* the devices of the user
    Caller,              \* calls that may overlap on a device
    MaxTokens, MaxCalls, MaxFaults, MaxChanges

ASSUME SessionAssumption == {MaxTokens, MaxCalls, MaxFaults, MaxChanges} \subseteq Nat

VARIABLES
    account,   \* the row of users: "none", "live" or "gone"
    password,  \* how often the password was changed
    tokens,    \* refresh_tokens, with the rows that are deleted by now
    change,    \* the password change under way: the version it verified, or 0
    access,    \* ACCESS_KEY of a device: the token it belongs to, or 0
    refresh,   \* REFRESH_KEY
    session,   \* the row of session_state: "none", "fresh", or "stale" when access_expires_at is near
    syncOn,    \* settings.sync.enabled
    call,      \* the calls under way
    trouble,   \* the devices that lost an answer, stopped in a call or overlapped two
    events     \* the calls made and the faults and interventions so far

server == <<account, password, tokens, change>>
device == <<access, refresh, session, syncOn>>
sessionVars == <<server, device, call, trouble, events>>

NoCall == [kind |-> "none", token |-> 0, todo |-> <<>>]

Live(i) == tokens[i].row /\ tokens[i].revoked = "no"

(* ON DELETE CASCADE and the foreign key of an INSERT: no row without its account. *)
Issue(d, from, knew, ts) ==
    Append(ts, [dev |-> d, from |-> from, row |-> TRUE, revoked |-> "no", expired |-> FALSE, at |-> password, knew |-> knew])

Revoke(S, reason, ts) ==
    [i \in DOMAIN ts |-> IF i \in S /\ ts[i].revoked = "no" THEN [ts[i] EXCEPT !.revoked = reason] ELSE ts[i]]
OfDevice(d) == {i \in DOMAIN tokens : tokens[i].dev = d}

(* With the refresh token, or the row of the session, forgotten. *)
StoredNoRefresh == <<"access", "session", "sync">>
StoredNoSession == <<"access", "refresh", "sync">>

Stored == <<"access", "refresh", "session", "sync">>

SessionInit ==
    /\ account = "none" /\ password = 1 /\ tokens = <<>> /\ change = 0
    /\ access = [d \in Client |-> 0] /\ refresh = [d \in Client |-> 0]
    /\ session = [d \in Client |-> "none"] /\ syncOn = [d \in Client |-> FALSE]
    /\ call = [d \in Client |-> [c \in Caller |-> NoCall]]
    /\ trouble = {}
    /\ events = [calls |-> 0, faults |-> 0]

Goes(d, c, kind, token, todo) ==
    call' = [call EXCEPT ![d][c] = [kind |-> kind, token |-> token, todo |-> todo]]

Busy(d) == \E c \in Caller : call[d][c].kind # "none"
Begins(d) ==
    /\ events.calls < MaxCalls
    /\ trouble' = IF Busy(d) THEN trouble \cup {d} ELSE trouble

Happens(E) == events' = [e \in DOMAIN events |-> IF e \in E THEN events[e] + 1 ELSE events[e]]

-----------------------------------------------------------------------------
(* Signing in. *)

(* signUp and signIn: the handler has looked the account up and waits for scrypt; *)
(* "token" is the password it compares with.                                      *)
signIn(d, c) ==
    /\ call[d][c].kind = "none" /\ Len(tokens) < MaxTokens
    /\ \/ account = "none" /\ Goes(d, c, "register", 0, <<>>)
       \/ account = "live" /\ Goes(d, c, "login", password, <<>>)
    /\ Begins(d) /\ Happens({"calls"})
    /\ UNCHANGED <<server, device>>

(* With the session of an account that was deleted meanwhile. *)
AuthenticatedBlindly(d, c) ==
    /\ call[d][c].kind \in {"register", "login"} /\ Len(tokens) < MaxTokens
    /\ tokens' = Issue(d, 0, password, tokens)
    /\ account' = IF call[d][c].kind = "register" THEN "live" ELSE account
    /\ Goes(d, c, "store", Len(tokens'), Stored)
    /\ UNCHANGED <<password, change, device, trouble, events>>

(* scrypt is done: the account is inserted, unless its email has one by now; the  *)
(* session of a login is inserted, unless its account has gone.                   *)
Authenticated(d, c) ==
    LET k == call[d][c]
        possible == IF k.kind = "register" THEN account = "none" ELSE account = "live"
    IN  /\ k.kind \in {"register", "login"}
        /\ IF possible /\ Len(tokens) < MaxTokens
           THEN /\ tokens' = Issue(d, 0, IF k.kind = "login" THEN k.token ELSE password, tokens)
                /\ account' = "live"
                /\ Goes(d, c, "store", Len(tokens'), Stored)
           ELSE Goes(d, c, "none", 0, <<>>) /\ UNCHANGED <<tokens, account>>
        /\ UNCHANGED <<password, change, device, trouble, events>>

-----------------------------------------------------------------------------
(* Refreshing. *)

(* accessToken(): the access token is about to expire, and is exchanged. *)
accessToken(d, c) ==
    /\ call[d][c].kind = "none" /\ Len(tokens) < MaxTokens
    /\ access[d] # 0 /\ session[d] = "stale" /\ refresh[d] # 0
    /\ Goes(d, c, "refresh", refresh[d], <<>>)
    /\ Begins(d) /\ Happens({"calls"})
    /\ UNCHANGED <<server, device>>

(* rotate: with a token that was used before taken once more. *)
RotatedAgain(i) ==
    IF tokens[i].row /\ account = "live" THEN Issue(tokens[i].dev, i, tokens[i].knew, Revoke({i}, "rotated", tokens)) ELSE tokens

(* With a replay ending the sessions of every device. *)
RotatedEndsAll(i) ==
    IF ~tokens[i].row THEN tokens
    ELSE IF tokens[i].revoked # "no" THEN Revoke(DOMAIN tokens, "replayed", tokens)
    ELSE Issue(tokens[i].dev, i, tokens[i].knew, Revoke({i}, "rotated", tokens))

(* rotate: unknown, replayed, expired, or exchanged for a new one. *)
Rotated(i) ==
    IF ~tokens[i].row THEN tokens
    ELSE IF tokens[i].revoked # "no" THEN Revoke(OfDevice(tokens[i].dev), "replayed", tokens)
    ELSE IF tokens[i].expired THEN Revoke({i}, "expired", tokens)
    ELSE Issue(tokens[i].dev, i, tokens[i].knew, Revoke({i}, "rotated", tokens))

(* The server's answer, which may get lost; a device that hears nothing keeps what it has. *)
rotate(d, c) ==
    LET k == call[d][c]
        taken == Len(tokens') > Len(tokens)
    IN  /\ k.kind = "refresh" /\ Len(tokens) < MaxTokens
        /\ tokens' = Rotated(k.token)
        /\ \/ /\ Goes(d, c, "store", IF taken THEN Len(tokens') ELSE 0, IF taken THEN Stored ELSE SubSeq(Stored, 1, 3))
              /\ UNCHANGED <<trouble, events>>
           \/ /\ events.faults < MaxFaults /\ Happens({"faults"})
              /\ Goes(d, c, "none", 0, <<>>)
              /\ trouble' = trouble \cup {d}
        /\ UNCHANGED <<account, password, change, device>>

(* The next entry of persist(), of a rejected refresh, of signOut or deleteAccount. *)
Store(d, c) ==
    LET k == call[d][c]
        step == Head(k.todo)
    IN  /\ k.kind = "store"
        /\ access' = IF step = "access" THEN [access EXCEPT ![d] = k.token] ELSE access
        /\ refresh' = IF step = "refresh" THEN [refresh EXCEPT ![d] = k.token] ELSE refresh
        /\ session' = IF step = "session" THEN [session EXCEPT ![d] = IF k.token = 0 THEN "none" ELSE "fresh"] ELSE session
        /\ syncOn' = IF step = "sync" THEN [syncOn EXCEPT ![d] = k.token # 0] ELSE syncOn
        /\ IF Len(k.todo) = 1 THEN Goes(d, c, "none", 0, <<>>)
           ELSE call' = [call EXCEPT ![d][c].todo = Tail(@)]
        /\ UNCHANGED <<server, trouble, events>>

AccessExpires(d) ==
    /\ session[d] = "fresh"
    /\ session' = [session EXCEPT ![d] = "stale"]
    /\ UNCHANGED <<server, access, refresh, syncOn, call, trouble, events>>

RefreshExpires(i) ==
    /\ Live(i) /\ ~tokens[i].expired
    /\ events.faults < MaxFaults /\ Happens({"faults"})
    /\ tokens' = [tokens EXCEPT ![i].expired = TRUE]
    /\ UNCHANGED <<account, password, change, device, call, trouble>>

(* The application is closed in the middle of whatever it does. *)
ClientCrash(d) ==
    /\ Busy(d)
    /\ events.faults < MaxFaults /\ Happens({"faults"})
    /\ call' = [call EXCEPT ![d] = [c \in Caller |-> NoCall]]
    /\ trouble' = trouble \cup {d}
    /\ UNCHANGED <<server, device>>

-----------------------------------------------------------------------------
(* Ending sessions. *)

(* signOut: the server is told, if it can be reached; the device forgets everything. *)
signOut(d, c) ==
    /\ call[d][c].kind = "none" /\ access[d] # 0
    /\ Happens({"calls"})
    /\ tokens' \in {tokens} \cup (IF refresh[d] = 0 THEN {} ELSE {Revoke({refresh[d]}, "logout", tokens)})
    /\ Goes(d, c, "store", 0, Stored)
    /\ Begins(d)
    /\ UNCHANGED <<account, password, change, device>>

(* DELETE /v1/devices/:id *)
revokeDevice(d) ==
    /\ account = "live"
    /\ events.faults < MaxFaults /\ Happens({"faults"})
    /\ tokens' = Revoke(OfDevice(d), "removed", tokens)
    /\ UNCHANGED <<account, password, change, device, call, trouble>>

(* changePassword has found the current password right and hashes the next one. *)
changePassword(d) ==
    /\ account = "live" /\ access[d] # 0 /\ change = 0 /\ password <= MaxChanges
    /\ events.calls < MaxCalls /\ Happens({"calls"})
    /\ change' = password
    /\ UNCHANGED <<account, password, tokens, device, call, trouble>>

(* With the sessions of the device that asked kept. *)
PasswordChangedKeepsOne ==
    /\ change # 0
    /\ change' = 0
    /\ password' = password + 1
    /\ tokens' = Revoke({i \in DOMAIN tokens : tokens[i].dev # tokens[1].dev}, "password", tokens)
    /\ UNCHANGED <<account, device, call, trouble, events>>

(* With the request left under way. *)
PasswordChangedOpen ==
    /\ change # 0 /\ account = "live"
    /\ password' = password + 1 /\ tokens' = Revoke(DOMAIN tokens, "password", tokens)
    /\ UNCHANGED <<account, change, device, call, trouble, events>>

PasswordChanged ==
    /\ change # 0
    /\ change' = 0
    /\ IF account = "live"
       THEN password' = password + 1 /\ tokens' = Revoke(DOMAIN tokens, "password", tokens)
       ELSE UNCHANGED <<password, tokens>>
    /\ UNCHANGED <<account, device, call, trouble, events>>

(* deleteAccount: the server purges the account, or cannot be reached; either way *)
(* the device goes on and wipes its own rows.                                     *)
deleteAccount(d, c) ==
    /\ call[d][c].kind = "none" /\ access[d] # 0
    /\ \/ /\ account = "live"
          /\ account' = "gone"
          /\ tokens' = [i \in DOMAIN tokens |-> [tokens[i] EXCEPT !.row = FALSE]]
          /\ Happens({"calls"})
       \/ /\ events.faults < MaxFaults /\ Happens({"calls", "faults"})
          /\ UNCHANGED <<account, tokens>>
    /\ Goes(d, c, "store", 0, <<"session", "sync", "access", "refresh">>)
    /\ Begins(d)
    /\ UNCHANGED <<password, change, device>>

SessionNext ==
    \/ \E d \in Client :
         \/ AccessExpires(d) \/ ClientCrash(d) \/ revokeDevice(d) \/ changePassword(d)
         \/ \E c \in Caller : signIn(d, c) \/ Authenticated(d, c) \/ accessToken(d, c) \/ rotate(d, c)
                              \/ Store(d, c) \/ signOut(d, c) \/ deleteAccount(d, c)
    \/ \E i \in DOMAIN tokens : RefreshExpires(i)
    \/ PasswordChanged

-----------------------------------------------------------------------------

Token == [dev: Client, from: Nat, row: BOOLEAN, expired: BOOLEAN, at: Nat, knew: Nat,
          revoked: {"no", "rotated", "replayed", "expired", "logout", "removed", "password"}]

SessionTypeOK ==
    /\ account \in {"none", "live", "gone"} /\ password \in 1..MaxChanges + 1 /\ change \in 0..password
    /\ tokens \in Seq(Token) /\ Len(tokens) <= MaxTokens
    /\ \A d \in Client :
         /\ {access[d], refresh[d]} \subseteq 0..Len(tokens)
         /\ session[d] \in {"none", "fresh", "stale"} /\ syncOn[d] \in BOOLEAN
         /\ \A c \in Caller : call[d][c].token \in IF call[d][c].kind = "login" THEN 1..password ELSE 0..Len(tokens)
    /\ trouble \subseteq Client

(* A refresh token is exchanged for one other, however many requests present it  *)
(* at once or again (tokens.ts 71-101).                                           *)
OneSuccessor ==
    \A i, j \in DOMAIN tokens : i # j /\ tokens[i].from = tokens[j].from => tokens[i].from = 0

(* A token is used up only by its own exchange: rotation, replay and expiry on one *)
(* device leave the sessions of the others alone (tokens.ts 81-92).                *)
OthersAreLeftAlone ==
    [][\A d \in Client : (\E c \in Caller : rotate(d, c)) =>
         \A i \in DOMAIN tokens : tokens[i].dev # d => tokens'[i] = tokens[i]]_sessionVars

(* A device whose calls did not overlap and whose answers all arrived is signed out *)
(* by its user or its owner's other devices, never by the rotation: the token it   *)
(* keeps is the last of its chain (auth.ts 174-194, tokens.ts 75-101).              *)
StoredTokenIsGood ==
    \A d \in Client \ trouble :
      ~Busy(d) /\ refresh[d] # 0 =>
        tokens[refresh[d]].revoked \notin {"rotated", "replayed", "logout"}

(* Such a device has all of a session or nothing of it (auth.ts 232-264, 188-191).  *)
SessionIsWhole ==
    \A d \in Client \ trouble :
      ~Busy(d) => /\ access[d] = refresh[d]
                  /\ access[d] = 0 <=> session[d] = "none"
                  /\ access[d] # 0 => syncOn[d]

(* "Every existing session is invalidated" by a change of the password             *)
(* (routes/auth.ts 87-88).                                                          *)
LiveIsCurrent == \A i \in DOMAIN tokens : Live(i) => tokens[i].at = password

(* "the user signs in again with the new password" (routes/auth.ts 87): no session  *)
(* dates from an older one, also of a sign-in that was under way.                   *)
OldPasswordIsOut == \A i \in DOMAIN tokens : Live(i) => tokens[i].knew = password

(* A purged account has no session left and gets none, whatever sign-in or refresh  *)
(* was under way (users.ts 115-125).                                                *)
PurgeLeavesNothing == account = "gone" => \A i \in DOMAIN tokens : ~tokens[i].row

(* "The server copy must not survive a local deletion", "the request retried on     *)
(* next sign-in" (auth.ts 145-147).                                                 *)
DeletionReachesServer ==
    [][\A d \in Client, c \in Caller : deleteAccount(d, c) => account' = "gone"]_sessionVars

(* "Exchange the refresh token for a new pair. Offline -> keep the old token"        *)
(* (auth.ts 173): overlapping calls and lost answers keep the device signed in.     *)
OverlapKeepsSession ==
    \A d \in Client : ~Busy(d) /\ refresh[d] # 0 => tokens[refresh[d]].revoked \notin {"rotated", "replayed"}

SessionSpec == SessionInit /\ [][SessionNext]_sessionVars

(* The tokens of an account: every one has one successor at most, those    *)
(* that are good are of the current password, and a purged account has     *)
(* none, with sign-ins and refreshes under way.                            *)
TokensAreSound == SessionTypeOK /\ OneSuccessor /\ LiveIsCurrent /\ PurgeLeavesNothing

(* A device whose calls did not overlap holds the last token of its chain  *)
(* and a whole session, or nothing.                                        *)
DeviceIsWhole == StoredTokenIsGood /\ SessionIsWhole
=============================================================================
