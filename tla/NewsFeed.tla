------------------------------ MODULE NewsFeed ------------------------------
(***************************************************************************)
(* NewsFeedService of the server (apps/server/src/services/news-feed.ts):  *)
(* a refresh, started by the timer, by the start of the server or by       *)
(* POST /v1/news/refresh, reads every source, stores what it has not seen, *)
(* asks a model to reword a few of them, and hands what is urgent to the   *)
(* push service, user by user (context.ts).                                *)
(*                                                                         *)
(* A refresh waits for a source, for the model and for the push service;   *)
(* those are its steps.                                                    *)
(*                                                                         *)
(*   stored, handed   per url, how often it was stored, and per user and   *)
(*                    url how often it was handed over                     *)
(***************************************************************************)
EXTENDS Naturals, Sequences, FiniteSets

CONSTANTS
    Sources,         \* the enabled sources, in the order they are read
    Page,            \* per source, the pages it may serve: sequences of urls
    Urgent,          \* the urls whose words are urgent
    Reader,          \* the users with a subscription
    Starter,         \* what may call refresh()
    MaxEnrich,       \* MAX_ENRICH_PER_REFRESH
    KeptDays,        \* days an item is kept
    LastNewsDay, MaxRefreshes, MaxNewsFaults

Url == UNION {{page[i] : i \in DOMAIN page} : page \in UNION {Page[s] : s \in DOMAIN Page}}

ASSUME NewsAssumption ==
    /\ Sources \in Seq(DOMAIN Page)
    /\ \A s \in DOMAIN Page : \A page \in Page[s] : page \in Seq(Url)
    /\ MaxEnrich \in Nat

VARIABLES cache, broken, running, budget, poll, stored, handed, newsDay, newsOps

newsVars == <<cache, broken, running, budget, poll, stored, handed, newsDay, newsOps>>

NoRefresh == [pc |-> "idle", left |-> 0, items |-> <<>>, urgent |-> {}, found |-> {}, asked |-> 0, readers |-> {}]
SourceOf(c) == Sources[Len(Sources) - poll[c].left + 1]
Continue(c, r) == poll' = [poll EXCEPT ![c] = r]
Fault == newsOps.faults < MaxNewsFaults /\ newsOps' = [newsOps EXCEPT !.faults = @ + 1]

NewsInit ==
    /\ cache = [u \in {} |-> 0]        \* url -> the day it was fetched
    /\ broken = {}                     \* the sources with a last_error
    /\ running = FALSE /\ budget = 0
    /\ poll = [c \in Starter |-> NoRefresh]
    /\ stored = [u \in Url |-> 0]
    /\ handed = [k \in Reader \X Url |-> 0]
    /\ newsDay = 0 /\ newsOps = [begun |-> 0, faults |-> 0]

(* A refresh that does not ask whether one runs. *)
BeginAnyway(c) ==
    /\ poll[c].pc = "idle" /\ newsOps.begun < MaxRefreshes
    /\ running' = TRUE /\ budget' = MaxEnrich
    /\ newsOps' = [newsOps EXCEPT !.begun = @ + 1]
    /\ Continue(c, [NoRefresh EXCEPT !.pc = "source", !.left = Len(Sources)])
    /\ UNCHANGED <<cache, broken, stored, handed, newsDay>>

(* A second refresh is refused while one runs. *)
BeginRefresh(c) ==
    /\ ~running /\ poll[c].pc = "idle" /\ newsOps.begun < MaxRefreshes
    /\ running' = TRUE /\ budget' = MaxEnrich
    /\ newsOps' = [newsOps EXCEPT !.begun = @ + 1]
    /\ Continue(c, [NoRefresh EXCEPT !.pc = "source", !.left = Len(Sources)])
    /\ UNCHANGED <<cache, broken, stored, handed, newsDay>>

(* fetchOne(): the page of the source, or no answer in fifteen seconds, an *)
(* HTTP error, or nothing that can be parsed.                              *)
FetchPage(c) ==
    /\ poll[c].pc = "source" /\ poll[c].left > 0
    /\ \E page \in Page[SourceOf(c)] :
           Continue(c, [poll[c] EXCEPT !.pc = "item", !.items = page, !.found = {}])
    /\ UNCHANGED <<cache, broken, running, budget, stored, handed, newsDay, newsOps>>

(* A source that throws is marked, and what it had found urgent is gone.   *)
SourceFails(c) ==
    /\ broken' = broken \union {SourceOf(c)}
    /\ Continue(c, [poll[c] EXCEPT !.pc = "source", !.left = @ - 1, !.items = <<>>, !.found = {}])

FetchFails(c) ==
    /\ poll[c].pc = "source" /\ poll[c].left > 0
    /\ SourceFails(c) /\ Fault
    /\ UNCHANGED <<cache, running, budget, stored, handed, newsDay>>

-----------------------------------------------------------------------------
(* The items of a page, one after the other. *)

AtItem(c) == poll[c].pc = "item" /\ poll[c].items # <<>>
Seen(u) == u \in DOMAIN cache

PassKnown(c) ==
    /\ AtItem(c) /\ Seen(Head(poll[c].items))
    /\ Continue(c, [poll[c] EXCEPT !.items = Tail(@)])
    /\ UNCHANGED <<cache, broken, running, budget, stored, handed, newsDay, newsOps>>

(* The model is asked for the first few; whatever becomes of it, the item  *)
(* is stored.                                                              *)
AskModel(c) ==
    /\ AtItem(c) /\ ~Seen(Head(poll[c].items)) /\ budget > 0
    /\ budget' = budget - 1
    /\ Continue(c, [poll[c] EXCEPT !.pc = "enrich", !.asked = @ + 1])
    /\ UNCHANGED <<cache, broken, running, stored, handed, newsDay, newsOps>>

(* ON CONFLICT DO NOTHING; an urgent one is counted as new in any case.    *)
StoreItem(c) ==
    /\ \/ poll[c].pc = "enrich"
       \/ AtItem(c) /\ ~Seen(Head(poll[c].items)) /\ budget = 0
    /\ LET u == Head(poll[c].items) IN
       /\ cache' = [v \in DOMAIN cache \union {u} |-> IF v \in DOMAIN cache THEN cache[v] ELSE newsDay]
       /\ stored' = IF Seen(u) THEN stored ELSE [stored EXCEPT ![u] = @ + 1]
       /\ Continue(c, [poll[c] EXCEPT !.pc = "item", !.items = Tail(@),
                                         !.found = @ \union ({u} \intersect Urgent)])
    /\ UNCHANGED <<broken, running, budget, handed, newsDay, newsOps>>

(* The database throws instead. *)
StoreFails(c) ==
    /\ poll[c].pc = "enrich" \/ AtItem(c)
    /\ SourceFails(c) /\ Fault
    /\ UNCHANGED <<cache, running, budget, stored, handed, newsDay>>

SourceDone(c) ==
    /\ poll[c].pc = "item" /\ poll[c].items = <<>>
    /\ broken' = broken \ {SourceOf(c)}
    /\ Continue(c, [poll[c] EXCEPT !.pc = "source", !.left = @ - 1,
                                      !.urgent = @ \union poll[c].found, !.found = {}])
    /\ UNCHANGED <<cache, running, budget, stored, handed, newsDay, newsOps>>

-----------------------------------------------------------------------------
(* prune(60), then the urgent ones are handed to each user in turn. *)

PruneCache(c) ==
    /\ poll[c].pc = "source" /\ poll[c].left = 0
    /\ LET old == {u \in DOMAIN cache : cache[u] + KeptDays < newsDay} IN
       cache' = [u \in DOMAIN cache \ old |-> cache[u]]
    /\ Continue(c, [poll[c] EXCEPT !.pc = "announce", !.readers = IF poll[c].urgent = {} THEN {} ELSE Reader])
    /\ UNCHANGED <<broken, running, budget, stored, handed, newsDay, newsOps>>

(* notifyUrgentNews() for the next user. *)
Announce(c) ==
    /\ poll[c].pc = "announce"
    /\ \E r \in poll[c].readers :
           /\ handed' = [k \in Reader \X Url |->
                            handed[k] + (IF k[1] = r /\ k[2] \in poll[c].urgent THEN 1 ELSE 0)]
           /\ Continue(c, [poll[c] EXCEPT !.readers = @ \ {r}])
    /\ UNCHANGED <<cache, broken, running, budget, stored, newsDay, newsOps>>

(* One that throws takes the rest of the users with it. *)
AnnounceFails(c) ==
    /\ poll[c].pc = "announce" /\ poll[c].readers # {}
    /\ Continue(c, [poll[c] EXCEPT !.readers = {}])
    /\ Fault
    /\ UNCHANGED <<cache, broken, running, budget, stored, handed, newsDay>>

RefreshDone(c) ==
    /\ poll[c].pc = "announce" /\ poll[c].readers = {}
    /\ running' = FALSE
    /\ Continue(c, NoRefresh)
    /\ UNCHANGED <<cache, broken, budget, stored, handed, newsDay, newsOps>>

(* The server stops; what a refresh had in memory is gone. *)
NewsRestart ==
    /\ \E c \in Starter : poll[c].pc # "idle"
    /\ Fault
    /\ running' = FALSE /\ budget' = 0
    /\ poll' = [c \in Starter |-> NoRefresh]
    /\ UNCHANGED <<cache, broken, stored, handed, newsDay>>

NewsDayPasses ==
    /\ newsDay < LastNewsDay
    /\ newsDay' = newsDay + 1
    /\ UNCHANGED <<cache, broken, running, budget, poll, stored, handed, newsOps>>

NewsNext ==
    \/ \E c \in Starter :
           \/ BeginRefresh(c) \/ FetchPage(c) \/ FetchFails(c)
           \/ PassKnown(c) \/ AskModel(c) \/ StoreItem(c) \/ StoreFails(c) \/ SourceDone(c)
           \/ PruneCache(c) \/ Announce(c) \/ AnnounceFails(c) \/ RefreshDone(c)
    \/ NewsRestart \/ NewsDayPasses

NewsSpec == NewsInit /\ [][NewsNext]_newsVars

-----------------------------------------------------------------------------
(* An urgent item that two sources carry, that a second refresh finds, or   *)
(* that a refresh after a failure finds again is handed to a user at most   *)
(* once for each time it was stored (fetchOne and the running flag).        *)
HandedOncePerStoring == \A r \in Reader, u \in Url : handed[<<r, u>>] <= stored[u]

(* A refresh asks the model no more often than the cap allows, though the   *)
(* count is kept for the service and not for the refresh                    *)
(* (MAX_ENRICH_PER_REFRESH).                                                *)
ModelIsAskedWithinCap == \A c \in Starter : poll[c].asked <= MaxEnrich

NewsIsToldOnce == HandedOncePerStoring /\ ModelIsAskedWithinCap

(* docs/08 and context.ts: when the poller finds new urgent items, every    *)
(* subscribed user is notified.  When no refresh runs, whatever urgent item *)
(* was stored has been handed to each.                                      *)
UrgentReachesEveryone ==
    ~running => \A r \in Reader, u \in Urgent \intersect Url : stored[u] > 0 => handed[<<r, u>>] > 0
=============================================================================
