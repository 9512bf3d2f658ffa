------------------------------ MODULE NewsCache ------------------------------
(***************************************************************************)
(* news/news.go: Cache.Get for one of its keys.  The lock covers the       *)
(* lookup and the store; the feeds are fetched in between, one goroutine   *)
(* each, so visits that miss together all fetch and all store.             *)
(*                                                                         *)
(* A list of articles is abstracted to how many articles of each feed it   *)
(* has and when that feed was read.  The articles of a feed enter the list *)
(* as a block when the feed answers, and the list is cut at Cap.  Names    *)
(* that AdminActions has too begin with Nw.                                *)
(***************************************************************************)
EXTENDS Integers, FiniteSets

CONSTANTS
    Visitors,      \* requests for the page, each of them any number of times
    Feeds,         \* urls: the feeds of the page
    PerFeed,       \* articles fetchRSS returns at most: 8
    Cap,           \* articles on a page at most: 12
    TTL,           \* c.ttl
    FetchTimeout,  \* the time limit of fetchRSS
    MaxTime        \* bound on the clock

ASSUME NewsAssumption ==
    /\ PerFeed \in Nat \ {0} /\ Cap \in Nat \ {0}
    /\ TTL \in Nat \ {0} /\ FetchTimeout \in Nat /\ MaxTime \in Nat

(* A page has room for an article of its last feed whatever the others gave:
   gamingFeeds and cyberFeeds are two feeds, of 8 articles in a list of 12. *)
ASSUME FeedsFit ==
    /\ IsFiniteSet(Feeds)
    /\ (Cardinality(Feeds) - 1) * PerFeed < Cap

VARIABLES
    now,           \* time.Now()
    entry,         \* c.m[key]: a page and ts, the time it was stored
    visit,         \* stage of each visit
    begun,         \* when it called Get
    pending,       \* the feeds it still waits for
    page,          \* the list it has gathered, or is shown
    room,          \* Cap less the articles gathered
    lastFail       \* history: when each feed last gave a visit no article

nwVars == <<now, entry, visit, begun, pending, page, room, lastFail>>

Never == -1        \* ts of a key that is not in the map
LongAgo == -(TTL + FetchTimeout)
Blank == [kept |-> [f \in Feeds |-> 0], at |-> [f \in Feeds |-> 0]]
NoEntry == [page |-> Blank, ts |-> Never]

NwInit ==
    /\ now = 0
    /\ entry = NoEntry
    /\ visit = [v \in Visitors |-> "idle"]
    /\ begun = [v \in Visitors |-> 0]
    /\ pending = [v \in Visitors |-> {}]
    /\ page = [v \in Visitors |-> Blank]
    /\ room = [v \in Visitors |-> 0]
    /\ lastFail = [f \in Feeds |-> LongAgo]

-----------------------------------------------------------------------------
NwGo(v, from, to) ==
    /\ visit[v] = from
    /\ visit' = [visit EXCEPT ![v] = to]

Fresh == entry.ts # Never /\ now - entry.ts < TTL

(* Mutant: a hit renews the entry. *)
HitRenews(v) ==
    /\ NwGo(v, "idle", "shown")
    /\ Fresh
    /\ begun' = [begun EXCEPT ![v] = now]
    /\ page' = [page EXCEPT ![v] = entry.page]
    /\ entry' = [entry EXCEPT !.ts = now]
    /\ UNCHANGED <<now, pending, room, lastFail>>

Hit(v) ==
    /\ NwGo(v, "idle", "shown")
    /\ Fresh
    /\ begun' = [begun EXCEPT ![v] = now]
    /\ page' = [page EXCEPT ![v] = entry.page]
    /\ UNCHANGED <<now, entry, pending, room, lastFail>>

(* One goroutine per feed is started. *)
Miss(v) ==
    /\ NwGo(v, "idle", "fetch")
    /\ ~Fresh
    /\ begun' = [begun EXCEPT ![v] = now]
    /\ pending' = [pending EXCEPT ![v] = Feeds]
    /\ room' = [room EXCEPT ![v] = Cap]
    /\ UNCHANGED <<now, entry, page, lastFail>>

(* Mutant: the list is never cut. *)
KeptUncut(free, n) == n

Kept(free, n) == IF n <= free THEN n ELSE free

(* fetchRSS(f) is done with n articles: none when the feed fails, has nothing,
   or takes too long, or when the client of this visit is gone. *)
FeedAnswers(v, f, n) ==
    /\ visit[v] = "fetch"
    /\ f \in pending[v]
    /\ pending' = [pending EXCEPT ![v] = @ \ {f}]
    /\ LET k == Kept(room[v], n) IN
          /\ page' = [page EXCEPT ![v].kept[f] = k,
                                  ![v].at[f] = IF k > 0 THEN now ELSE 0]
          /\ room' = [room EXCEPT ![v] = @ - k]
    /\ lastFail' = [lastFail EXCEPT ![f] = IF n = 0 THEN now ELSE @]
    /\ UNCHANGED <<now, entry, visit, begun>>

(* Mutant: Get does not wait for its slowest feed. *)
StoreFirstOnly(v) ==
    /\ NwGo(v, "fetch", "shown")
    /\ pending[v] # Feeds
    /\ entry' = [page |-> page[v], ts |-> now]
    /\ UNCHANGED <<now, begun, pending, page, room, lastFail>>

(* All feeds are in; the list is stored, whatever it holds and whatever is
   in the map by now, and returned. *)
Store(v) ==
    /\ NwGo(v, "fetch", "shown")
    /\ pending[v] = {}
    /\ entry' = [page |-> page[v], ts |-> now]
    /\ UNCHANGED <<now, begun, pending, page, room, lastFail>>

Leave(v) ==
    /\ NwGo(v, "shown", "idle")
    /\ begun' = [begun EXCEPT ![v] = 0]
    /\ pending' = [pending EXCEPT ![v] = {}]
    /\ page' = [page EXCEPT ![v] = Blank]
    /\ room' = [room EXCEPT ![v] = 0]
    /\ UNCHANGED <<now, entry, lastFail>>

(* NewCache, in a new process. *)
Restart ==
    /\ entry' = NoEntry
    /\ visit' = [v \in Visitors |-> "idle"]
    /\ begun' = [v \in Visitors |-> 0]
    /\ pending' = [v \in Visitors |-> {}]
    /\ page' = [v \in Visitors |-> Blank]
    /\ room' = [v \in Visitors |-> 0]
    /\ UNCHANGED <<now, lastFail>>

(* The time limit of fetchRSS: no visit gathers for longer. *)
Tick ==
    /\ now < MaxTime
    /\ \A v \in Visitors : visit[v] = "fetch" => now - begun[v] < FetchTimeout
    /\ now' = now + 1
    /\ UNCHANGED <<entry, visit, begun, pending, page, room, lastFail>>

NwNext ==
    \/ \E v \in Visitors :
          \/ Hit(v) \/ Miss(v) \/ Store(v) \/ Leave(v)
          \/ \E f \in Feeds, n \in 0 .. PerFeed : FeedAnswers(v, f, n)
    \/ Restart
    \/ Tick

NewsSpec == NwInit /\ [][NwNext]_nwVars

-----------------------------------------------------------------------------
Pages == [kept : [Feeds -> 0 .. PerFeed], at : [Feeds -> Nat]]

(* The shapes of the cache and of a visit. *)
NwTypeOK ==
    /\ now \in Nat
    /\ entry \in [page : Pages, ts : Nat \cup {Never}]
    /\ visit \in [Visitors -> {"idle", "fetch", "shown"}]
    /\ begun \in [Visitors -> Nat]
    /\ pending \in [Visitors -> SUBSET Feeds]
    /\ page \in [Visitors -> Pages]
    /\ room \in [Visitors -> 0 .. Cap]
    /\ lastFail \in [Feeds -> Int]

(* The list a visit gathers was read during the visit, within the time limit;
   the entry was read at most a time limit before it was stored, even when
   slower visits have overwritten newer lists. *)
Gathered ==
    /\ \A v \in Visitors :
          /\ begun[v] <= now
          /\ visit[v] = "idle" => page[v] = Blank /\ begun[v] = 0
          /\ visit[v] = "fetch" =>
                /\ now - begun[v] <= FetchTimeout
                /\ \A f \in Feeds :
                      /\ f \in pending[v] => page[v].kept[f] = 0
                      /\ page[v].kept[f] > 0 => page[v].at[f] \in begun[v] .. now
    /\ entry.ts <= now
    /\ entry.ts = Never => entry = NoEntry
    /\ \A f \in Feeds : entry.page.kept[f] > 0 =>
          entry.page.at[f] \in (entry.ts - FetchTimeout) .. entry.ts

(* No article on a page was read longer ago than a lifetime of the cache and
   a time limit, whoever fetched it and whoever overwrote it (Cache.Get). *)
FreshPages ==
    \A v \in Visitors, f \in Feeds :
        visit[v] = "shown" /\ page[v].kept[f] > 0 =>
            begun[v] - page[v].at[f] < TTL + FetchTimeout

NwIInv == NwTypeOK /\ Gathered /\ FreshPages

(* A feed is missing from a page only if it gave somebody nothing not longer
   ago than that: no failure is remembered for longer, and with two feeds of
   8 articles in a list of 12 a quick feed never squeezes out a slow one. *)
MissingMeansFailed ==
    \A v \in Visitors, f \in Feeds :
        visit[v] = "shown" /\ page[v].kept[f] = 0 =>
            begun[v] - lastFail[f] < TTL + FetchTimeout

(* A visit has used no more room than the feeds that have answered it can
   fill. *)
RoomLeft ==
    \A v \in Visitors :
        visit[v] = "fetch" => Cap <= room[v] + PerFeed * Cardinality(Feeds \ pending[v])

(* A feed that is missing from a list that is being gathered failed during the
   visit; one missing from the entry, at most a time limit before it was
   stored. *)
FailKnown ==
    /\ \A f \in Feeds : lastFail[f] <= now
    /\ \A v \in Visitors : visit[v] = "fetch" =>
          \A f \in Feeds \ pending[v] :
              page[v].kept[f] = 0 => begun[v] <= lastFail[f]
    /\ entry.ts # Never =>
          \A f \in Feeds : entry.page.kept[f] = 0 =>
              entry.ts - lastFail[f] <= FetchTimeout

NewsInv == NwIInv /\ RoomLeft /\ FailKnown /\ MissingMeansFailed
=============================================================================
