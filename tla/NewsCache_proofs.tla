-------------------------- MODULE NewsCache_proofs --------------------------
(***************************************************************************)
(* Proofs about NewsCache for any visitors and feeds, any lifetime, time   *)
(* limit and list lengths: how old an article on a page can be, and how    *)
(* long ago a feed failed that is missing from one.                        *)
(***************************************************************************)
EXTENDS NewsCache, TLAPS, FiniteSetTheorems

LEMMA BlankPage ==
    /\ Blank \in Pages
    /\ \A f \in Feeds : Blank.kept[f] = 0
BY NewsAssumption DEF Blank, Pages

LEMMA InitIInv == NwInit => NwIInv
<1> SUFFICES ASSUME NwInit PROVE NwIInv
  OBVIOUS
<1>1. NwTypeOK
  BY NewsAssumption, BlankPage DEF NwInit, NwTypeOK, NoEntry, Never, LongAgo
<1>2. Gathered /\ FreshPages
  BY NewsAssumption, BlankPage DEF NwInit, Gathered, FreshPages, NoEntry, Never
<1> QED
  BY <1>1, <1>2 DEF NwIInv

(* What the arrival of a feed does to the list a visit gathers. *)
LEMMA AnswerEffect ==
    ASSUME NwIInv, NEW v \in Visitors, NEW f \in Feeds, NEW n \in 0 .. PerFeed,
           FeedAnswers(v, f, n)
    PROVE  /\ page' \in [Visitors -> Pages]
           /\ room' \in [Visitors -> 0 .. Cap]
           /\ \A w \in Visitors : w # v => page'[w] = page[w]
           /\ \A g \in Feeds : g # f => /\ page'[v].kept[g] = page[v].kept[g]
                                        /\ page'[v].at[g] = page[v].at[g]
           /\ page'[v].kept[f] > 0 => page'[v].at[f] = now
<1> DEFINE k == Kept(room[v], n)
<1>1. k \in 0 .. PerFeed /\ room[v] - k \in 0 .. Cap
  BY NewsAssumption DEF NwIInv, NwTypeOK, Kept
<1>2. /\ page' = [page EXCEPT ![v].kept[f] = k, ![v].at[f] = IF k > 0 THEN now ELSE 0]
      /\ room' = [room EXCEPT ![v] = @ - k]
  BY DEF FeedAnswers
<1>3. page[v] \in Pages /\ now \in Nat /\ page \in [Visitors -> Pages]
      /\ room \in [Visitors -> 0 .. Cap]
  BY DEF NwIInv, NwTypeOK
<1> HIDE DEF k
<1>4. page'[v] = [kept |-> [page[v].kept EXCEPT ![f] = k],
                  at   |-> [page[v].at EXCEPT ![f] = IF k > 0 THEN now ELSE 0]]
  BY <1>2, <1>3 DEF Pages
<1>5. page'[v] \in Pages
  BY <1>1, <1>3, <1>4 DEF Pages
<1>6. \A w \in Visitors : w # v => page'[w] = page[w]
  BY <1>2, <1>3
<1>7. page' \in [Visitors -> Pages]
  BY <1>2, <1>3, <1>5, <1>6
<1> QED
  BY <1>1, <1>2, <1>3, <1>4, <1>6, <1>7 DEF Pages

LEMMA NextIInv == NwIInv /\ [NwNext]_nwVars => NwIInv'
<1> SUFFICES ASSUME NwIInv, [NwNext]_nwVars PROVE NwIInv'
  OBVIOUS
<1> USE NewsAssumption DEF NwIInv
<1>1. ASSUME NEW v \in Visitors, Hit(v) PROVE NwIInv'
  <2>1. entry.ts \in Nat /\ entry.page \in Pages /\ now - entry.ts < TTL
    BY <1>1 DEF Hit, Fresh, NwTypeOK, Never
  <2>2. NwTypeOK'
    BY <1>1, <2>1 DEF Hit, NwGo, NwTypeOK
  <2>3. Gathered'
    BY <1>1 DEF Hit, NwGo, NwTypeOK, Gathered
  <2>4. FreshPages'
    BY <1>1, <2>1 DEF Hit, NwGo, NwTypeOK, Gathered, FreshPages, Pages
  <2> QED
    BY <2>2, <2>3, <2>4
<1>2. ASSUME NEW v \in Visitors, Miss(v) PROVE NwIInv'
  <2>1. NwTypeOK'
    BY <1>2 DEF Miss, NwGo, NwTypeOK
  <2>2. Gathered'
    BY <1>2, BlankPage DEF Miss, NwGo, NwTypeOK, Gathered, NoEntry
  <2>3. FreshPages'
    BY <1>2 DEF Miss, NwGo, NwTypeOK, FreshPages
  <2> QED
    BY <2>1, <2>2, <2>3
<1>3. ASSUME NEW v \in Visitors, NEW f \in Feeds, NEW n \in 0 .. PerFeed,
             FeedAnswers(v, f, n)
      PROVE  NwIInv'
  <2>1. /\ page' \in [Visitors -> Pages]
        /\ room' \in [Visitors -> 0 .. Cap]
        /\ \A w \in Visitors : w # v => page'[w] = page[w]
        /\ \A g \in Feeds : g # f => /\ page'[v].kept[g] = page[v].kept[g]
                                     /\ page'[v].at[g] = page[v].at[g]
        /\ page'[v].kept[f] > 0 => page'[v].at[f] = now
    BY <1>3, AnswerEffect
  <2>2. /\ visit[v] = "fetch" /\ f \in pending[v]
        /\ pending' = [pending EXCEPT ![v] = @ \ {f}]
        /\ UNCHANGED <<now, entry, visit, begun>>
        /\ lastFail' = [lastFail EXCEPT ![f] = IF n = 0 THEN now ELSE @]
    BY <1>3 DEF FeedAnswers
  <2>3. NwTypeOK'
    BY <2>1, <2>2 DEF NwTypeOK
  <2>4. Gathered'
    <3>1. \A w \in Visitors : w # v => pending'[w] = pending[w]
      BY <2>2 DEF NwTypeOK
    <3>2. begun[v] <= now /\ now \in Nat /\ begun[v] \in Nat
      BY DEF NwTypeOK, Gathered
    <3>3. pending'[v] = pending[v] \ {f}
      BY <2>2 DEF NwTypeOK
    <3>4. \A g \in Feeds :
             /\ g \in pending'[v] => page'[v].kept[g] = 0
             /\ page'[v].kept[g] > 0 => page'[v].at[g] \in begun[v] .. now
      BY <2>1, <2>2, <3>2, <3>3 DEF Gathered
    <3> QED
      BY <2>1, <2>2, <3>1, <3>2, <3>4 DEF Gathered
  <2>5. FreshPages'
    BY <2>1, <2>2 DEF FreshPages
  <2> QED
    BY <2>3, <2>4, <2>5
<1>4. ASSUME NEW v \in Visitors, Store(v) PROVE NwIInv'
  <2>1. NwTypeOK'
    BY <1>4 DEF Store, NwGo, NwTypeOK
  <2>2. Gathered'
    BY <1>4 DEF Store, NwGo, NwTypeOK, Gathered, Never, Pages
  <2>3. FreshPages'
    BY <1>4 DEF Store, NwGo, NwTypeOK, Gathered, FreshPages, Pages
  <2> QED
    BY <2>1, <2>2, <2>3
<1>5. ASSUME NEW v \in Visitors, Leave(v) PROVE NwIInv'
  <2>1. NwTypeOK'
    BY <1>5, BlankPage DEF Leave, NwGo, NwTypeOK
  <2>2. Gathered' /\ FreshPages'
    BY <1>5, BlankPage DEF Leave, NwGo, NwTypeOK, Gathered, FreshPages, NoEntry
  <2> QED
    BY <2>1, <2>2
<1>6. CASE Restart
  <2>1. NwTypeOK'
    BY <1>6, BlankPage DEF Restart, NwTypeOK, NoEntry, Never
  <2>2. Gathered' /\ FreshPages'
    BY <1>6, BlankPage DEF Restart, NwTypeOK, Gathered, FreshPages, NoEntry, Never
  <2> QED
    BY <2>1, <2>2
<1>7. CASE Tick
  BY <1>7, BlankPage DEF Tick, NwTypeOK, Gathered, FreshPages, NoEntry, Never
<1>8. CASE UNCHANGED nwVars
  BY <1>8 DEF nwVars, NwTypeOK, Gathered, FreshPages, NoEntry, Never, Blank
<1> QED
  BY <1>1, <1>2, <1>3, <1>4, <1>5, <1>6, <1>7, <1>8 DEF NwNext

(* The room for a feed that has not answered. *)
LEMMA SomeRoom ==
  ASSUME NwIInv, RoomLeft, NEW v \in Visitors, visit[v] = "fetch", NEW f \in pending[v]
  PROVE  /\ room[v] \in Nat /\ room[v] > 0
         /\ Cardinality(Feeds \ pending[v]) \in Nat
         /\ Cardinality(Feeds \ (pending[v] \ {f})) = Cardinality(Feeds \ pending[v]) + 1
<1> DEFINE answered == Feeds \ pending[v]
           c == Cardinality(answered)
           n == Cardinality(Feeds)
<1>1. /\ f \in Feeds /\ room[v] \in Nat /\ PerFeed \in Nat /\ Cap \in Nat
      /\ pending[v] \subseteq Feeds
  BY NewsAssumption DEF NwIInv, NwTypeOK
<1>2. IsFiniteSet(answered)
  BY FeedsFit, FS_Subset
<1>3. Feeds \ (pending[v] \ {f}) = answered \cup {f} /\ f \notin answered
  BY <1>1
<1>4. IsFiniteSet(answered \cup {f}) /\ Cardinality(answered \cup {f}) = c + 1
  BY <1>2, <1>3, FS_AddElement
<1>5. c \in Nat /\ n \in Nat
  BY <1>2, FeedsFit, FS_CardinalityType
<1>6. c + 1 <= n
  <2>1. answered \cup {f} \in SUBSET Feeds
    BY <1>1
  <2> QED
    BY <1>4, <2>1, FeedsFit, FS_Subset
<1>7. Cap <= room[v] + PerFeed * c
  BY DEF RoomLeft
<1>8. (n - 1) * PerFeed < Cap
  BY FeedsFit
<1> HIDE DEF c, n
<1>9. PerFeed * c <= (n - 1) * PerFeed
  BY <1>1, <1>5, <1>6
<1>10. PerFeed * c \in Nat /\ (n - 1) * PerFeed \in Nat
  BY <1>1, <1>5, <1>6
<1>11. room[v] > 0
  BY <1>1, <1>7, <1>8, <1>9, <1>10
<1> QED
  BY <1>1, <1>3, <1>4, <1>5, <1>11 DEF c

LEMMA AnswerKeepsRoom ==
  ASSUME NwIInv, RoomLeft, NEW v \in Visitors, NEW f \in Feeds, NEW n \in 0 .. PerFeed,
         FeedAnswers(v, f, n)
  PROVE  RoomLeft'
<1> DEFINE k == Kept(room[v], n)
           c == Cardinality(Feeds \ pending[v])
<1>1. /\ visit[v] = "fetch" /\ f \in pending[v] /\ visit' = visit
      /\ pending' = [pending EXCEPT ![v] = @ \ {f}]
      /\ room' = [room EXCEPT ![v] = @ - k]
  BY DEF FeedAnswers
<1>2. /\ room \in [Visitors -> 0 .. Cap] /\ pending \in [Visitors -> SUBSET Feeds]
      /\ PerFeed \in Nat /\ Cap \in Nat
  BY NewsAssumption DEF NwIInv, NwTypeOK
<1>3. /\ room[v] \in Nat /\ c \in Nat
      /\ Cardinality(Feeds \ (pending[v] \ {f})) = c + 1
  BY <1>1, SomeRoom
<1>4. k \in Nat /\ k <= PerFeed
  BY <1>2, <1>3 DEF Kept
<1>5. Cap <= room[v] + PerFeed * c
  BY <1>1 DEF RoomLeft
<1> HIDE DEF k, c
<1>6. PerFeed * (c + 1) = PerFeed * c + PerFeed /\ PerFeed * c \in Nat
  BY <1>2, <1>3
<1>7. Cap <= (room[v] - k) + PerFeed * (c + 1)
  BY <1>2, <1>3, <1>4, <1>5, <1>6
<1>8. /\ room'[v] = room[v] - k /\ pending'[v] = pending[v] \ {f}
      /\ \A w \in Visitors \ {v} : room'[w] = room[w] /\ pending'[w] = pending[w]
  BY <1>1, <1>2
<1> QED
  BY <1>1, <1>3, <1>7, <1>8 DEF RoomLeft

LEMMA NextRoom == NwIInv /\ RoomLeft /\ [NwNext]_nwVars => RoomLeft'
<1> SUFFICES ASSUME NwIInv, RoomLeft, [NwNext]_nwVars PROVE RoomLeft'
  OBVIOUS
<1> USE NewsAssumption
<1>1. ASSUME NEW v \in Visitors, Hit(v) \/ Store(v) \/ Leave(v) PROVE RoomLeft'
  <2>1. /\ visit'[v] # "fetch"
        /\ \A w \in Visitors \ {v} :
              visit'[w] = visit[w] /\ room'[w] = room[w] /\ pending'[w] = pending[w]
    BY <1>1 DEF Hit, Store, Leave, NwGo, NwIInv, NwTypeOK
  <2> QED
    BY <2>1 DEF RoomLeft
<1>2. ASSUME NEW v \in Visitors, Miss(v) PROVE RoomLeft'
  <2>1. /\ room'[v] = Cap /\ pending'[v] = Feeds
        /\ \A w \in Visitors \ {v} :
              visit'[w] = visit[w] /\ room'[w] = room[w] /\ pending'[w] = pending[w]
    BY <1>2 DEF Miss, NwGo, NwIInv, NwTypeOK
  <2>2. Feeds \ Feeds = {} /\ Cardinality({}) = 0
    BY FS_EmptySet
  <2>3. PerFeed * 0 = 0 /\ Cap + 0 = Cap /\ Cap <= Cap
    BY ONLY NewsAssumption
  <2>4. Cap <= room'[v] + PerFeed * Cardinality(Feeds \ pending'[v])
    BY <2>1, <2>2, <2>3
  <2> QED
    BY <2>1, <2>4 DEF RoomLeft
<1>3. ASSUME NEW v \in Visitors, NEW f \in Feeds, NEW n \in 0 .. PerFeed,
             FeedAnswers(v, f, n)
      PROVE  RoomLeft'
  BY <1>3, AnswerKeepsRoom
<1>4. CASE Restart
  BY <1>4 DEF Restart, RoomLeft
<1>5. CASE Tick \/ UNCHANGED nwVars
  BY <1>5 DEF Tick, nwVars, RoomLeft
<1> QED
  BY <1>1, <1>2, <1>3, <1>4, <1>5 DEF NwNext

Missing == RoomLeft /\ FailKnown /\ MissingMeansFailed

LEMMA NextFail == NwIInv /\ Missing /\ [NwNext]_nwVars => (FailKnown /\ MissingMeansFailed)'
<1> SUFFICES ASSUME NwIInv, Missing, [NwNext]_nwVars PROVE FailKnown' /\ MissingMeansFailed'
  OBVIOUS
<1> USE NewsAssumption DEF Missing
<1>1. /\ now \in Nat /\ lastFail \in [Feeds -> Int] /\ begun \in [Visitors -> Nat]
      /\ entry \in [page : Pages, ts : Nat \cup {Never}]
      /\ visit \in [Visitors -> {"idle", "fetch", "shown"}]
      /\ page \in [Visitors -> Pages] /\ pending \in [Visitors -> SUBSET Feeds]
  BY DEF NwIInv, NwTypeOK
<1>2. ASSUME NEW v \in Visitors, Hit(v) PROVE FailKnown' /\ MissingMeansFailed'
  <2>1. /\ entry.ts # Never /\ now - entry.ts < TTL /\ entry.ts \in Nat
        /\ visit' = [visit EXCEPT ![v] = "shown"] /\ begun' = [begun EXCEPT ![v] = now]
        /\ page' = [page EXCEPT ![v] = entry.page]
        /\ UNCHANGED <<now, entry, pending, lastFail>>
    BY <1>1, <1>2 DEF Hit, NwGo, Fresh, Never
  <2>2. FailKnown'
    BY <1>1, <2>1 DEF FailKnown
  <2>3. ASSUME NEW f \in Feeds, entry.page.kept[f] = 0
        PROVE  now - lastFail[f] < TTL + FetchTimeout
    <3>1. entry.ts - lastFail[f] <= FetchTimeout
      BY <2>1, <2>3 DEF FailKnown
    <3> QED
      BY <1>1, <2>1, <3>1
  <2>4. MissingMeansFailed'
    BY <1>1, <2>1, <2>3 DEF MissingMeansFailed
  <2> QED
    BY <2>2, <2>4
<1>3. ASSUME NEW v \in Visitors, Miss(v) PROVE FailKnown' /\ MissingMeansFailed'
  <2>1. /\ visit' = [visit EXCEPT ![v] = "fetch"] /\ begun' = [begun EXCEPT ![v] = now]
        /\ pending' = [pending EXCEPT ![v] = Feeds]
        /\ UNCHANGED <<now, entry, page, lastFail>>
    BY <1>3 DEF Miss, NwGo
  <2>2. FailKnown'
    BY <1>1, <2>1 DEF FailKnown
  <2>3. MissingMeansFailed'
    BY <1>1, <2>1 DEF MissingMeansFailed
  <2> QED
    BY <2>2, <2>3
<1>4. ASSUME NEW v \in Visitors, NEW f \in Feeds, NEW n \in 0 .. PerFeed,
             FeedAnswers(v, f, n)
      PROVE  FailKnown' /\ MissingMeansFailed'
  <2>1. /\ \A w \in Visitors : w # v => page'[w] = page[w]
        /\ \A g \in Feeds : g # f => page'[v].kept[g] = page[v].kept[g]
    BY <1>4, AnswerEffect
  <2>2. /\ visit[v] = "fetch" /\ f \in pending[v]
        /\ pending' = [pending EXCEPT ![v] = @ \ {f}]
        /\ UNCHANGED <<now, entry, visit, begun>>
        /\ lastFail' = [lastFail EXCEPT ![f] = IF n = 0 THEN now ELSE @]
    BY <1>4 DEF FeedAnswers
  <2>3. \A g \in Feeds : /\ lastFail'[g] \in Int
                         /\ lastFail[g] <= lastFail'[g] /\ lastFail'[g] <= now
    BY <1>1, <2>2 DEF FailKnown
  <2>4. ASSUME page'[v].kept[f] = 0 PROVE lastFail'[f] = now
    <3>1. room[v] \in Nat /\ room[v] > 0
      BY <2>2, SomeRoom
    <3>2. page'[v].kept[f] = Kept(room[v], n)
      BY <1>1, <1>4 DEF FeedAnswers, Pages
    <3>3. n = 0
      BY <2>4, <3>1, <3>2 DEF Kept
    <3> QED
      BY <1>1, <2>2, <3>3
  <2>5. FailKnown'
    <3>1. \A g \in Feeds : lastFail'[g] <= now'
      BY <2>2, <2>3
    <3>2. ASSUME NEW w \in Visitors, visit'[w] = "fetch",
                 NEW g \in Feeds \ pending'[w], page'[w].kept[g] = 0
          PROVE  begun'[w] <= lastFail'[g]
      <4>1. begun[w] \in Nat /\ begun[w] <= now /\ g \in Feeds /\ lastFail[g] \in Int
        BY <1>1 DEF NwIInv, Gathered
      <4>2. CASE w = v /\ g = f
        BY <2>2, <2>4, <3>2, <4>1, <4>2
      <4>3. CASE ~ (w = v /\ g = f)
        <5>1. g \notin pending[w]
          BY <1>1, <2>2, <3>2, <4>3
        <5>2. page[w].kept[g] = 0
          BY <2>1, <3>2, <4>1, <4>3
        <5>3. begun[w] <= lastFail[g]
          BY <2>2, <3>2, <4>1, <5>1, <5>2 DEF FailKnown
        <5> QED
          BY <2>2, <2>3, <4>1, <5>3
      <4> QED
        BY <4>2, <4>3
    <3>3. ASSUME entry'.ts # Never, NEW g \in Feeds, entry'.page.kept[g] = 0
          PROVE  entry'.ts - lastFail'[g] <= FetchTimeout
      <4>1. entry.ts \in Nat /\ lastFail[g] \in Int
        BY <1>1, <2>2, <3>3
      <4>2. entry.ts - lastFail[g] <= FetchTimeout
        BY <2>2, <3>3 DEF FailKnown
      <4> QED
        BY <2>2, <2>3, <4>1, <4>2
    <3> QED
      BY <3>1, <3>2, <3>3 DEF FailKnown
  <2>6. MissingMeansFailed'
    <3> SUFFICES ASSUME NEW w \in Visitors, NEW g \in Feeds,
                        visit'[w] = "shown", page'[w].kept[g] = 0
                 PROVE  begun'[w] - lastFail'[g] < TTL + FetchTimeout
      BY DEF MissingMeansFailed
    <3>1. w # v /\ page[w].kept[g] = 0 /\ visit[w] = "shown"
      BY <2>1, <2>2
    <3>2. begun[w] - lastFail[g] < TTL + FetchTimeout /\ begun[w] \in Nat /\ lastFail[g] \in Int
      BY <1>1, <3>1 DEF MissingMeansFailed
    <3> QED
      BY <2>2, <2>3, <3>2
  <2> QED
    BY <2>5, <2>6
<1>5. ASSUME NEW v \in Visitors, Store(v) PROVE FailKnown' /\ MissingMeansFailed'
  <2>1. /\ visit[v] = "fetch" /\ pending[v] = {}
        /\ visit' = [visit EXCEPT ![v] = "shown"] /\ entry' = [page |-> page[v], ts |-> now]
        /\ UNCHANGED <<now, begun, pending, page, lastFail>>
    BY <1>5 DEF Store, NwGo
  <2>2. now - begun[v] <= FetchTimeout /\ begun[v] \in Nat
    BY <1>1, <2>1 DEF NwIInv, Gathered
  <2>3. \A f \in Feeds : page[v].kept[f] = 0 => begun[v] <= lastFail[f]
    BY <2>1 DEF FailKnown
  <2>4. \A f \in Feeds : page[v].kept[f] = 0 =>
            /\ now - lastFail[f] <= FetchTimeout
            /\ begun[v] - lastFail[f] < TTL + FetchTimeout
    BY <1>1, <2>2, <2>3
  <2>5. FailKnown'
    BY <1>1, <2>1, <2>4 DEF FailKnown
  <2>6. MissingMeansFailed'
    BY <1>1, <2>1, <2>4 DEF MissingMeansFailed
  <2> QED
    BY <2>5, <2>6
<1>6. ASSUME NEW v \in Visitors, Leave(v) PROVE FailKnown' /\ MissingMeansFailed'
  <2>1. /\ visit' = [visit EXCEPT ![v] = "idle"]
        /\ \A w \in Visitors \ {v} :
              begun'[w] = begun[w] /\ page'[w] = page[w] /\ pending'[w] = pending[w]
        /\ UNCHANGED <<now, entry, lastFail>>
    BY <1>1, <1>6 DEF Leave, NwGo
  <2> QED
    BY <1>1, <2>1 DEF FailKnown, MissingMeansFailed
<1>7. CASE Restart
  BY <1>1, <1>7 DEF Restart, NoEntry, FailKnown, MissingMeansFailed
<1>8. CASE Tick
  BY <1>1, <1>8 DEF Tick, FailKnown, MissingMeansFailed
<1>9. CASE UNCHANGED nwVars
  BY <1>9 DEF nwVars, FailKnown, MissingMeansFailed
<1> QED
  BY <1>2, <1>3, <1>4, <1>5, <1>6, <1>7, <1>8, <1>9 DEF NwNext

(* The invariant of the cache: how far apart reading and storing a list can be,
   and so how old a page; and what is known of a feed with no article on it
   (Cache.Get, fetchRSS). *)
THEOREM NewsInvariant == NewsSpec => []NewsInv
<1>1. NwInit => NewsInv
  <2> SUFFICES ASSUME NwInit PROVE NewsInv
    OBVIOUS
  <2>1. RoomLeft /\ FailKnown /\ MissingMeansFailed
    BY NewsAssumption DEF NwInit, NoEntry, Never, LongAgo, RoomLeft, FailKnown, MissingMeansFailed
  <2> QED
    BY <2>1, InitIInv DEF NewsInv
<1>2. NewsInv /\ [NwNext]_nwVars => NewsInv'
  BY NextIInv, NextRoom, NextFail DEF NewsInv, Missing
<1> QED
  BY <1>1, <1>2, PTL DEF NewsSpec

(* How old an article on a page can be, whatever the visits that miss together
   store over each other (Cache.Get). *)
THEOREM PagesAreFresh == NewsSpec => []FreshPages
<1>1. NewsInv => FreshPages
  BY DEF NewsInv, NwIInv
<1> QED
  BY <1>1, NewsInvariant, PTL

(* A feed with no article on a page has failed, for the visit that gathered the
   page or since, not longer ago than that (Cache.Get, the cut at 12). *)
THEOREM MissingFeedsFailed == NewsSpec => []MissingMeansFailed
<1>1. NewsInv => MissingMeansFailed
  BY DEF NewsInv
<1> QED
  BY <1>1, NewsInvariant, PTL
=============================================================================
