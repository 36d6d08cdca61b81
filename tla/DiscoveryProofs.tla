--------------------------- MODULE DiscoveryProofs ---------------------------
(***************************************************************************)
(* Proofs about Discovery, for every number of agents, page size, change   *)
(* of the tables, retry and cached answer: what keyset and what offset     *)
(* pagination promise over tables that are written between two pages.      *)
(*                                                                         *)
(* A rank is a cardinality, so the argument rests on finite sets: ranks    *)
(* follow the order, no two rows share one, and every rank is taken.       *)
(***************************************************************************)
EXTENDS Discovery, FiniteSetTheorems, TLAPS

-----------------------------------------------------------------------------
(* The inductive invariant *)

\* The state keeps its types, and so does what a cache holds.
Walks == [listing : Listings, pc : {"asking", "done", "failed"}, attempt : Nat,
          accepted : BOOLEAN, at : Places, seen : [Agents -> Nat], reused : BOOLEAN]
PagesOf == [rows : SUBSET Agents, next : Places \cup {None}]
Entries == [at : Places, limit : Limits, page : PagesOf]
DiscoveryTypes ==
    /\ table \in [Agents -> Rows \cup {None}]
    /\ relevance \in [Agents -> Relevances]
    /\ cache \subseteq Entries
    /\ walk \in Walks
    /\ touched \subseteq Agents
    /\ sank \in BOOLEAN
    /\ changes \in Nat /\ walks \in Nat

\* A place is of the listing walked, unless a caller changed the query of a
\* cursor, and such a walk never ends well.
PlaceFits ==
    walk.listing \notin Discover \/ walk.at.of \notin Discover \/ walk.pc = "done" =>
       walk.at.of = walk.listing

\* The agent is listed and the place is past it.
Passed(at, id) ==
    id \in Listed(at.of) /\ ~After(at.of, at.key, Key(at.of, table, id))

\* While a walk by cursor goes on, the unchanged agents it has seen are exactly
\* the ones its place is past.
CursorInv ==
    walk.at.of \in Discover =>
       \A id \in Agents \ touched :
          /\ walk.pc = "asking" => walk.seen[id] = (IF Passed(walk.at, id) THEN 1 ELSE 0)
          /\ walk.seen[id] <= 1
          /\ walk.pc = "done" /\ id \in Listed(walk.at.of) => walk.seen[id] = 1

\* A page goes on where it ends.
Continues(at, page) ==
    page.next # None =>
       /\ page.next.of = at.of /\ page.next.key # None
       /\ After(at.of, at.key, page.next.key)

\* An agent is on the page if and only if it lies between its place and the next.
Between(at, page, id) ==
    id \in page.rows <=>
       /\ id \in Listed(at.of)
       /\ After(at.of, at.key, Key(at.of, table, id))
       /\ page.next = None \/ ~After(at.of, page.next.key, Key(at.of, table, id))

\* What a cache holds is still right about the agents nobody changed.
CacheInv ==
    \A e \in cache :
       /\ e.page.next # None => e.page.next.of = e.at.of
       /\ e.at.of \in Discover =>
             /\ Continues(e.at, e.page)
             /\ \A id \in Agents \ touched : Between(e.at, e.page, id)

\* The one page size of a walk by page number.
PageSize == CHOOSE n \in Limits : TRUE

\* While a walk by page number goes on and nothing sank, an unchanged agent not
\* seen yet ranks on this page or a later one.
OffsetInv ==
    walk.listing \in GetAgents \cup WebLists /\ walks > 0 /\ ~sank /\ ~walk.reused =>
       \A id \in Listed(walk.listing) \ touched :
          /\ walk.pc = "asking" =>
                \/ walk.seen[id] >= 1
                \/ Rank(walk.listing, Listed(walk.listing), id) >= Offset(walk.at.page, PageSize)
          /\ walk.pc = "done" => walk.seen[id] >= 1

DiscoveryInv == DiscoveryTypes /\ PlaceFits /\ CursorInv /\ CacheInv /\ OffsetInv

-----------------------------------------------------------------------------
(* Order and ranks *)

\* A listing sorts by one of five keys, and only the agents list by relevance.
LEMMA ListingSorts ==
  ASSUME NEW l \in Listings
  PROVE  /\ l.sort \in {"score", "feedback", "newest", "rank", "id"}
         /\ l \in Discover => l.sort # "rank"
  BY DEF Listings, Discover, GetAgents, Search, WebLists, AgentsLists, Listing

\* Every agent has a relevance, whatever the listing.
LEMMA RelevantType ==
  ASSUME NEW l
  PROVE  Relevant(l) \subseteq [Agents -> Relevances]
<1>1. (CHOOSE x \in Relevances : TRUE) \in Relevances
  BY DiscoveryAssumption
<1> QED
  BY <1>1 DEF Relevant

\* A listed row has a key, and the id breaks its ties.
LEMMA KeyType ==
  ASSUME NEW l \in Listings, NEW t \in [Agents -> Rows \cup {None}],
         relevance \in [Agents -> Relevances], NEW id \in Agents, t[id] # None
  PROVE  Key(l, t, id) \in Keys /\ Key(l, t, id)[2] = id
<1>1. t[id].standing.score \in Int /\ t[id].standing.feedback \in Int
  <2>1. t[id].standing \in Standings
    BY DEF Rows
  <2>2. t[id].standing \in [score : Int, feedback : Nat]
    BY <2>1, DiscoveryAssumption
  <2> QED
    BY <2>2
<1>2. SCORE(t[id].standing.score) \in Int
  BY <1>1 DEF SCORE
<1>3. Created[id] \in Int /\ id \in Int /\ relevance[id] \in Int
  <2>1. Created[id] \in Int /\ id \in Int
    BY DiscoveryAssumption DEF Agents
  <2>2. relevance[id] \in Relevances
    OBVIOUS
  <2> QED
    BY <2>1, <2>2, DiscoveryAssumption
<1>4. PICK k \in Int : Key(l, t, id) = <<k, id>>
  BY <1>1, <1>2, <1>3, ListingSorts DEF Key
<1> QED
  BY <1>4 DEF Keys

\* ORDER BY is a strict order, total on the keys of different rows.
LEMMA OrderIsTotal ==
  ASSUME NEW l \in Listings, NEW x \in Keys, NEW y \in Keys, NEW z \in Keys
  PROVE  /\ OrderBy(l, x, y) => ~OrderBy(l, y, x)
         /\ OrderBy(l, x, y) /\ OrderBy(l, y, z) => OrderBy(l, x, z)
         /\ x[2] # y[2] => OrderBy(l, x, y) \/ OrderBy(l, y, x)
         /\ x[2] = y[2] /\ ~OrderBy(l, x, y) /\ OrderBy(l, x, z) => OrderBy(l, y, z)
<1>1. /\ x[1] \in Int /\ y[1] \in Int /\ z[1] \in Int
      /\ x[2] \in Int /\ y[2] \in Int /\ z[2] \in Int
      /\ x = <<x[1], x[2]>> /\ y = <<y[1], y[2]>>
  BY DEF Keys, Agents
<1>2. \A o, m, n, k : m \in Int /\ n \in Int /\ k \in Int =>
         /\ Precedes(o, m, n) => ~Precedes(o, n, m) /\ m # n
         /\ Precedes(o, m, n) /\ Precedes(o, n, k) => Precedes(o, m, k)
         /\ m # n => Precedes(o, m, n) \/ Precedes(o, n, m)
  BY DEF Precedes
<1> QED
  BY <1>1, <1>2 DEF OrderBy

\* The listed agents are finitely many.
LEMMA ListedFinite ==
  ASSUME NEW ids \in SUBSET Agents
  PROVE  IsFiniteSet(ids) /\ Cardinality(ids) \in Nat
<1>1. IsFiniteSet(Agents)
  BY DiscoveryAssumption, FS_Interval DEF Agents
<1>2. IsFiniteSet(ids)
  BY <1>1, FS_Subset
<1> QED
  BY <1>2, FS_CardinalityType

\* Of two listed rows, the one that comes first ranks lower: its predecessors,
\* and itself, precede the other.
LEMMA RankFollowsOrder ==
  ASSUME table \in [Agents -> Rows \cup {None}], relevance \in [Agents -> Relevances], NEW l \in Listings,
         NEW ids \in SUBSET Listed(l), NEW x \in ids, NEW y \in ids
  PROVE  /\ Rank(l, ids, x) \in Nat /\ Rank(l, ids, x) < Cardinality(ids)
         /\ OrderBy(l, Key(l, table, x), Key(l, table, y)) => Rank(l, ids, x) < Rank(l, ids, y)
<1> DEFINE K(o) == Key(l, table, o)
           B(id) == {o \in ids : OrderBy(l, K(o), K(id))}
<1>1. ids \subseteq Agents
  BY DEF Listed
<1>2. \A o \in ids : K(o) \in Keys /\ K(o)[2] = o
  BY <1>1, KeyType DEF Listed, Filter
<1>3. \A id \in ids : Rank(l, ids, id) = Cardinality(B(id))
  BY DEF Rank
<1>4. \A id \in ids : /\ IsFiniteSet(B(id)) /\ B(id) \in SUBSET ids /\ id \notin B(id)
                      /\ Cardinality(B(id)) \in Nat
  <2> TAKE id \in ids
  <2>1. ~OrderBy(l, K(id), K(id))
    BY <1>2, OrderIsTotal
  <2>2. B(id) \in SUBSET ids /\ id \notin B(id)
    BY <2>1
  <2> HIDE DEF B
  <2>3. B(id) \in SUBSET Agents
    BY <2>2, <1>1
  <2> QED
    BY <2>2, <2>3, ListedFinite
<1>5. IsFiniteSet(ids) /\ Cardinality(ids) \in Nat
  BY <1>1, ListedFinite
<1>6. Cardinality(B(x)) < Cardinality(ids)
  <2>1. B(x) \in SUBSET ids /\ B(x) # ids /\ Cardinality(B(x)) \in Nat
    BY <1>4
  <2> HIDE DEF B
  <2> QED
    BY <2>1, <1>5, FS_Subset
<1>7. ASSUME OrderBy(l, K(x), K(y)) PROVE Cardinality(B(x)) < Cardinality(B(y))
  <2>1. B(x) \in SUBSET B(y)
    BY <1>7, <1>2, OrderIsTotal
  <2>2. x \in B(y) /\ x \notin B(x)
    BY <1>7, <1>4
  <2>3. /\ IsFiniteSet(B(y)) /\ Cardinality(B(y)) \in Nat /\ Cardinality(B(x)) \in Nat
    BY <1>4
  <2> HIDE DEF B
  <2> QED
    BY <2>1, <2>2, <2>3, FS_Subset
<1> HIDE DEF B
<1>8. Rank(l, ids, x) = Cardinality(B(x)) /\ Rank(l, ids, y) = Cardinality(B(y))
  BY <1>3
<1> QED
  BY <1>4, <1>6, <1>7, <1>8

\* Different rows have different ranks.
LEMMA RankIsInjective ==
  ASSUME table \in [Agents -> Rows \cup {None}], relevance \in [Agents -> Relevances], NEW l \in Listings,
         NEW ids \in SUBSET Listed(l), NEW x \in ids, NEW y \in ids,
         Rank(l, ids, x) = Rank(l, ids, y)
  PROVE  x = y
<1> SUFFICES ASSUME x # y PROVE FALSE
  OBVIOUS
<1>1. /\ Key(l, table, x) \in Keys /\ Key(l, table, x)[2] = x
      /\ Key(l, table, y) \in Keys /\ Key(l, table, y)[2] = y
  BY KeyType DEF Listed, Filter
<1>2. \/ OrderBy(l, Key(l, table, x), Key(l, table, y))
      \/ OrderBy(l, Key(l, table, y), Key(l, table, x))
  BY <1>1, OrderIsTotal
<1>3. Rank(l, ids, x) \in Nat
  BY RankFollowsOrder
<1>4. \/ Rank(l, ids, x) < Rank(l, ids, y)
      \/ Rank(l, ids, y) < Rank(l, ids, x)
  BY <1>2, RankFollowsOrder
<1> QED
  BY <1>3, <1>4

\* Every rank below the number of rows is taken: an injection of a finite set
\* into a set of its size is onto.
LEMMA RankIsOnto ==
  ASSUME table \in [Agents -> Rows \cup {None}], relevance \in [Agents -> Relevances], NEW l \in Listings,
         NEW ids \in SUBSET Listed(l), NEW n \in Nat, n < Cardinality(ids)
  PROVE  \E id \in ids : Rank(l, ids, id) = n
<1> DEFINE f == [id \in ids |-> Rank(l, ids, id)]
           T == 0 .. Cardinality(ids) - 1
<1>1. IsFiniteSet(ids) /\ Cardinality(ids) \in Nat
  BY ListedFinite DEF Listed
<1>2. IsFiniteSet(T) /\ Cardinality(T) = Cardinality(ids)
  <2> DEFINE c == Cardinality(ids)
  <2>1. c \in Nat /\ 0 \in Int /\ c - 1 \in Int
    BY <1>1
  <2> HIDE DEF c
  <2>2. IsFiniteSet(0 .. c - 1) /\ Cardinality(0 .. c - 1) = IF 0 > c - 1 THEN 0 ELSE (c - 1) - 0 + 1
    BY <2>1, FS_Interval
  <2>3. IsFiniteSet(0 .. c - 1) /\ Cardinality(0 .. c - 1) = c
    BY <2>1, <2>2
  <2> QED
    BY <2>3 DEF c
<1>3. f \in [ids -> T]
  BY <1>1, RankFollowsOrder
<1>4. \A x, y \in ids : f[x] = f[y] => x = y
  BY RankIsInjective
<1>5. f \in Injection(ids, T)
  BY <1>3, <1>4 DEF Injection, IsInjective
<1>6. n \in T
  BY <1>1
<1> HIDE DEF T
<1>7. f \in Surjection(ids, T)
  <2> HIDE DEF f
  <2> QED
    BY <1>2, <1>5, FS_Injection
<1>8. \E id \in ids : f[id] = n
  BY <1>6, <1>7 DEF Surjection
<1> QED
  BY <1>8

\* No more rows than ranks: a page has at most limit rows.
LEMMA RanksBound ==
  ASSUME table \in [Agents -> Rows \cup {None}], relevance \in [Agents -> Relevances], NEW l \in Listings,
         NEW ids \in SUBSET Listed(l), NEW a \in Nat, NEW n \in Nat
  PROVE  LET cut == {id \in ids : Rank(l, ids, id) \in a .. a + n - 1}
         IN Cardinality(cut) \in Nat /\ Cardinality(cut) <= n
<1> DEFINE cut == {id \in ids : Rank(l, ids, id) \in a .. a + n - 1}
           T == a .. a + n - 1
           f == [id \in cut |-> Rank(l, ids, id)]
<1>1. IsFiniteSet(T) /\ Cardinality(T) = n
  BY FS_Interval
<1>2. f \in [cut -> T]
  OBVIOUS
<1>3. \A x, y \in cut : f[x] = f[y] => x = y
  BY RankIsInjective
<1>4. f \in Injection(cut, T)
  BY <1>2, <1>3 DEF Injection, IsInjective
<1>5. cut \in SUBSET Agents
  BY DEF Listed
<1> HIDE DEF cut, T, f
<1>6. Cardinality(cut) <= n
  BY <1>1, <1>4, FS_Injection
<1>7. Cardinality(cut) \in Nat
  BY <1>5, ListedFinite
<1> QED
  BY <1>6, <1>7 DEF cut

-----------------------------------------------------------------------------
(* Pages *)

\* A page of handleDiscovery holds exactly the listed rows between its place and
\* the place it leads to.
LEMMA DiscoveryPageExact ==
  ASSUME table \in [Agents -> Rows \cup {None}], relevance \in [Agents -> Relevances], NEW at \in Places, at.of \in Discover,
         NEW limit \in Limits
  PROVE  LET page == DiscoveryPage(at, limit)
         IN /\ page \in PagesOf /\ Continues(at, page)
            /\ \A id \in Agents : Between(at, page, id)
<1> DEFINE l == at.of
           K(id) == Key(l, table, id)
           rest == {id \in Listed(l) : After(l, at.key, K(id))}
           rows == {id \in rest : Rank(l, rest, id) < limit}
           more == Cardinality(rest) > limit
           next == IF more THEN [at EXCEPT !.key = NextKey(l, rest, limit)] ELSE None
           page == DiscoveryPage(at, limit)
<1>1. page = [rows |-> rows, next |-> next]
  BY DEF DiscoveryPage
<1>2. /\ l \in Listings /\ limit \in Nat /\ limit > 0
      /\ rest \in SUBSET Listed(l) /\ rest \in SUBSET Agents
  BY DiscoveryAssumption DEF Places, Listed
<1>3. \A id \in rest : K(id) \in Keys /\ K(id)[2] = id
  BY <1>2, KeyType DEF Listed, Filter
<1>4. Cardinality(rest) \in Nat
  BY <1>2, ListedFinite
<1>5. \A id \in Agents : id \in rest <=> id \in Listed(l) /\ After(l, at.key, K(id))
  OBVIOUS
<1>6. rows \in SUBSET rest
  OBVIOUS
<1>7. CASE more
  <2> DEFINE k == CHOOSE id \in rest : Rank(l, rest, id) = limit - 1
  <2>1. \E id \in rest : Rank(l, rest, id) = limit - 1
    <3>1. limit - 1 \in Nat /\ limit - 1 < Cardinality(rest)
      BY <1>2, <1>4, <1>7
    <3> HIDE DEF rest
    <3> QED
      BY <3>1, <1>2, RankIsOnto
  <2>2. k \in rest /\ Rank(l, rest, k) = limit - 1
    BY <2>1
  <2>3. next = [at EXCEPT !.key = K(k)]
    BY <1>7 DEF NextKey
  <2> HIDE DEF k
  <2>4. K(k) \in Keys /\ After(l, at.key, K(k))
    BY <2>2, <1>3
  <2>5. next \in Places /\ next # None /\ next.of = l /\ next.key = K(k) /\ next.key # None
    <3> HIDE DEF next, K
    <3> QED
      BY <2>3, <2>4, NoneAssumption DEF Places
  <2>6. \A id \in rest : id \in rows <=> ~OrderBy(l, K(k), K(id))
    <3> TAKE id \in rest
    <3>1. OrderBy(l, K(k), K(id)) => Rank(l, rest, k) < Rank(l, rest, id)
      BY <1>2, <2>2, RankFollowsOrder
    <3>2. OrderBy(l, K(id), K(k)) => Rank(l, rest, id) < Rank(l, rest, k)
      BY <1>2, <2>2, RankFollowsOrder
    <3>3. Rank(l, rest, id) \in Nat
      BY <1>2, RankFollowsOrder
    <3>4. id = k \/ OrderBy(l, K(k), K(id)) \/ OrderBy(l, K(id), K(k))
      BY <1>2, <1>3, <2>2, OrderIsTotal
    <3>5. ~OrderBy(l, K(k), K(k))
      BY <1>2, <1>3, <2>2, OrderIsTotal
    <3>6. id \in rows <=> Rank(l, rest, id) < limit
      OBVIOUS
    <3> HIDE DEF rest, rows, K
    <3> QED
      BY <3>1, <3>2, <3>3, <3>4, <3>5, <3>6, <2>2, <1>2
  <2> HIDE DEF next, rows, rest, K
  <2>7. page \in PagesOf /\ page.rows = rows /\ page.next = next
    BY <1>1, <1>2, <1>6, <2>5 DEF PagesOf
  <2>8. Continues(at, page)
    BY <2>4, <2>5, <2>7 DEF Continues
  <2>9. \A id \in Agents : Between(at, page, id)
    <3> TAKE id \in Agents
    <3>1. After(l, next.key, K(id)) <=> OrderBy(l, K(k), K(id))
      BY <2>5 DEF After
    <3>2. id \in rows <=> id \in rest /\ ~After(l, next.key, K(id))
      BY <3>1, <2>6, <1>6
    <3> QED
      BY <3>2, <2>5, <2>7, <1>5 DEF Between, K
  <2> QED
    BY <2>7, <2>8, <2>9
<1>8. CASE ~more
  <2>1. \A id \in rest : Rank(l, rest, id) < limit
    <3> TAKE id \in rest
    <3>1. Rank(l, rest, id) \in Nat /\ Rank(l, rest, id) < Cardinality(rest)
      BY <1>2, RankFollowsOrder
    <3> HIDE DEF rest
    <3> QED
      BY <3>1, <1>2, <1>4, <1>8
  <2>2. rows = rest /\ next = None
    BY <2>1, <1>8
  <2> HIDE DEF next, rows, rest, K
  <2>3. page \in PagesOf /\ page.rows = rest /\ page.next = None
    BY <1>1, <1>2, <2>2 DEF PagesOf
  <2> QED
    BY <2>3, <1>5 DEF Between, Continues, K
<1> QED
  BY <1>7, <1>8

\* The pages of a walk by page number follow each other without a gap.
LEMMA OffsetsFollow ==
  ASSUME NEW p \in Nat \ {0}, NEW n \in Nat
  PROVE  /\ Offset(p, n) \in Nat /\ Offset(p + 1, n) = Offset(p, n) + n
         /\ Offset(p + 1, n) = p * n
<1>1. (p - 1) \in Nat /\ p = (p - 1) + 1
  OBVIOUS
<1>2. (p - 1) * n \in Nat
  BY <1>1
<1>3. p * n = (p - 1) * n + n
  BY <1>1
<1>4. (p + 1) - 1 = p
  OBVIOUS
<1> QED
  BY <1>2, <1>3, <1>4 DEF Offset

\* Where a page read at an offset leaves an agent that ranks there or later.
PageCovers(at, limit, page) ==
    /\ page \in PagesOf
    /\ page.next # None =>
          page.next \in Places /\ page.next.of = at.of /\ page.next.page \in Nat \ {0}
    /\ \A id \in Listed(at.of) :
          Rank(at.of, Listed(at.of), id) >= Offset(at.page, limit) =>
             \/ id \in page.rows
             \/ page.next # None /\ Rank(at.of, Listed(at.of), id) >= Offset(page.next.page, limit)

\* A page by number holds the rows of its ranks, and the last one all that are
\* left: a total or a count of rows says when to stop.
LEMMA OffsetPageCovers ==
  ASSUME table \in [Agents -> Rows \cup {None}], relevance \in [Agents -> Relevances], NEW at \in Places,
         at.of \in GetAgents \cup WebLists, NEW limit \in Limits
  PROVE  PageCovers(at, limit, Page(at, limit))
<1> DEFINE l == at.of
           ids == Listed(l)
           p == IF l.api = "agents" THEN Clamped(at.page) ELSE at.page
           off == Offset(p, limit)
           rows == RowsAt(l, off, limit)
           next == [at EXCEPT !.page = p + 1]
           R(id) == Rank(l, ids, id)
<1>1. /\ l \in Listings /\ limit \in Nat /\ limit > 0 /\ at.page \in Nat \ {0}
      /\ ids \in SUBSET Listed(l) /\ ids \in SUBSET Agents
  BY DiscoveryAssumption DEF Places, Listed
<1>2. /\ p \in Nat \ {0} /\ off \in Nat
      /\ Offset(p + 1, limit) = off + limit /\ p * limit = off + limit
      /\ p = at.page \/ Offset(at.page, limit) >= off + limit
  <2>1. p \in Nat \ {0} /\ p <= at.page
    BY <1>1, DiscoveryAssumption DEF Clamped
  <2> HIDE DEF p
  <2>2. /\ off \in Nat /\ Offset(p + 1, limit) = off + limit /\ p * limit = off + limit
    BY <1>1, <2>1, OffsetsFollow
  <2>3. ASSUME p # at.page PROVE Offset(at.page, limit) >= off + limit
    <3>1. PICK d \in Nat : at.page - 1 = p + d
      <4>1. (at.page - 1) - p \in Nat /\ at.page - 1 = p + ((at.page - 1) - p)
        BY <1>1, <2>1, <2>3
      <4> QED
        BY <4>1
    <3>2. (p + d) * limit = p * limit + d * limit /\ d * limit \in Nat
      BY <1>1, <2>1
    <3>3. Offset(at.page, limit) = off + limit + d * limit
      BY <2>2, <3>1, <3>2 DEF Offset
    <3> HIDE DEF off
    <3> QED
      BY <2>2, <3>2, <3>3, <1>1
  <2> QED
    BY <2>1, <2>2, <2>3
<1>3. Cardinality(ids) \in Nat
  BY <1>1, ListedFinite
<1>4. \A id \in ids : R(id) \in Nat /\ R(id) < Cardinality(ids)
  <2> HIDE DEF ids
  <2> QED
    BY <1>1, RankFollowsOrder
<1>5. rows \in SUBSET Agents /\ \A id \in ids : id \in rows <=> R(id) \in off .. off + limit - 1
  BY DEF RowsAt, Listed
<1>6. Cardinality(rows) \in Nat /\ Cardinality(rows) <= limit
  <2>1. rows = {id \in ids : Rank(l, ids, id) \in off .. off + limit - 1}
    BY DEF RowsAt
  <2> HIDE DEF ids, off, rows
  <2>2. ids \in SUBSET Listed(l) /\ l \in Listings /\ off \in Nat /\ limit \in Nat
    BY <1>1, <1>2
  <2> HIDE DEF l
  <2> QED
    BY <2>1, <2>2, RanksBound
<1>7. next \in Places /\ next # None
  <2>1. next \in Places
    BY <1>1, <1>2 DEF Places
  <2> QED
    BY <2>1, NoneAssumption
<1>8. \E more \in BOOLEAN :
        /\ Page(at, limit) = [rows |-> rows, next |-> IF more THEN next ELSE None]
        /\ ~more => Cardinality(ids) <= off + limit
  <2>1. l.api \in {"agents", "list", "filtered", "leaderboard"}
    BY DEF GetAgents, WebLists, AgentsLists, Listing
  <2>2. CASE l.api = "agents"
    <3> DEFINE more == p * limit < Cardinality(ids)
    <3>1. Page(at, limit) = [rows |-> rows, next |-> IF more THEN next ELSE None]
      <4>1. Page(at, limit) = AgentsPage(at, limit) /\ p = Clamped(at.page)
        BY <2>2 DEF Page
      <4>2. AgentsPage(at, limit) =
              LET n == Clamped(at.page)
              IN [rows |-> RowsAt(l, Offset(n, limit), limit),
                  next |-> IF n * limit < Cardinality(ids) THEN [at EXCEPT !.page = n + 1] ELSE None]
        BY Zenon DEF AgentsPage
      <4> HIDE DEF p
      <4> QED
        BY <4>1, <4>2
    <3>2. ~more => Cardinality(ids) <= off + limit
      <4>1. ~more => ~(off + limit < Cardinality(ids))
        BY <1>2
      <4> HIDE DEF more, off, ids
      <4> QED
        BY <4>1, <1>1, <1>2, <1>3
    <3> HIDE DEF more
    <3>3. \/ Page(at, limit) = [rows |-> rows, next |-> IF TRUE THEN next ELSE None]
          \/ Page(at, limit) = [rows |-> rows, next |-> IF FALSE THEN next ELSE None] /\ ~more
      BY <3>1
    <3> QED
      BY <3>2, <3>3
  <2>3. CASE l.api \in {"list", "filtered"}
    <3> DEFINE more == off + Cardinality(rows) < Cardinality(ids)
    <3>1. Page(at, limit) = [rows |-> rows, next |-> IF more THEN next ELSE None]
      BY <2>3 DEF Page, AgentsListPage
    <3>2. ~more => Cardinality(ids) <= off + limit
      <4> HIDE DEF rows, ids, off
      <4> QED
        BY <1>1, <1>2, <1>3, <1>6
    <3> HIDE DEF more
    <3>3. \/ Page(at, limit) = [rows |-> rows, next |-> IF TRUE THEN next ELSE None]
          \/ Page(at, limit) = [rows |-> rows, next |-> IF FALSE THEN next ELSE None] /\ ~more
      BY <3>1
    <3> QED
      BY <3>2, <3>3
  <2>4. CASE l.api = "leaderboard"
    <3> DEFINE board == RowsAt(l, (off + 1) - 1, limit)
               more == off + 1 + Cardinality(board) <= Cardinality(ids)
    <3>1. Page(at, limit) = [rows |-> board, next |-> IF more THEN next ELSE None]
      <4>1. Page(at, limit) = LeaderboardPage(at, limit)
        BY <2>4 DEF Page
      <4>2. p = at.page
        BY <2>4
      <4> HIDE DEF p
      <4>3. LeaderboardPage(at, limit) = [rows |-> board, next |-> IF more THEN next ELSE None]
        <5>1. LeaderboardPage(at, limit) =
                LET start == Offset(at.page, limit) + 1
                    top == RowsAt(l, start - 1, limit)
                IN [rows |-> top,
                    next |-> IF start + Cardinality(top) <= Cardinality(ids)
                             THEN [at EXCEPT !.page = at.page + 1] ELSE None]
          BY Zenon DEF LeaderboardPage
        <5> QED
          BY <5>1, <4>2, Zenon
      <4> QED
        BY <4>1, <4>3, Zenon
    <3>2. board = rows
      <4>1. (off + 1) - 1 = off
        BY <1>2
      <4> QED
        BY <4>1
    <3>3. ~more => Cardinality(ids) <= off + limit
      <4> HIDE DEF rows, board, ids, off
      <4> QED
        BY <1>1, <1>2, <1>3, <1>6, <3>2
    <3> HIDE DEF more, board
    <3>4. \/ Page(at, limit) = [rows |-> rows, next |-> IF TRUE THEN next ELSE None]
          \/ Page(at, limit) = [rows |-> rows, next |-> IF FALSE THEN next ELSE None] /\ ~more
      BY <3>1, <3>2
    <3> QED
      BY <3>3, <3>4
  <2> QED
    BY <2>1, <2>2, <2>3, <2>4
<1> DEFINE page == Page(at, limit)
<1> HIDE DEF next, rows, off, ids, page, p
<1>9. /\ page \in PagesOf /\ page.rows = rows /\ page.next \in {next, None}
      /\ page.next = None => Cardinality(ids) <= off + limit
  <2>1. PICK more \in BOOLEAN :
           /\ page = [rows |-> rows, next |-> IF more THEN next ELSE None]
           /\ ~more => Cardinality(ids) <= off + limit
    BY <1>8 DEF page
  <2>2. CASE more
    BY <2>1, <2>2, <1>5, <1>7 DEF PagesOf
  <2>3. CASE ~more
    BY <2>1, <2>3, <1>5, <1>7 DEF PagesOf
  <2> QED
    BY <2>2, <2>3
<1>10. ASSUME NEW id \in ids, R(id) >= Offset(at.page, limit)
       PROVE  id \in page.rows \/ (page.next # None /\ R(id) >= off + limit)
  <2>1. R(id) >= off
    <3>1. Offset(at.page, limit) \in Nat
      BY <1>1, OffsetsFollow
    <3>2. p = at.page => Offset(at.page, limit) = off
      BY DEF off
    <3>3. Offset(at.page, limit) >= off
      BY <1>1, <1>2, <3>1, <3>2
    <3> QED
      BY <1>2, <1>4, <1>10, <3>1, <3>3
  <2> QED
    BY <1>1, <1>2, <1>3, <1>4, <1>5, <1>9, <2>1
<1>11. page.next # None => /\ page.next \in Places /\ page.next.of = l
                           /\ page.next.page = p + 1 /\ page.next.page \in Nat \ {0}
  <2> SUFFICES ASSUME page.next # None
        PROVE  next \in Places /\ next.of = l /\ next.page = p + 1 /\ p + 1 \in Nat \ {0}
    BY <1>9, Zenon
  <2> QED
    BY <1>2, <1>7 DEF next, Places
<1>12. PageCovers(at, limit, page)
  <2>1. \A id \in Listed(at.of) :
          Rank(at.of, Listed(at.of), id) >= Offset(at.page, limit) =>
             \/ id \in page.rows
             \/ page.next # None /\ Rank(at.of, Listed(at.of), id) >= Offset(page.next.page, limit)
    BY <1>2, <1>10, <1>11 DEF ids
  <2> QED
    BY <2>1, <1>9, <1>11 DEF PageCovers
<1> QED
  BY <1>12 DEF page

\* Every page has its type.
LEMMA PageType ==
  ASSUME table \in [Agents -> Rows \cup {None}], relevance \in [Agents -> Relevances], NEW at \in Places, NEW limit \in Limits
  PROVE  Page(at, limit) \in PagesOf
<1>1. CASE at.of \in Discover
  <2>1. Page(at, limit) = DiscoveryPage(at, limit)
    BY <1>1 DEF Page, Discover, Listing
  <2> QED
    BY <2>1, <1>1, DiscoveryPageExact
<1>2. CASE at.of \in Search
  <2>1. Page(at, limit) = [rows |-> RowsAt(at.of, 0, limit), next |-> None]
    BY <1>2 DEF Page, SearchPage, Search, Listing
  <2>2. RowsAt(at.of, 0, limit) \in SUBSET Agents
    BY DEF RowsAt, Listed
  <2> QED
    BY <2>1, <2>2 DEF PagesOf
<1>3. CASE at.of \in GetAgents \cup WebLists
  BY <1>3, OffsetPageCovers DEF PageCovers
<1>4. at.of \in Discover \/ at.of \in Search \/ at.of \in GetAgents \cup WebLists
  BY DEF Places, Listings
<1> QED
  BY <1>1, <1>2, <1>3, <1>4

-----------------------------------------------------------------------------
(* Steps *)

\* What a listing says of an agent depends on the agent's row alone.
LEMMA RowDecides ==
  ASSUME NEW l, NEW t, NEW u, NEW id, t[id] = u[id]
  PROVE  /\ Filter(l, t, id) <=> Filter(l, u, id)
         /\ Key(l, t, id) = Key(l, u, id)
  BY DEF Filter, Key

\* A step that leaves the relevance, or a listing not sorted by it: the next key is
\* what the next table says now.
LEMMA KeyNext ==
  ASSUME NEW l \in Listings, relevance' = relevance \/ l.sort # "rank", NEW id
  PROVE  Key(l, table, id)' = Key(l, table', id)
<1>1. CASE relevance' = relevance
  BY <1>1 DEF Key
<1>2. CASE l.sort # "rank"
  BY <1>2, ListingSorts DEF Key
<1> QED
  BY <1>1, <1>2

\* A step that writes nothing leaves the keys.
LEMMA KeysStay ==
  ASSUME table' = table, relevance' = relevance
  PROVE  \A l, id : Key(l, table, id)' = Key(l, table, id)
  BY DEF Key

\* There is a page size.
LEMMA PageSizeType == PageSize \in Limits /\ PageSize \in Nat
  BY DiscoveryAssumption DEF PageSize

\* The listings are of different kinds.
LEMMA KindsDiffer ==
  ASSUME NEW l \in Discover
  PROVE  l \in Listings /\ l \notin GetAgents \cup WebLists
  BY DEF Listings, Discover, GetAgents, WebLists, AgentsLists, Listing

\* A change by which no row sinks only pushes the other rows down.
LEMMA RankGrows ==
  ASSUME table \in [Agents -> Rows \cup {None}], relevance \in [Agents -> Relevances], NEW l \in Listings,
         NEW o \in Agents, NEW row \in Rows, table' = [table EXCEPT ![o] = row],
         relevance' = relevance,
         ~(/\ o \in Listed(l)
           /\ Filter(l, table', o) => OrderBy(l, Key(l, table, o), Key(l, table', o))),
         NEW id \in Listed(l), id # o
  PROVE  /\ Rank(l, Listed(l), id) \in Nat /\ Rank(l, Listed(l), id)' \in Nat
         /\ Rank(l, Listed(l), id)' >= Rank(l, Listed(l), id)
<1> DEFINE old == {q \in Listed(l) : OrderBy(l, Key(l, table, q), Key(l, table, id))}
           new == {q \in Listed(l)' : OrderBy(l, Key(l, table', q), Key(l, table', id))}
<1>1. Rank(l, Listed(l), id) = Cardinality(old) /\ Rank(l, Listed(l), id)' = Cardinality(new)
  BY KeyNext DEF Rank
<1>2. table' \in [Agents -> Rows \cup {None}] /\ id \in Agents
  BY DEF Listed
<1>3. \A q \in Agents \ {o} : /\ q \in Listed(l) <=> q \in Listed(l)'
                              /\ Key(l, table, q) = Key(l, table', q)
  <2> TAKE q \in Agents \ {o}
  <2>1. table[q] = table'[q]
    OBVIOUS
  <2>2. /\ Filter(l, table, q) <=> Filter(l, table', q)
        /\ Key(l, table, q) = Key(l, table', q)
    BY <2>1, RowDecides
  <2> QED
    BY <2>2 DEF Listed
<1>4. \A q \in Listed(l) : Key(l, table, q) \in Keys /\ Key(l, table, q)[2] = q
  BY KeyType DEF Listed, Filter
<1>5. ASSUME NEW q \in old PROVE q \in new
  <2>1. CASE q # o
    BY <2>1, <1>2, <1>3 DEF Listed
  <2>2. CASE q = o
    <3>1. /\ Filter(l, table', o) /\ o \in Listed(l)'
          /\ ~OrderBy(l, Key(l, table, o), Key(l, table', o))
      BY <2>2 DEF Listed
    <3>2. Key(l, table', o) \in Keys /\ Key(l, table', o)[2] = o
      <4>1. table'[o] # None
        BY <3>1 DEF Filter
      <4> QED
        BY <4>1, <1>2, KeyType
    <3>3. OrderBy(l, Key(l, table, o), Key(l, table, id)) /\ o \in Listed(l)
      BY <2>2
    <3>4. OrderBy(l, Key(l, table', o), Key(l, table, id))
      BY <3>1, <3>2, <3>3, <1>4, OrderIsTotal
    <3>5. Key(l, table, id) = Key(l, table', id)
      BY <1>2, <1>3
    <3> QED
      BY <2>2, <3>1, <3>4, <3>5
  <2> QED
    BY <2>1, <2>2
<1>6. old \in SUBSET new /\ new \in SUBSET Agents /\ old \in SUBSET Agents
  BY <1>5 DEF Listed
<1> HIDE DEF old, new
<1>7. IsFiniteSet(new) /\ Cardinality(new) \in Nat /\ Cardinality(old) \in Nat
  BY <1>6, ListedFinite
<1> QED
  BY <1>1, <1>6, <1>7, FS_Subset

\* The indexer's writes keep what the walk and the cache know of other agents.
LEMMA WriteStep ==
  ASSUME DiscoveryInv, NEW o \in Agents, NEW row \in Rows, NEW documents \in BOOLEAN,
         Write(o, row, documents)
  PROVE  DiscoveryInv'
<1> USE DEF DiscoveryInv
<1>1. /\ table' = [table EXCEPT ![o] = row] /\ touched' = touched \cup {o}
      /\ sank' = (sank \/ Sinks(o, row) \/ relevance' # relevance)
      /\ cache' = cache /\ walk' = walk /\ walks' = walks /\ changes' = changes + 1
      /\ relevance' \in Relevant(walk.listing) \/ relevance' = relevance
  BY DEF Write
<1>2. DiscoveryTypes'
  <2>1. table' \in [Agents -> Rows \cup {None}]
    BY <1>1 DEF DiscoveryTypes
  <2>2. sank' \in BOOLEAN
    BY <1>1, Zenon DEF DiscoveryTypes, Sinks
  <2>3. touched' \in SUBSET Agents /\ changes' \in Nat
    BY <1>1 DEF DiscoveryTypes
  <2>4. relevance' \in [Agents -> Relevances]
    BY <1>1, RelevantType DEF DiscoveryTypes
  <2> QED
    BY <1>1, <2>1, <2>2, <2>3, <2>4 DEF DiscoveryTypes
<1>3. PlaceFits'
  BY <1>1 DEF PlaceFits
<1>4. \A id \in Agents \ touched' :
         /\ id \in Agents \ touched
         /\ \A l : Filter(l, table, id) <=> Filter(l, table', id)
         /\ \A l \in Discover : Key(l, table, id)' = Key(l, table, id)
  <2> TAKE id \in Agents \ touched'
  <2>1. table[id] = table'[id]
    BY <1>1 DEF DiscoveryTypes
  <2>2. \A l : /\ Filter(l, table, id) <=> Filter(l, table', id)
               /\ Key(l, table, id) = Key(l, table', id)
    BY <2>1, RowDecides
  <2>3. \A l \in Discover : Key(l, table, id)' = Key(l, table', id)
    BY KeyNext, KindsDiffer, ListingSorts
  <2> QED
    BY <2>2, <2>3, <1>1
<1>5. CursorInv'
  <2> SUFFICES ASSUME walk.at.of \in Discover, NEW id \in Agents \ touched'
        PROVE  /\ walk.pc = "asking" => walk.seen[id] = (IF Passed(walk.at, id)' THEN 1 ELSE 0)
               /\ walk.seen[id] <= 1
               /\ walk.pc = "done" /\ id \in Listed(walk.at.of)' => walk.seen[id] = 1
    BY <1>1 DEF CursorInv
  <2>1. Passed(walk.at, id)' <=> Passed(walk.at, id)
    BY <1>1, <1>4 DEF Passed, Listed
  <2>2. id \in Listed(walk.at.of)' <=> id \in Listed(walk.at.of)
    BY <1>1, <1>4 DEF Listed
  <2> QED
    BY <2>1, <2>2, <1>4 DEF CursorInv
<1>6. CacheInv'
  <2> SUFFICES ASSUME NEW e \in cache, e.at.of \in Discover, NEW id \in Agents \ touched'
        PROVE  Between(e.at, e.page, id)'
    BY <1>1 DEF CacheInv, Continues
  <2>1. Between(e.at, e.page, id)
    BY <1>4 DEF CacheInv
  <2> QED
    BY <2>1, <1>4 DEF Between, Listed
<1>7. OffsetInv'
  <2> DEFINE l == walk.listing
  <2> SUFFICES ASSUME l \in GetAgents \cup WebLists, walks > 0, ~sank', ~walk.reused,
                      NEW id \in Listed(l)', id \notin touched'
        PROVE  /\ walk.pc = "asking" =>
                     \/ walk.seen[id] >= 1
                     \/ Rank(l, Listed(l), id)' >= Offset(walk.at.page, PageSize)
               /\ walk.pc = "done" => walk.seen[id] >= 1
    BY <1>1 DEF OffsetInv
  <2>1. id \in Agents \ touched' /\ id \in Listed(l) /\ id \notin touched /\ id # o
    BY <1>1, <1>4 DEF Listed
  <2>2. /\ ~sank
        /\ ~(/\ o \in Listed(l)
             /\ Filter(l, table', o) => OrderBy(l, Key(l, table, o), Key(l, table', o)))
        /\ relevance' = relevance
    BY <1>1 DEF Sinks
  <2>3. PICK k \in Listings : k = l
    BY DEF DiscoveryTypes, Walks
  <2>4. /\ Rank(k, Listed(k), id) \in Nat /\ Rank(k, Listed(k), id)' \in Nat
        /\ Rank(k, Listed(k), id)' >= Rank(k, Listed(k), id)
    BY <1>1, <2>1, <2>2, <2>3, RankGrows DEF DiscoveryTypes
  <2>5. /\ walk.pc = "asking" =>
              \/ walk.seen[id] >= 1
              \/ Rank(k, Listed(k), id) >= Offset(walk.at.page, PageSize)
        /\ walk.pc = "done" => walk.seen[id] >= 1
    BY <2>1, <2>2, <2>3 DEF OffsetInv
  <2>6. Rank(l, Listed(l), id)' = Rank(k, Listed(k), id)'
    BY <1>1, <2>3
  <2>7. Offset(walk.at.page, PageSize) \in Nat
    BY PageSizeType, OffsetsFollow DEF DiscoveryTypes, Walks, Places
  <2> QED
    BY <2>4, <2>5, <2>6, <2>7
<1> QED
  BY <1>2, <1>3, <1>5, <1>6, <1>7

\* A new walk has seen nothing and stands before everything.
LEMMA StartsStep ==
  ASSUME DiscoveryInv, NEW l \in Listings, NEW network \in Networks, Starts(l, network)
  PROVE  DiscoveryInv'
<1> USE DEF DiscoveryInv
<1>1. /\ walk' = [listing |-> l, pc |-> "asking", attempt |-> 0, accepted |-> Accepts(l, network),
                  at |-> First(l), seen |-> [id \in Agents |-> 0], reused |-> FALSE]
      /\ touched' \in {touched, {}} /\ (cache # {} => touched' = touched)
      /\ table' = table /\ cache' = cache /\ changes' = changes /\ walks' = walks + 1
  BY DEF Starts, NoWalk
<1>2. sank' \in BOOLEAN /\ relevance' \in [Agents -> Relevances]
  BY RelevantType DEF Starts, DiscoveryTypes
<1>3. Accepts(l, network) \in BOOLEAN
  BY Zenon DEF Accepts, Listings, DiscoveryAccepts, RouteAccepts
<1>4. First(l) \in Places /\ First(l).of = l /\ First(l).key = None /\ First(l).page = 1
  BY DEF First, Places
<1>5. walk' \in Walks
  BY <1>1, <1>3, <1>4 DEF Walks
<1>6. DiscoveryTypes'
  BY <1>1, <1>2, <1>5 DEF DiscoveryTypes
<1>7. walk'.at.of = l /\ walk'.at.key = None /\ walk'.at.page = 1 /\ walk'.listing = l
      /\ walk'.pc = "asking" /\ \A id \in Agents : walk'.seen[id] = 0
  BY <1>1, <1>4
<1>8. PlaceFits'
  BY <1>7 DEF PlaceFits
<1>9. CursorInv'
  BY <1>7 DEF CursorInv, Passed, After
<1>10. CacheInv'
  <2>1. \A k \in Discover, id \in Agents : Key(k, table, id)' = Key(k, table, id)
    BY <1>1, KeyNext, KindsDiffer, ListingSorts
  <2> QED
    BY <1>1, <2>1 DEF CacheInv, Continues, Between, Listed
<1>11. OffsetInv'
  <2> SUFFICES ASSUME NEW id \in Listed(l)'
        PROVE Rank(l, Listed(l), id)' >= Offset(1, PageSize)
    BY <1>7 DEF OffsetInv
  <2>1. Offset(1, PageSize) = 0
    BY PageSizeType DEF Offset
  <2>2. PICK ids \in SUBSET Agents : Rank(l, Listed(l), id)' = Cardinality(ids)
    BY DEF Listed, Rank
  <2>3. Cardinality(ids) \in Nat
    BY ListedFinite
  <2> QED
    BY <2>1, <2>2, <2>3
<1> QED
  BY <1>6, <1>8, <1>9, <1>10, <1>11

\* A request that fails leaves the walk where it is, or ends it.
LEMMA FailsStep ==
  ASSUME DiscoveryInv, walk' \in {Thrown, Retried},
         UNCHANGED <<table, relevance, cache, touched, sank, changes, walks>>
  PROVE  DiscoveryInv'
<1> USE DEF DiscoveryInv
<1>1. /\ walk' \in Walks
      /\ walk'.listing = walk.listing /\ walk'.at = walk.at /\ walk'.seen = walk.seen
      /\ walk'.reused = walk.reused /\ walk'.pc \in {walk.pc, "failed"}
  BY DEF Thrown, Retried, DiscoveryTypes, Walks
<1>2. DiscoveryTypes'
  BY <1>1 DEF DiscoveryTypes
<1>3. PlaceFits'
  BY <1>1 DEF PlaceFits
<1>4. CursorInv'
  BY <1>1, KeysStay DEF CursorInv, Passed, Listed
<1>5. CacheInv'
  BY KeysStay DEF CacheInv, Continues, Between, Listed
<1>6. OffsetInv'
  BY <1>1, KeysStay DEF OffsetInv, Listed, Rank
<1> QED
  BY <1>2, <1>3, <1>4, <1>5, <1>6

\* Another query with the same cursor: the walk is not of its listing any more.
LEMMA ChangeQueryStep ==
  ASSUME DiscoveryInv, NEW l \in Discover, ChangeQuery(l)
  PROVE  DiscoveryInv'
<1> USE DEF DiscoveryInv
<1>1. /\ walk' = [walk EXCEPT !.listing = l] /\ walk.pc = "asking" /\ walk.listing \in Discover
      /\ UNCHANGED <<table, relevance, cache, touched, sank, changes, walks>>
  BY DEF ChangeQuery
<1>2. /\ walk' \in Walks
      /\ walk'.listing = l /\ walk'.at = walk.at /\ walk'.seen = walk.seen
      /\ walk'.pc = walk.pc
  BY <1>1, KindsDiffer DEF DiscoveryTypes, Walks
<1>3. DiscoveryTypes'
  BY <1>1, <1>2 DEF DiscoveryTypes
<1>4. PlaceFits'
  BY <1>1, <1>2 DEF PlaceFits
<1>5. CursorInv'
  BY <1>1, <1>2, KeysStay DEF CursorInv, Passed, Listed
<1>6. CacheInv'
  BY <1>1, KeysStay DEF CacheInv, Continues, Between, Listed
<1>7. OffsetInv'
  BY <1>2, KindsDiffer DEF OffsetInv
<1> QED
  BY <1>3, <1>4, <1>5, <1>6, <1>7

\* What a walk becomes with a page.
LEMMA TakenFields ==
  ASSUME walk \in Walks, NEW page \in PagesOf, NEW r \in BOOLEAN, walk' = Taken(page, r)
  PROVE  /\ walk' \in Walks
         /\ walk'.listing = walk.listing
         /\ walk'.reused = (walk.reused \/ r)
         /\ walk'.seen = [id \in Agents |-> IF id \in page.rows THEN Again(walk.seen[id])
                                                                ELSE walk.seen[id]]
         /\ page.next = None => walk'.at = walk.at /\ walk'.pc = "done"
         /\ page.next # None => walk'.at = page.next /\ walk'.pc = walk.pc
<1> DEFINE seen == [id \in Agents |-> IF id \in page.rows THEN Again(walk.seen[id]) ELSE walk.seen[id]]
           w == NextAsked(page)
<1>1. seen \in [Agents -> Nat]
  BY DEF Walks, Again
<1>2. /\ w \in Walks /\ w.listing = walk.listing /\ w.seen = walk.seen /\ w.reused = walk.reused
      /\ page.next = None => w.at = walk.at /\ w.pc = "done"
      /\ page.next # None => w.at = page.next /\ w.pc = walk.pc
  <2>1. CASE page.next = None
    <3>1. w = [walk EXCEPT !.pc = "done"]
      BY <2>1 DEF NextAsked
    <3> HIDE DEF w
    <3> QED
      BY <2>1, <3>1 DEF Walks
  <2>2. CASE page.next # None
    <3>1. w = [walk EXCEPT !.at = page.next] /\ page.next \in Places
      BY <2>2 DEF NextAsked, PagesOf
    <3> HIDE DEF w
    <3> QED
      BY <2>2, <3>1 DEF Walks
  <2> QED
    BY <2>1, <2>2
<1>3. walk' = [w EXCEPT !.attempt = 0,
                        !.seen = [id \in Agents |-> IF id \in page.rows THEN Again(w.seen[id]) ELSE w.seen[id]],
                        !.reused = w.reused \/ r]
  BY Zenon DEF Taken
<1>4. [id \in Agents |-> IF id \in page.rows THEN Again(w.seen[id]) ELSE w.seen[id]] = seen
  BY <1>2
<1> HIDE DEF w, seen
<1>5. PICK b \in BOOLEAN : b = (walk.reused \/ r)
  BY DEF Walks
<1>7. walk' = [w EXCEPT !.attempt = 0, !.seen = seen, !.reused = b]
  BY <1>3, <1>4, <1>5, <1>2
<1>8. /\ walk' \in Walks /\ walk'.listing = w.listing /\ walk'.reused = b
      /\ walk'.seen = seen /\ walk'.at = w.at /\ walk'.pc = w.pc
  <2>1. w \in Walks
    BY <1>2
  <2>2. PICK c : c = b /\ c \in BOOLEAN
    OBVIOUS
  <2>3. walk' = [[[w EXCEPT !.attempt = 0] EXCEPT !.seen = seen] EXCEPT !.reused = c]
    BY <1>7, <2>2
  <2> QED
    BY ONLY <2>1, <2>2, <2>3, <1>1 DEF Walks
<1>9. walk'.reused = (walk.reused \/ r)
  BY <1>8, <1>5
<1> QED
  BY <1>2, <1>8, <1>9 DEF seen

\* A page taken, from the handler or from a cache, moves the walk past exactly
\* the agents on it.
LEMMA TakenStep ==
  ASSUME DiscoveryInv, walk.pc = "asking", walk.at.of = walk.listing,
         NEW page \in PagesOf, NEW r \in BOOLEAN, walk' = Taken(page, r),
         UNCHANGED <<table, relevance, touched, sank, walks>>,
         page.next # None => page.next.of = walk.at.of,
         walk.at.of \in Discover =>
            /\ Continues(walk.at, page)
            /\ \A id \in Agents \ touched : Between(walk.at, page, id),
         r \/ (walk.at.of \in GetAgents \cup WebLists => PageCovers(walk.at, PageSize, page))
  PROVE  walk' \in Walks /\ PlaceFits' /\ CursorInv' /\ OffsetInv'
<1> USE DEF DiscoveryInv
<1>1. /\ walk' \in Walks
      /\ walk'.listing = walk.listing
      /\ walk'.reused = (walk.reused \/ r)
      /\ walk'.seen = [id \in Agents |-> IF id \in page.rows THEN Again(walk.seen[id])
                                                             ELSE walk.seen[id]]
      /\ page.next = None => walk'.at = walk.at /\ walk'.pc = "done"
      /\ page.next # None => walk'.at = page.next /\ walk'.pc = "asking"
  BY TakenFields DEF DiscoveryTypes
<1>2. walk.seen \in [Agents -> Nat] /\ walk.at \in Places /\ walk.listing \in Listings
  BY DEF DiscoveryTypes, Walks
<1>3. walk'.at.of = walk.listing
  BY <1>1
<1>4. PlaceFits'
  BY <1>1, <1>3 DEF PlaceFits
<1> DEFINE l == walk.listing
<1>5. Listed(l)' = Listed(l)
  BY <1>1 DEF Listed
<1>6. CursorInv'
  <2> SUFFICES ASSUME l \in Discover, NEW id \in Agents \ touched
        PROVE  /\ walk'.pc = "asking" =>
                     walk'.seen[id] = (IF Passed(walk.at, id)' THEN 1 ELSE 0)
               /\ walk'.seen[id] <= 1
               /\ walk'.pc = "done" /\ id \in Listed(l)' => walk'.seen[id] = 1
    BY <1>3, <1>1 DEF CursorInv
  <2> DEFINE K == Key(l, table, id)
  <2>1. walk.seen[id] = (IF Passed(walk.at, id) THEN 1 ELSE 0)
    BY DEF CursorInv
  <2>2. Passed(walk.at, id) <=> id \in Listed(l) /\ ~After(l, walk.at.key, K)
    BY DEF Passed
  <2>3. id \in page.rows <=> /\ id \in Listed(l) /\ After(l, walk.at.key, K)
                             /\ page.next = None \/ ~After(l, page.next.key, K)
    BY DEF Between
  <2>4. walk'.seen[id] = IF id \in page.rows THEN Again(walk.seen[id]) ELSE walk.seen[id]
    BY <1>1
  <2>5. CASE page.next = None
    BY <2>5, <2>1, <2>2, <2>3, <2>4, <1>1, <1>5 DEF Again
  <2>6. CASE page.next # None
    <3>1. Passed(walk.at, id)' <=> id \in Listed(l) /\ ~After(l, page.next.key, K)
      BY <2>6, <1>1, <1>3, <1>5, KeysStay DEF Passed
    <3>2. Passed(walk.at, id) => ~After(l, page.next.key, K)
      <4> SUFFICES ASSUME id \in Listed(l), After(l, page.next.key, K)
            PROVE  After(l, walk.at.key, K)
        BY <2>2
      <4>1. K \in Keys
        BY <1>2, KeyType DEF Listed, Filter, DiscoveryTypes
      <4>2. page.next.key \in Keys /\ walk.at.key \in Keys \cup {None}
        BY <2>6, <1>2 DEF Continues, PagesOf, Places
      <4>3. page.next.key # None /\ After(l, walk.at.key, page.next.key)
        BY <2>6 DEF Continues
      <4> HIDE DEF K
      <4> QED
        BY <4>1, <4>2, <4>3, <1>2, OrderIsTotal DEF After
    <3> HIDE DEF K
    <3> QED
      BY <2>6, <3>1, <3>2, <2>1, <2>2, <2>3, <2>4, <1>1 DEF Again
  <2> QED
    BY <2>5, <2>6
<1>7. OffsetInv'
  <2> SUFFICES ASSUME l \in GetAgents \cup WebLists, walks > 0, ~sank, ~walk'.reused,
                      NEW id \in Listed(l), id \notin touched
        PROVE  /\ walk'.pc = "asking" =>
                     \/ walk'.seen[id] >= 1
                     \/ Rank(l, Listed(l), id)' >= Offset(walk'.at.page, PageSize)
               /\ walk'.pc = "done" => walk'.seen[id] >= 1
    BY <1>1, <1>5 DEF OffsetInv
  <2>1. ~r /\ ~walk.reused
    BY <1>1
  <2>2. PageCovers(walk.at, PageSize, page)
    BY <2>1
  <2>3. walk.seen[id] >= 1 \/ Rank(l, Listed(l), id) >= Offset(walk.at.page, PageSize)
    BY <2>1 DEF OffsetInv
  <2>4. \/ walk.seen[id] >= 1 \/ id \in page.rows
        \/ page.next # None /\ Rank(l, Listed(l), id) >= Offset(page.next.page, PageSize)
    BY <2>2, <2>3 DEF PageCovers
  <2>5. page.next # None => walk'.at.page = page.next.page
    BY <1>1
  <2>6. Rank(l, Listed(l), id)' = Rank(l, Listed(l), id)
    BY <1>1, <1>5, KeysStay DEF Rank
  <2>7. /\ id \in Agents /\ walk.seen[id] \in Nat
        /\ walk'.seen[id] = IF id \in page.rows THEN Again(walk.seen[id]) ELSE walk.seen[id]
    BY <1>1, <1>2 DEF Listed
  <2>8. walk.seen[id] >= 1 \/ id \in page.rows => walk'.seen[id] >= 1
    BY <2>7 DEF Again
  <2> QED
    BY <2>4, <2>5, <2>6, <2>8, <1>1
<1> QED
  BY <1>1, <1>4, <1>6, <1>7

\* The handler answers: a refusal, or a page that a cache may keep.
LEMMA ServedStep ==
  ASSUME DiscoveryInv, NEW limit \in Limits, Served(limit)
  PROVE  DiscoveryInv'
<1> DEFINE place == [walk.at EXCEPT !.of = walk.listing]
           answer == Page(place, limit)
<1>1. /\ walk.pc = "asking" /\ limit \in Sizes
      /\ UNCHANGED <<table, relevance, touched, sank, changes, walks>>
      /\ \/ walk' = Thrown /\ UNCHANGED cache
         \/ /\ CursorFits /\ walk' = Taken(answer, FALSE)
            /\ Kept([at |-> place, limit |-> limit, page |-> answer])
  BY Zenon DEF Served
<1>2. CASE walk' = Thrown /\ UNCHANGED cache
  BY <1>1, <1>2, FailsStep
<1>3. CASE /\ CursorFits /\ walk' = Taken(answer, FALSE)
           /\ Kept([at |-> place, limit |-> limit, page |-> answer])
  <2>1. /\ table \in [Agents -> Rows \cup {None}] /\ relevance \in [Agents -> Relevances]
        /\ walk \in Walks /\ walk.at \in Places /\ walk.at.of = walk.listing
    BY <1>3 DEF DiscoveryInv, DiscoveryTypes, Walks, CursorFits
  <2>2. place = walk.at
    BY <2>1 DEF Places
  <2>3. PICK at \in Places : at = walk.at
    BY <2>1
  <2>4. PICK page : page = answer
    OBVIOUS
  <2>5. page = Page(at, limit)
    BY <2>2, <2>3, <2>4
  <2> HIDE DEF place, answer
  <2>6. page \in PagesOf
    BY <2>1, <2>5, PageType
  <2>7. ASSUME at.of \in Discover
        PROVE  Continues(at, page) /\ \A id \in Agents : Between(at, page, id)
    <3>1. page = DiscoveryPage(at, limit)
      BY <2>5, <2>7 DEF Page, Discover, Listing
    <3> QED
      BY <3>1, <2>1, <2>7, DiscoveryPageExact
  <2>8. ASSUME at.of \in GetAgents \cup WebLists PROVE PageCovers(at, PageSize, page)
    <3>1. limit = PageSize
      <4>1. walk.listing \notin Discover
        BY <2>1, <2>3, <2>8, KindsDiffer
      <4> QED
        BY <4>1, <1>1 DEF Sizes, PageSize
    <3>2. PageCovers(at, limit, page)
      BY <2>1, <2>5, <2>8, OffsetPageCovers
    <3> QED
      BY <3>1, <3>2
  <2>9. page.next # None => page.next.of = at.of
    <3>1. CASE at.of \in Discover
      BY <3>1, <2>7 DEF Continues
    <3>2. CASE at.of \in GetAgents \cup WebLists
      BY <3>2, <2>8 DEF PageCovers
    <3>3. CASE at.of \in Search
      BY <3>3, <2>5 DEF Page, SearchPage, Search, Listing
    <3> QED
      BY <3>1, <3>2, <3>3 DEF Places, Listings
  <2>10. walk' \in Walks /\ PlaceFits' /\ CursorInv' /\ OffsetInv'
    <3>1. walk' = Taken(page, FALSE)
      BY <1>3, <2>4
    <3>2. UNCHANGED <<table, relevance, touched, sank, walks>>
      BY <1>1
    <3>3. /\ page.next # None => page.next.of = walk.at.of
          /\ walk.at.of \in Discover =>
                /\ Continues(walk.at, page)
                /\ \A id \in Agents \ touched : Between(walk.at, page, id)
          /\ walk.at.of \in GetAgents \cup WebLists => PageCovers(walk.at, PageSize, page)
      BY <2>3, <2>7, <2>8, <2>9
    <3> QED
      BY <3>1, <3>2, <3>3, <1>1, <2>1, <2>6, TakenStep
  <2>11. cache' = cache \/ cache' = cache \cup {[at |-> at, limit |-> limit, page |-> page]}
    BY <1>3, <2>2, <2>3, <2>4 DEF Kept
  <2>12. [at |-> at, limit |-> limit, page |-> page] \in Entries
    BY <2>6 DEF Entries
  <2>13. DiscoveryTypes'
    <3>1. cache' \in SUBSET Entries
      BY <2>11, <2>12 DEF DiscoveryInv, DiscoveryTypes
    <3> QED
      BY <3>1, <2>10, <1>1 DEF DiscoveryInv, DiscoveryTypes
  <2>14. CacheInv'
    <3> SUFFICES ASSUME NEW e \in cache'
          PROVE  /\ e.page.next # None => e.page.next.of = e.at.of
                 /\ e.at.of \in Discover =>
                       /\ Continues(e.at, e.page)
                       /\ \A id \in Agents \ touched : Between(e.at, e.page, id)
      BY <1>1, KeysStay DEF CacheInv, Continues, Between, Listed
    <3>1. CASE e \in cache
      BY <3>1 DEF DiscoveryInv, CacheInv
    <3>2. CASE e = [at |-> at, limit |-> limit, page |-> page]
      <4>1. e.at = at /\ e.page = page
        BY <3>2
      <4> QED
        BY <4>1, <2>7, <2>9
    <3> QED
      BY <3>1, <3>2, <2>11
  <2> QED
    BY <2>10, <2>13, <2>14 DEF DiscoveryInv
<1> QED
  BY <1>1, <1>2, <1>3

\* A cache answers: what it holds is still right about the unchanged agents.
LEMMA CachedStep ==
  ASSUME DiscoveryInv, ServedFromCache
  PROVE  DiscoveryInv'
<1>1. PICK e \in cache : e.at = walk.at /\ walk' = Taken(e.page, TRUE)
  BY DEF ServedFromCache
<1>2. /\ walk.pc = "asking" /\ walk.at.of = walk.listing
      /\ UNCHANGED <<table, relevance, cache, touched, sank, changes, walks>>
  BY DEF ServedFromCache, CursorFits
<1>3. e.page \in PagesOf
  BY DEF DiscoveryInv, DiscoveryTypes, Entries
<1>4. PICK page \in PagesOf : page = e.page
  BY <1>3
<1>5. /\ page.next # None => page.next.of = walk.at.of
      /\ walk.at.of \in Discover =>
            /\ Continues(walk.at, page)
            /\ \A id \in Agents \ touched : Between(walk.at, page, id)
  BY <1>1, <1>4 DEF DiscoveryInv, CacheInv
<1>6. walk' \in Walks /\ PlaceFits' /\ CursorInv' /\ OffsetInv'
  <2>1. walk' = Taken(page, TRUE) /\ UNCHANGED <<table, relevance, touched, sank, walks>>
    BY <1>1, <1>2, <1>4
  <2> QED
    BY <2>1, <1>2, <1>5, TakenStep
<1>7. DiscoveryTypes'
  BY <1>2, <1>6 DEF DiscoveryInv, DiscoveryTypes
<1>8. CacheInv'
  BY <1>2, KeysStay DEF DiscoveryInv, CacheInv, Continues, Between, Listed
<1> QED
  BY <1>6, <1>7, <1>8 DEF DiscoveryInv

\* A cache that expires, or nothing at all.
LEMMA ExpireStep ==
  ASSUME DiscoveryInv, cache' \in {cache, {}},
         UNCHANGED <<table, relevance, walk, touched, sank, changes, walks>>
  PROVE  DiscoveryInv'
<1> USE DEF DiscoveryInv
<1>1. DiscoveryTypes' /\ PlaceFits'
  BY DEF DiscoveryTypes, PlaceFits
<1>2. CursorInv'
  BY KeysStay DEF CursorInv, Passed, Listed
<1>3. CacheInv'
  BY KeysStay DEF CacheInv, Continues, Between, Listed
<1>4. OffsetInv'
  BY KeysStay DEF OffsetInv, Listed, Rank
<1> QED
  BY <1>1, <1>2, <1>3, <1>4

\* The invariant of the listings, step by step.
LEMMA DiscoveryStep ==
  ASSUME DiscoveryInv, [DiscoveryNext]_discoveryVars
  PROVE  DiscoveryInv'
<1>1. CASE UNCHANGED discoveryVars
  BY <1>1, ExpireStep DEF discoveryVars
<1>2. ASSUME NEW id \in Agents, InsertAgent(id) PROVE DiscoveryInv'
  <2>1. PICK m \in BOOLEAN : Write(id, [standing |-> Unrated, matches |-> m], TRUE)
    BY <1>2 DEF InsertAgent
  <2>2. [standing |-> Unrated, matches |-> m] \in Rows
    BY DiscoveryAssumption DEF Rows
  <2> QED
    BY <2>1, <2>2, WriteStep
<1>3. ASSUME NEW id \in Agents, NEW s \in Standings, Rescore(id, s) PROVE DiscoveryInv'
  <2>1. PICK m \in BOOLEAN : Write(id, [standing |-> s, matches |-> m], FALSE)
    BY <1>3 DEF Rescore
  <2>2. [standing |-> s, matches |-> m] \in Rows
    BY DEF Rows
  <2> QED
    BY <2>1, <2>2, WriteStep
<1>4. ASSUME NEW id \in Agents, Rematch(id) PROVE DiscoveryInv'
  <2>1. table[id] \in Rows /\ Write(id, [table[id] EXCEPT !.matches = ~@], TRUE)
    BY <1>4 DEF Rematch, DiscoveryInv, DiscoveryTypes
  <2>2. PICK row : row = [table[id] EXCEPT !.matches = ~@]
    OBVIOUS
  <2>3. row \in Rows
    BY <2>1, <2>2 DEF Rows
  <2> QED
    BY <2>1, <2>2, <2>3, WriteStep
<1>5. ASSUME NEW l \in Listings, NEW n \in Networks, StartWalk(l, n) PROVE DiscoveryInv'
  BY <1>5, StartsStep DEF StartWalk
<1>6. ASSUME NEW l \in AgentsLists, ApplyFilters(l) PROVE DiscoveryInv'
  <2>1. l \in Listings /\ "absent" \in Networks
    BY DEF Listings, WebLists, Networks
  <2> QED
    BY <1>6, <2>1, StartsStep DEF ApplyFilters
<1>7. ASSUME NEW l \in Discover, ChangeQuery(l) PROVE DiscoveryInv'
  BY <1>7, ChangeQueryStep
<1>8. CASE RequestEnds
  <2>1. ASSUME NEW n \in Limits, Served(n) PROVE DiscoveryInv'
    BY <2>1, ServedStep
  <2>2. CASE ServedFromCache
    BY <2>2, CachedStep
  <2>3. CASE RateLimited \/ ServerFails \/ IndexStale \/ NetworkFails \/ BadBody \/ TimesOut
    <3>1. Fails(Thrown) \/ Fails(Retried)
      BY <2>3 DEF RateLimited, ServerFails, IndexStale, NetworkFails, BadBody, TimesOut
    <3>2. /\ walk' \in {Thrown, Retried}
          /\ UNCHANGED <<table, relevance, cache, touched, sank, changes, walks>>
      BY <3>1 DEF Fails
    <3> QED
      BY <3>2, FailsStep
  <2> QED
    BY <1>8, <2>1, <2>2, <2>3 DEF RequestEnds
<1>9. CASE Expire
  BY <1>9, ExpireStep DEF Expire
<1> QED
  BY <1>1, <1>2, <1>3, <1>4, <1>5, <1>6, <1>7, <1>8, <1>9 DEF DiscoveryNext

\* Before the first walk there is nothing to know.
LEMMA DiscoveryStarts == DiscoveryInit => DiscoveryInv
<1> SUFFICES ASSUME DiscoveryInit PROVE DiscoveryInv
  OBVIOUS
<1> DEFINE l == Newest
<1>1. l \in WebLists /\ l \in Listings
  BY DEF Newest, WebLists, AgentsLists, Listings, Orders
<1>2. walk = [listing |-> l, pc |-> "done", attempt |-> 0, accepted |-> TRUE, at |-> First(l),
              seen |-> [id \in Agents |-> 0], reused |-> FALSE]
  BY DEF DiscoveryInit, NoWalk
<1>3. First(l) \in Places /\ First(l).of = l
  BY <1>1 DEF First, Places
<1> HIDE DEF l
<1>4. walk \in Walks /\ walk.listing = l /\ walk.at.of = l /\ l \notin Discover
  BY <1>1, <1>2, <1>3, KindsDiffer DEF Walks
<1>5. DiscoveryTypes
  <2>1. table \in [Agents -> Rows \cup {None}]
    BY DiscoveryAssumption DEF DiscoveryInit, Rows
  <2>2. relevance \in [Agents -> Relevances]
    BY RelevantType DEF DiscoveryInit
  <2> QED
    BY <2>1, <2>2, <1>4 DEF DiscoveryInit, DiscoveryTypes
<1>6. PlaceFits /\ CursorInv
  BY <1>4 DEF PlaceFits, CursorInv
<1>7. CacheInv /\ OffsetInv
  BY DEF DiscoveryInit, CacheInv, OffsetInv
<1> QED
  BY <1>5, <1>6, <1>7 DEF DiscoveryInv

-----------------------------------------------------------------------------
(* Theorems *)

\* The invariant holds in every state, whatever the indexer writes between pages.
LEMMA DiscoveryInvariant == DiscoverySpec => []DiscoveryInv
<1>1. DiscoveryInv /\ [DiscoveryNext]_discoveryVars => DiscoveryInv'
  BY DiscoveryStep
<1> QED
  BY <1>1, DiscoveryStarts, PTL DEF DiscoverySpec

\* Keyset pagination: for every number of agents, changes, page sizes, retries and
\* cached answers, a walk by cursor repeats no unchanged agent and misses none.
THEOREM CursorSeesOnce == DiscoverySpec => []UnmovedSeenOnce
<1>1. DiscoveryInv => UnmovedSeenOnce
  BY DEF DiscoveryInv, CursorInv, PlaceFits, UnmovedSeenOnce
<1> QED
  BY <1>1, DiscoveryInvariant, PTL

\* Offset pagination: a walk that is told it is done has passed over an unchanged
\* agent only when another left the listing or moved down in it, a document ranked
\* the matches of a text search anew, or an older page came from a cache; so also
\* where /api/v1 has no page for the last agents.
THEOREM OffsetSeesAll == DiscoverySpec => []OffsetSkipsOnlyOnDeparture
<1>1. DiscoveryInv => OffsetSkipsOnlyOnDeparture
  BY DEF DiscoveryInv, OffsetInv, OffsetSkipsOnlyOnDeparture
<1> QED
  BY <1>1, DiscoveryInvariant, PTL
=============================================================================
