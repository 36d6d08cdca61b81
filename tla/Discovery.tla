------------------------------ MODULE Discovery ------------------------------
(***************************************************************************)
(* Walking the registry page by page while the indexer keeps writing it:   *)
(* by cursor through /api/v2/discovery and by page number through          *)
(* /api/v1/agents and /api/v1/accounts, both with the SDK's ExplorerClient *)
(* and its retries, and by page number in the agents list and leaderboard  *)
(* of the web application.  /api/v1/search has one page.  The pages read   *)
(* the live tables; those of the API may be answered again from an HTTP    *)
(* cache.                                                                  *)
(*                                                                         *)
(* The filters of a query are one verdict per agent.  A page is a set of   *)
(* agents: its order is only needed to cut it.                             *)
(*                                                                         *)
(* Bug_... are broken variants of the definitions they precede.            *)
(***************************************************************************)
EXTENDS Integers, FiniteSets

CONSTANTS
    MaxAgents,   \* bound on the agents, numbered in order of registration
    Created,     \* Created[id]: created_at, equal for agents of one ledger
    Standings,   \* what leaderboard_scores says: total_score and feedback_count
    Relevances,  \* values of agents_fts.rank
    Limits,      \* page sizes
    MAX_PAGE,    \* the page that /api/v1 takes any later one for
    Retries,     \* ExplorerClientOptions.retries
    None,
    FirstAgents, \* how many agents are indexed at the start
    MaxChanges,  \* bound on what the indexer changes
    MaxWalks,    \* bound on the walks
    MaxCached    \* bound on the answers the cache holds

Agents == 1 .. MaxAgents
Unrated == [score |-> 0, feedback |-> 0]

ASSUME DiscoveryAssumption ==
    /\ {MaxAgents, FirstAgents, Retries, MaxChanges, MaxWalks, MaxCached} \subseteq Nat
    /\ FirstAgents <= MaxAgents
    /\ Unrated \in Standings /\ Standings \subseteq [score : Int, feedback : Nat]
    /\ Relevances \subseteq Int /\ Relevances # {}
    /\ Limits \subseteq Nat \ {0} /\ Limits # {} /\ MAX_PAGE \in Nat \ {0}
    /\ Created \in [Agents -> Int]
    /\ \A i, j \in Agents : i < j => Created[i] <= Created[j]

VARIABLES
    table,    \* agents joined with leaderboard_scores: standing and filter verdict
    relevance, \* agents_fts.rank of every agent for the text searched
    cache,    \* answers of the API a cache holds
    walk,     \* the walk under way
    touched,  \* history: agents changed since the walk, or a cached answer, began
    sank,     \* history: a listed agent left the listing or moved down in it, or
              \*          the text search ranked its matches anew
    changes, walks

discoveryVars == <<table, relevance, cache, walk, touched, sank, changes, walks>>

\* "filtered" is the agents list with a filter set, "rank" the order of its text search.
Listing(api, sort, order) == [api |-> api, sort |-> sort, order |-> order]
Orders == {"asc", "desc"}
Discover == {Listing("discovery", "score", "desc"), Listing("discovery", "newest", "desc"),
             Listing("discovery", "id", "asc")}
GetAgents == {Listing("agents", s, o) : s \in {"newest", "id"}, o \in Orders}
Search == {Listing("search", "score", "desc")}
AgentsLists == {Listing("list", s, o) : s \in {"newest", "score", "feedback"}, o \in Orders}
                  \cup {Listing("list", "rank", "asc"), Listing("filtered", "score", "desc")}
WebLists == AgentsLists \cup {Listing("leaderboard", "score", "desc")}
Listings == Discover \cup GetAgents \cup Search \cup WebLists

\* A row of the joined tables, a sort key with the id that breaks its ties, and
\* where a walk stands: the query it belongs to with a page number, or a key.
Rows == [standing : Standings, matches : BOOLEAN]
Keys == Int \X Agents
Places == [of : Listings, page : Nat \ {0}, key : Keys \cup {None}]

ASSUME NoneAssumption == None \notin Rows /\ None \notin Keys /\ None \notin Places

First(l) == [of |-> l, page |-> 1, key |-> None]

\* accepted: the parameters of its requests are.
Newest == Listing("list", "newest", "desc")
NoWalk == [listing |-> Newest, pc |-> "done", attempt |-> 0, accepted |-> TRUE,
           at |-> First(Newest), seen |-> [id \in Agents |-> 0], reused |-> FALSE]

\* Without a text there is no relevance.
Relevant(l) ==
    IF l.sort = "rank" THEN [Agents -> Relevances]
                       ELSE {[id \in Agents |-> CHOOSE x \in Relevances : TRUE]}

DiscoveryInit ==
    /\ table = [id \in Agents |-> IF id <= FirstAgents THEN [standing |-> Unrated, matches |-> TRUE] ELSE None]
    /\ relevance \in Relevant(Newest)
    /\ cache = {}
    /\ walk = NoWalk
    /\ touched = {} /\ sank = FALSE /\ changes = 0 /\ walks = 0

-----------------------------------------------------------------------------
(* The listings *)

\* The discovery score: the leaderboard's, clamped.
SCORE(s) == IF s < 0 THEN 0 ELSE IF s > 100 THEN 100 ELSE s

\* SORTS[sort].key.
Key(l, t, id) ==
    << CASE l.sort = "score" -> IF l.api = "discovery" THEN SCORE(t[id].standing.score)
                                                       ELSE t[id].standing.score
         [] l.sort = "feedback" -> t[id].standing.feedback
         [] l.sort = "newest" -> Created[id]
         [] l.sort = "rank" -> relevance[id]
         [] l.sort = "id" -> id,
       id >>

Precedes(order, m, n) == IF order = "asc" THEN m < n ELSE m > n

\* The dates of the API break their ties in their own direction, all else by the lowest id.
TieOrder(l) == IF l.sort = "newest" /\ l.api \in {"discovery", "agents"} THEN l.order ELSE "asc"

\* ORDER BY the key, then the id.
OrderBy(l, x, y) ==
    \/ Precedes(l.order, x[1], y[1])
    \/ x[1] = y[1] /\ Precedes(TieOrder(l), x[2], y[2])

Bug_AfterInclusive(l, key, row) == key = None \/ ~OrderBy(l, row, key)

\* SORTS[sort].after.
After(l, key, row) == key = None \/ OrderBy(l, key, row)

\* The WHERE clause; the leaderboard has none, and the search and a filtered list
\* have no scores below zero.
Filter(l, t, id) ==
    /\ t[id] # None
    /\ l.api = "leaderboard" \/ t[id].matches
    /\ l.api \in {"search", "filtered"} => t[id].standing.score >= 0

Listed(l) == {id \in Agents : Filter(l, table, id)}

\* The rows of a set that come before a row.
Rank(l, ids, id) ==
    Cardinality({o \in ids : OrderBy(l, Key(l, table, o), Key(l, table, id))})

\* The key of the last row of the page, not of the row read to see if there are more.
NextKey(l, rest, limit) ==
    Key(l, table, CHOOSE id \in rest : Rank(l, rest, id) = limit - 1)

\* handleDiscovery.
DiscoveryPage(at, limit) ==
    LET l == at.of
        rest == {id \in Listed(l) : After(l, at.key, Key(l, table, id))}
        hasMore == Cardinality(rest) > limit
    IN [rows |-> {id \in rest : Rank(l, rest, id) < limit},
        next |-> IF hasMore THEN [at EXCEPT !.key = NextKey(l, rest, limit)] ELSE None]

Bug_PagesFromZero(page, limit) == page * limit
Offset(page, limit) == (page - 1) * limit

\* parseIntParam.
Clamped(page) == IF page > MAX_PAGE THEN MAX_PAGE ELSE page

\* LIMIT and OFFSET over the filtered rows.
RowsAt(l, offset, limit) ==
    {id \in Listed(l) : Rank(l, Listed(l), id) \in offset .. offset + limit - 1}

\* handleAgentsList and handleAccounts: paginate compares the page served with
\* the total, and the caller counts on from it.
AgentsPage(at, limit) ==
    LET page == Clamped(at.page)
    IN [rows |-> RowsAt(at.of, Offset(page, limit), limit),
        next |-> IF page * limit < Cardinality(Listed(at.of))
                 THEN [at EXCEPT !.page = page + 1] ELSE None]

\* handleSearch: the best rows, and no further page.
SearchPage(at, limit) == [rows |-> RowsAt(at.of, 0, limit), next |-> None]

\* The load of /agents: hasMore counts the rows of the page.
AgentsListPage(at, limit) ==
    LET offset == Offset(at.page, limit)
        rows == RowsAt(at.of, offset, limit)
    IN [rows |-> rows,
        next |-> IF offset + Cardinality(rows) < Cardinality(Listed(at.of))
                 THEN [at EXCEPT !.page = @ + 1] ELSE None]

\* The load of /leaderboard, whose rows are ranked from startRank on.
LeaderboardPage(at, limit) ==
    LET startRank == Offset(at.page, limit) + 1
        rows == RowsAt(at.of, startRank - 1, limit)
    IN [rows |-> rows,
        next |-> IF startRank + Cardinality(rows) <= Cardinality(Listed(at.of))
                 THEN [at EXCEPT !.page = @ + 1] ELSE None]

Page(at, limit) ==
    CASE at.of.api = "discovery" -> DiscoveryPage(at, limit)
      [] at.of.api = "agents" -> AgentsPage(at, limit)
      [] at.of.api = "search" -> SearchPage(at, limit)
      [] at.of.api \in {"list", "filtered"} -> AgentsListPage(at, limit)
      [] at.of.api = "leaderboard" -> LeaderboardPage(at, limit)

-----------------------------------------------------------------------------
(* The indexer *)

\* The row leaves the listing or moves down in it.
Sinks(id, row) ==
    LET l == walk.listing
        t == [table EXCEPT ![id] = row]
    IN /\ id \in Listed(l)
       /\ Filter(l, t, id) => OrderBy(l, Key(l, table, id), Key(l, t, id))

\* A document that changes moves the relevance of all.
Write(id, row, documents) ==
    /\ changes < MaxChanges
    /\ table' = [table EXCEPT ![id] = row]
    /\ relevance' \in IF documents THEN Relevant(walk.listing) ELSE {relevance}
    /\ touched' = touched \cup {id}
    /\ sank' = (sank \/ Sinks(id, row) \/ relevance' # relevance)
    /\ changes' = changes + 1
    /\ UNCHANGED <<cache, walk, walks>>

\* Registered; its document may match the filters once it is resolved.
InsertAgent(id) ==
    /\ table[id] = None /\ (id = 1 \/ table[id - 1] # None)
    /\ \E m \in BOOLEAN : Write(id, [standing |-> Unrated, matches |-> m], TRUE)

\* Feedback given or revoked moves the view, and what a minimum score says.
Rescore(id, standing) ==
    /\ table[id] # None /\ table[id].standing # standing
    /\ \E m \in BOOLEAN : Write(id, [standing |-> standing, matches |-> m], FALSE)

\* A new URI, document or owner changes what the filters say.
Rematch(id) ==
    /\ table[id] # None
    /\ Write(id, [table[id] EXCEPT !.matches = ~@], TRUE)

-----------------------------------------------------------------------------
(* The caller *)

\* The network parameter of a request: this explorer's, another, or none.
Networks == {"own", "other", "absent"}

\* handleDiscovery requires it and checks every other parameter too.
DiscoveryAccepts(network) == network = "own"

\* route of /api/v1 refuses another one; it clamps its other parameters.
RouteAccepts(network) == network # "other"

Accepts(l, network) ==
    CASE l \in Discover -> DiscoveryAccepts(network)
      [] l \in GetAgents \cup Search -> RouteAccepts(network)
      [] l \in WebLists -> TRUE

\* The first page of a listing.
Starts(l, network) ==
    /\ walks < MaxWalks
    /\ walks' = walks + 1
    /\ walk' = [NoWalk EXCEPT !.listing = l, !.pc = "asking", !.at = First(l),
                              !.accepted = Accepts(l, network)]
    /\ relevance' \in Relevant(l)
    /\ touched' = IF cache = {} THEN {} ELSE touched
    /\ sank' = IF cache = {} THEN FALSE ELSE sank
    /\ UNCHANGED <<table, cache, changes>>

StartWalk(l, network) == walk.pc # "asking" /\ Starts(l, network)

\* applyFilters, clearFilters or another sort in the middle of a walk: page one.
ApplyFilters(l) ==
    /\ walk.pc = "asking" /\ walk.listing \in AgentsLists
    /\ Starts(l, "absent")

\* A caller that changes the sort or a filter and keeps the cursor.
ChangeQuery(l) ==
    /\ walk.pc = "asking" /\ walk.at.key # None
    /\ l \in Discover \ {walk.listing} /\ walk.listing \in Discover
    /\ walk' = [walk EXCEPT !.listing = l]
    /\ UNCHANGED <<table, relevance, cache, touched, sank, changes, walks>>

Thrown == [walk EXCEPT !.pc = "failed"]

Bug_RetriesStartOver == [walk EXCEPT !.attempt = IF @ < Retries THEN @ + 1 ELSE 0]

\* Up to Retries more times, after a wait that doubles.
Retried == IF walk.attempt < Retries THEN [walk EXCEPT !.attempt = @ + 1] ELSE Thrown

\* The caller, or the pager, asks for the next page as long as there is one.
NextAsked(page) ==
    IF page.next = None THEN [walk EXCEPT !.pc = "done"] ELSE [walk EXCEPT !.at = page.next]

\* Never seen, once, or more often.
Again(times) == IF times < 2 THEN times + 1 ELSE times

\* The caller takes the page.
Taken(page, reused) ==
    [NextAsked(page) EXCEPT
                 !.attempt = 0,
                 !.seen = [id \in Agents |-> IF id \in page.rows THEN Again(@[id]) ELSE @[id]],
                 !.reused = @ \/ reused]

\* decodeCursor: the cursor is of this very query.
CursorFits == walk.at.of = walk.listing

\* A page size stays for a walk by page number; with a cursor it may change.
Sizes == IF walk.listing \in Discover THEN Limits ELSE {CHOOSE n \in Limits : TRUE}

\* successWithCache: a cache may keep the answer.
Kept(entry) ==
    \/ UNCHANGED cache
    \/ /\ walk.listing \notin WebLists /\ Cardinality(cache) < MaxCached
       /\ cache' = cache \cup {entry}

\* The handler answers: 400 for its parameters or a foreign cursor, or a page.
Served(limit) ==
    LET at == [walk.at EXCEPT !.of = walk.listing]
        page == Page(at, limit)
    IN /\ walk.pc = "asking" /\ limit \in Sizes
       /\ \/ /\ ~(walk.accepted /\ CursorFits)
             /\ walk' = Thrown
             /\ UNCHANGED cache
          \/ /\ walk.accepted /\ CursorFits
             /\ walk' = Taken(page, FALSE)
             /\ Kept([at |-> at, limit |-> limit, page |-> page])
       /\ UNCHANGED <<table, relevance, touched, sank, changes, walks>>

\* The same URL again, within max-age and stale-while-revalidate.
ServedFromCache ==
    /\ walk.pc = "asking" /\ walk.accepted /\ CursorFits
    /\ \E e \in cache :
          /\ e.at = walk.at /\ e.limit \in Sizes
          /\ walk' = Taken(e.page, TRUE)
    /\ UNCHANGED <<table, relevance, cache, touched, sank, changes, walks>>

Fails(next) ==
    /\ walk.pc = "asking"
    /\ walk' = next
    /\ UNCHANGED <<table, relevance, cache, touched, sank, changes, walks>>

\* The pages of the web application are not rate limited.
Limited == walk.listing \notin WebLists

\* 429, after 30 requests in a minute; the SDK waits before it retries.
RateLimited == Limited /\ Fails(Retried)

\* 500; a page of the web application shows its error.
ServerFails == Fails(IF walk.listing \in WebLists THEN Thrown ELSE Retried)

\* 503: the checkpoint of a contract has not advanced for 5 minutes.
IndexStale == walk.listing \in Discover /\ walk.accepted /\ CursorFits /\ Fails(Retried)

\* A TypeError or an AbortError.
NetworkFails == Fails(IF walk.listing \in WebLists THEN Thrown ELSE Retried)

\* An answer that is no JSON is not retried.
BadBody == walk.listing \notin WebLists /\ Fails(Thrown)

\* AbortSignal.timeout throws a TimeoutError, which is not retried either.
TimesOut == walk.listing \notin WebLists /\ Fails(Thrown)

Expire ==
    /\ cache # {}
    /\ cache' = {}
    /\ UNCHANGED <<table, relevance, walk, touched, sank, changes, walks>>

RequestEnds ==
    \/ \E n \in Limits : Served(n)
    \/ ServedFromCache
    \/ RateLimited
    \/ ServerFails
    \/ IndexStale
    \/ NetworkFails
    \/ BadBody
    \/ TimesOut

DiscoveryNext ==
    \/ \E id \in Agents : InsertAgent(id)
    \/ \E id \in Agents, s \in Standings : Rescore(id, s)
    \/ \E id \in Agents : Rematch(id)
    \/ \E l \in Listings, n \in Networks : StartWalk(l, n)
    \/ \E l \in AgentsLists : ApplyFilters(l)
    \/ \E l \in Discover : ChangeQuery(l)
    \/ RequestEnds
    \/ Expire

\* Every fetch has a timeout and the waits between retries are bounded.
DiscoverySpec == DiscoveryInit /\ [][DiscoveryNext]_discoveryVars /\ WF_discoveryVars(RequestEnds)

-----------------------------------------------------------------------------
(* Properties *)

\* Keyset pagination over live tables: an agent nobody changes during a walk by
\* cursor is never repeated, and seen by its end if the filters admit it,
\* whatever happens to the agents around it, with any mix of page sizes, retries
\* and pages answered again from a cache.
UnmovedSeenOnce ==
    walk.at.of \in Discover =>
       \A id \in Agents \ touched :
          /\ walk.seen[id] <= 1
          /\ walk.pc = "done" /\ id \in Listed(walk.listing) => walk.seen[id] = 1

\* Walks by page number pass over an unchanged agent only when another one left
\* the listing or moved down in it, a written document ranked the matches of a
\* text search anew, or an older page came from a cache: agents that register or
\* rise only push others down, onto later pages.  A walk whose pages end before
\* the agents do is not told it is done.
OffsetSkipsOnlyOnDeparture ==
    walk.pc = "done" /\ walks > 0 /\ walk.listing \in GetAgents \cup WebLists /\ ~sank /\ ~walk.reused =>
       \A id \in Listed(walk.listing) \ touched : walk.seen[id] >= 1

\* /api/v1 answers every page past MAX_PAGE with that page.
PastTheLastPage == walk.at.of \in GetAgents /\ walk.at.page > MAX_PAGE

\* Every walk comes to an end, or to the page past the last one that /api/v1 has: a
\* request is tried Retries + 1 times and no earlier page leads back to itself.
WalkEnds == <>[](walk.pc # "asking" \/ PastTheLastPage)
=============================================================================
