--------------------------- MODULE ReputationEvents ---------------------------
(***************************************************************************)
(* From the events of the reputation registry to the agent page: the       *)
(* indexer's parser, its statements on the feedback and feedback_responses *)
(* tables, and what the page and the API make of the rows.  A table is a   *)
(* set of rows, a statement an operator on both tables.  Columns that are  *)
(* copied and never compared are left out.  A body stands for its tag1.    *)
(*                                                                         *)
(* Bug_... are broken variants of the definitions they precede.            *)
(***************************************************************************)
EXTENDS FeedbackSummary

CONSTANTS
    NotUtf8, Replaced, \* see module EventWire
    VALID_TAGS,        \* tags the page filters by
    PAGE_FEEDBACK,     \* 50, rows of feedback the page reads
    PAGE_RESPONSES,    \* 200, rows of responses the page reads
    PAGE_CLIENTS,      \* 20, clients the page lists
    MAX_PAGE,          \* 10000, last page of the API
    MAX_LIMIT,         \* 100, longest page of the API
    MaxSafe,           \* 2^53, up to which a JavaScript number is exact
    Rounded,           \* what Number makes of a value beyond it
    ExactDecimals, ExactDigits, ExactCount \* 6, 4, 10^7: limits of the exact score

INSTANCE EventWire WITH EmptyText <- EmptyUri

\* Events as the parser returns them.
EventBases == [agentId : Agents, clientAddress : Addresses]
ParsedFeedback ==
    [type : {"NewFeedback"}, base : EventBases, feedbackIndex : Indexes,
     value : {ValueOf[b] : b \in Admissible}, tag1 : {Decode(b) : b \in Admissible},
     valueDecimals : {DecimalsOf[b] : b \in Admissible}]
ParsedRevocations == [type : {"FeedbackRevoked"}, base : EventBases, feedbackIndex : Indexes]
ParsedResponses ==
    [type : {"ResponseAppended"}, base : EventBases, responder : Addresses, feedbackIndex : Indexes]

\* null is no value on the wire, no event and no part of one.  The tags of the page
\* are valid UTF-8, and no text with a U+FFFD in it is one of them.
ASSUME WireAssumption ==
    /\ None \notin Agents /\ None \notin Indexes
    /\ \A b \in Admissible : None # ValueOf[b] /\ None # DecimalsOf[b]
    /\ None \notin {"NewFeedback", "FeedbackRevoked", "ResponseAppended"}
    /\ None \notin EventBases
    /\ None \notin ParsedFeedback \cup ParsedRevocations \cup ParsedResponses
    /\ VALID_TAGS \subseteq Admissible \ NotUtf8
    /\ \A b \in NotUtf8 : Replaced[b] \notin VALID_TAGS \cup {None}

ASSUME PageAssumption ==
    /\ {PAGE_FEEDBACK, PAGE_RESPONSES, PAGE_CLIENTS, ExactDigits, ExactCount} \subseteq Nat
    /\ {MAX_PAGE, MAX_LIMIT} \subseteq Nat \ {0} /\ ExactDecimals \in Nat
    /\ MaxSafe \in Nat

\* The event of a call, with the body given or the responder.
ReputationWire(e, body, responder) ==
    CASE e.type = "new_feedback" ->
            Wire("new_feedback", <<U32(e.agent), Address(e.client), String(body)>>,
                 [feedback_index |-> U64(e.index), value |-> Sv("i128", ValueOf[body]),
                  value_decimals |-> U32(DecimalsOf[body])])
      [] e.type = "feedback_revoked" ->
            Wire("feedback_revoked", <<U32(e.agent), Address(e.client), U64(e.index)>>, <<>>)
      [] e.type = "response_appended" ->
            Wire("response_appended", <<U32(e.agent), Address(e.client), Address(responder)>>,
                 [feedback_index |-> U64(e.index)])

-----------------------------------------------------------------------------
(* parsers/reputation.ts *)

ValidFeedbackIndex(i) == i # None /\ i >= 1

ParseReputationEvent(w) ==
    LET base == [agentId |-> ToSafeInteger(Topic(w, 1)), clientAddress |-> ToAddress(Topic(w, 2))]
        indexAt(s) == IF ValidFeedbackIndex(ToBigInt(s)) THEN ToBigInt(s) ELSE None
        decimals == IF "value_decimals" \in DOMAIN w.data
                    THEN ToSafeInteger(Field(w, "value_decimals")) ELSE 0
    IN IF Len(w.topics) < 4 THEN None
       ELSE CASE EventName(w) = "new_feedback" ->
                    Parsed([type |-> "NewFeedback", base |-> Parsed(base),
                            feedbackIndex |-> indexAt(Field(w, "feedback_index")),
                            value |-> ToBigInt(Field(w, "value")), tag1 |-> ToText(Topic(w, 3)),
                            valueDecimals |-> IF decimals \in 0 .. WAD THEN decimals ELSE None])
              [] EventName(w) = "feedback_revoked" ->
                    Parsed([type |-> "FeedbackRevoked", base |-> Parsed(base),
                            feedbackIndex |-> indexAt(Topic(w, 3))])
              [] EventName(w) = "response_appended" ->
                    Parsed([type |-> "ResponseAppended", base |-> Parsed(base),
                            responder |-> ToAddress(Topic(w, 3)),
                            feedbackIndex |-> indexAt(Field(w, "feedback_index"))])
              [] OTHER -> None

-----------------------------------------------------------------------------
(* The statements of the indexer *)

\* The primary key of feedback, which feedback_responses refers to.
FeedbackKey(e) == <<e.base.agentId, e.base.clientAddress, e.feedbackIndex>>

\* Written again, feedback stays as it is: revoked, if it was revoked since.
NewFeedback(T, e) ==
    IF \E r \in T.feedback : r.key = FeedbackKey(e) THEN T
    ELSE [T EXCEPT !.feedback = @ \cup {[key |-> FeedbackKey(e), value |-> e.value,
              value_decimals |-> e.valueDecimals, is_revoked |-> FALSE, tag1 |-> e.tag1]}]

\* A feedback is revoked in one ledger only, which leaves the guard on it true.
FeedbackRevoked(T, e) ==
    [T EXCEPT !.feedback = {IF r.key = FeedbackKey(e) THEN [r EXCEPT !.is_revoked = TRUE] ELSE r : r \in @}]

Bug_ReplayNumbered(T, e, id) ==
    LET before == {r.response_index : r \in {q \in T.responses : q.key = FeedbackKey(e)}}
    IN [T EXCEPT !.responses = @ \cup {[key |-> FeedbackKey(e), event_id |-> id,
           response_index |-> Max(before \cup {0}) + 1, responder |-> e.responder]}]

\* The next response_index, unless the event was written before.
ResponseAppended(T, e, id) ==
    LET before == {r.response_index : r \in {q \in T.responses : q.key = FeedbackKey(e)}}
    IN IF \E r \in T.responses : r.event_id = id THEN T
       ELSE [T EXCEPT !.responses = @ \cup {[key |-> FeedbackKey(e), event_id |-> id,
                response_index |-> Max(before \cup {0}) + 1, responder |-> e.responder]}]

\* The event e, under its id.
EventStatement(T, e, id) ==
    CASE e.type = "NewFeedback" -> NewFeedback(T, e)
      [] e.type = "FeedbackRevoked" -> FeedbackRevoked(T, e)
      [] e.type = "ResponseAppended" -> ResponseAppended(T, e, id)

\* The row a revocation updates; a response is held to it by the foreign key.
MissingParent(T, e) ==
    /\ e.type \in {"FeedbackRevoked", "ResponseAppended"}
    /\ ~\E r \in T.feedback : r.key = FeedbackKey(e)

-----------------------------------------------------------------------------
(* Reading the tables *)

\* Number(value)
NumberOf(v) == IF Abs(v) <= MaxSafe THEN v ELSE Rounded[v]

\* One division of floating-point numbers, known by its operands.
ToDisplayScore(row) == [value |-> NumberOf(row.value), tens |-> row.value_decimals]

\* All the rows of an agent, or those with a tag1.
FeedbackRows(T, a, tag) == {r \in T.feedback : r.key[1] = a /\ tag \in {None, r.tag1}}

\* ORDER BY created_at DESC, id DESC LIMIT and OFFSET.  An event that was held back
\* is inserted late, so any rows may be the newest.
Newest(rows, limit, offset) ==
    LET left == Cardinality(rows) - offset
    IN IF offset = 0 /\ Cardinality(rows) <= limit THEN {rows}
       ELSE {S \in SUBSET rows : Cardinality(S) = IF left < limit THEN Max({left, 0}) ELSE limit}

\* What the page may have read.
PageRows(T, a, tag) == Newest(FeedbackRows(T, a, tag), PAGE_FEEDBACK, 0)
ResponseRows(T, a) == {q \in T.responses : q.key[1] = a}
PageResponses(T, a) == Newest(ResponseRows(T, a), PAGE_RESPONSES, 0)

\* Revoked feedback included, each with the responses to its key.
LoadFeedback(rows, responses) ==
    {[feedbackIndex |-> r.key[3], clientAddress |-> r.key[2], score |-> ToDisplayScore(r),
      isRevoked |-> r.is_revoked, responses |-> {q \in responses : q.key = r.key}] : r \in rows}

FeedbackCards(loaded) ==
    {[of |-> <<f.clientAddress, f.feedbackIndex>>, score |-> f.score, revoked |-> f.isRevoked,
      answers |-> Cardinality(f.responses)] : f \in loaded}

Bug_RevokedCounted(rows) ==
    LET of(c) == {r \in rows : r.key[2] = c}
    IN [c \in {r.key[2] : r \in rows} |->
          [feedbackCount |-> Cardinality(of(c)), scored |-> {<<r.key[2], r.key[3]>> : r \in of(c)}]]

\* clientMap: per client, the feedback that is not revoked and whose scores are added.
ClientMap(rows) ==
    LET live == {r \in rows : ~r.is_revoked}
        of(c) == {r \in live : r.key[2] = c}
    IN [c \in {r.key[2] : r \in live} |->
          [feedbackCount |-> Cardinality(of(c)), scored |-> {<<r.key[2], r.key[3]>> : r \in of(c)}]]

\* The clients with the most feedback, any of them on a tie.
ClientBreakdown(rows) ==
    LET map == ClientMap(rows)
        first == {S \in Newest(DOMAIN map, PAGE_CLIENTS, 0) :
                    \A c \in S, d \in DOMAIN map \ S : map[d].feedbackCount <= map[c].feedbackCount}
    IN {[c \in S |-> map[c]] : S \in first}

\* /api/v1/agents/<id>/feedback: rows of a page, with the responses that join it.
HandleAgentFeedback(T, a, tag, page, limit) ==
    LET all == FeedbackRows(T, a, tag)
        joined(rows) == {q \in T.responses : \E r \in rows : r.key = q.key}
        item(r, rows) ==
           [feedbackIndex |-> r.key[3], clientAddress |-> r.key[2], value |-> NumberOf(r.value),
            valueDecimals |-> r.value_decimals, isRevoked |-> r.is_revoked,
            responses |-> {q \in joined(rows) : q.key[2] = r.key[2] /\ q.key[3] = r.key[3]}]
    IN {[items |-> {item(r, rows) : r \in rows}, hasMore |-> page * limit < Cardinality(all)] :
          rows \in Newest(all, limit, (page - 1) * limit)}

\* The row of leaderboard_scores: feedback of the present owner does not count.
\* total_score is in hundredths, halves away from zero, from sums in integers; beyond
\* the limits of score_exact it is a REAL, which is not modelled (None).
LeaderboardScores(T, a, owner) ==
    LET fb == {r \in FeedbackRows(T, a, None) : ~r.is_revoked /\ r.key[2] # owner}
        k == Max({r.value_decimals : r \in fb} \cup {2})
        exact == /\ k <= ExactDecimals /\ Cardinality(fb) <= ExactCount
                 /\ \A r \in fb : Abs(r.value) < Pow10(ExactDigits + r.value_decimals)
        s == SumFunction([r \in fb |-> r.value * Pow10(k - r.value_decimals)])
        m == Cardinality(fb) * Pow10(k - 2)
        score == (IF s < 0 THEN -1 ELSE 1) * ((2 * Abs(s) + m) \div (2 * m))
    IN [feedback_count |-> Cardinality(fb),
        unique_clients |-> Cardinality({r.key[2] : r \in fb}),
        score_exact |-> fb = {} \/ exact,
        total_score |-> IF fb = {} THEN 0 ELSE IF exact THEN score ELSE None]

-----------------------------------------------------------------------------
(* The storage of the contract, as the tables should show it.  Of a response
   the storage has no more than that it was counted. *)

Given == {k \in Agents \X Addresses \X Indexes : HasFeedback(k[1], k[2], k[3])}

ResponseId(key, n) == <<key, n>>
Responses(key) == 1 .. response_count[key[1]][key[2]][key[3]]

Tables ==
    [feedback |->
        {LET f == feedback[k[1]][k[2]][k[3]]
         IN [key |-> k, value |-> ValueOf[f.body], value_decimals |-> DecimalsOf[f.body],
             is_revoked |-> f.is_revoked, tag1 |-> Decode(f.body)] : k \in Given},
     responses |->
        UNION {{[key |-> k, event_id |-> ResponseId(k, n), response_index |-> n, responder |-> k[2]] :
                   n \in Responses(k)} : k \in Given}]

\* The events published so far about the feedback f under k, answered n times,
\* with their ids.
History(k, f, n) ==
    LET event(type) == [type |-> type, agent |-> k[1], client |-> k[2], index |-> k[3]]
    IN {<<event("new_feedback"), None>>}
       \cup (IF f.is_revoked THEN {<<event("feedback_revoked"), None>>} ELSE {})
       \cup {<<event("response_appended"), ResponseId(k, i)>> : i \in 1 .. n}

\* An event of the history through the parser and its statement.
Written(T, event, f, id) ==
    LET e == ParseReputationEvent(ReputationWire(event, f.body, event.client))
    IN IF e = None \/ MissingParent(T, e) THEN None ELSE EventStatement(T, e, id)

\* Every event of the contract takes the tables from the storage before the call
\* to the storage after it, through the parser and its statement, at the limits
\* too (index 1, a value below zero, the most decimals, feedback revoked before it
\* is answered).  An indexer that starts over and writes older events again
\* changes nothing: revoked feedback stays revoked, no response is counted twice.
FeedbackTablesFollow ==
    [][ <<feedback, response_count>>' # <<feedback, response_count>> =>
           LET k == <<published'.agent, published'.client, published'.index>>
               f == feedback'[k[1]][k[2]][k[3]]
               n == response_count'[k[1]][k[2]][k[3]]
           IN \A after \in {Tables'} :
                 /\ Written(Tables, published', f, ResponseId(k, n)) = after
                 /\ \A h \in History(k, f, n) : Written(after, h[1], f, h[2]) = after ]_vars

\* The bodies a tag of the page matches.
Matching(tag) == IF tag = None THEN Admissible ELSE {tag}

\* The clients shown, from these rows, against get_summary; all: no row was left out.
ClientsAgree(a, tag, rows, all) ==
    \A shown \in ClientBreakdown(rows), c \in Addresses :
       LET live == LiveFeedback(a, {c}, Matching(tag))
           summary == GetSummary(a, <<c>>, Matching(tag))
       IN IF c \in DOMAIN shown
          THEN /\ shown[c].scored \subseteq live
               /\ all => shown[c].scored = live
               /\ summary # None =>
                     /\ shown[c].feedbackCount <= summary.count
                     /\ all => shown[c].feedbackCount = summary.count
          ELSE all /\ live # {} =>
                  /\ Cardinality(DOMAIN shown) = PAGE_CLIENTS
                  /\ \A d \in DOMAIN shown : Cardinality(live) <= shown[d].feedbackCount

\* A feedback the application shows, with a number of answers.
FeedbackAgrees(a, c, i, revoked, value, decimals) ==
    /\ c \in Addresses /\ i \in Indexes /\ HasFeedback(a, c, i)
    /\ revoked = feedback[a][c][i].is_revoked
    /\ value = NumberOf(ValueOf[feedback[a][c][i].body])
    /\ decimals = DecimalsOf[feedback[a][c][i].body]

\* What the web application says of an agent is what the contract says, as far as it
\* reads.  Every card of the page and every item of the API is a feedback with its
\* value, its revocation and its answers; the page has no more answers than were
\* given, and all as long as those of the agent fit, and the API always all.  The
\* page counts for a client only feedback that get_summary counts too: all of it if
\* the rows of the agent fit on the page, and then a client is left out only for
\* PAGE_CLIENTS others with as much feedback.  The leaderboard counts the feedback of
\* the clients that do not own the agent now (None: the owner is no client), and a
\* score that is said to be exact is their average to the nearest hundredth.
PageAgreesWithSummary ==
    \A T \in {Tables}, a \in Agents :
       /\ \A tag \in VALID_TAGS \cup {None} : \A rows \in PageRows(T, a, tag) :
             ClientsAgree(a, tag, rows, Cardinality(FeedbackRows(T, a, tag)) <= PAGE_FEEDBACK)
       /\ \A tag \in VALID_TAGS \cup {None} : \A rows \in PageRows(T, a, tag) :
             \A answers \in PageResponses(T, a) :
                \A card \in FeedbackCards(LoadFeedback(rows, answers)) :
                   LET c == card.of[1]
                       i == card.of[2]
                   IN /\ FeedbackAgrees(a, c, i, card.revoked, card.score.value, card.score.tens)
                      /\ card.answers <= response_count[a][c][i]
                      /\ Cardinality(ResponseRows(T, a)) <= PAGE_RESPONSES =>
                            card.answers = response_count[a][c][i]
       /\ \A tag \in {Decode(b) : b \in Admissible} \cup {None} :
             \A page \in 1 .. MAX_PAGE, limit \in 1 .. MAX_LIMIT :
                \A answer \in HandleAgentFeedback(T, a, tag, page, limit) :
                   /\ \A f \in answer.items :
                         LET c == f.clientAddress
                             i == f.feedbackIndex
                         IN /\ FeedbackAgrees(a, c, i, f.isRevoked, f.value, f.valueDecimals)
                            /\ Cardinality(f.responses) = response_count[a][c][i]
                   /\ page = 1 /\ ~answer.hasMore =>
                         \A c \in Addresses, i \in Indexes :
                            HasFeedback(a, c, i) /\ tag \in {None, Decode(feedback[a][c][i].body)} =>
                               \E f \in answer.items : f.clientAddress = c /\ f.feedbackIndex = i
       /\ \A owner \in Addresses \cup {None} :
             LET score == LeaderboardScores(T, a, owner)
                 live == LiveFeedback(a, Addresses \ {owner}, Admissible)
                 unit == Cardinality(live) * Pow10(WAD - 2)
             IN /\ score.feedback_count = Cardinality(live)
                /\ score.score_exact =>
                      2 * Abs(score.total_score * unit - ExactSum(a, live)) <= unit
=============================================================================
