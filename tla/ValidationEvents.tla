--------------------------- MODULE ValidationEvents ---------------------------
(* From the events of the validation registry to the agent page: the indexer's
   parser, its statements on the validations table, a set of rows, and the read
   side.  Bug_... are broken variants of the definitions they precede. *)
EXTENDS ValidationRegistry, FiniteSets

CONSTANTS
    NotUtf8, Replaced, \* see module EventWire
    PAGE_VALIDATIONS   \* rows the agent page reads

INSTANCE EventWire WITH EmptyText <- EmptyTag

\* Events as the parser returns them.
EventBases == [validatorAddress : Addresses, agentId : Agents, requestHash : Hashes]
ParsedRequests == [type : {"ValidationRequest"}, base : EventBases, requestUri : {EmptyTag}]
ParsedResponses ==
    [type : {"ValidationResponse"}, base : EventBases, response : 0 .. 100, tag : {Decode(t) : t \in Tags}]

\* null is no value on the wire, no event, no part of one and no ledger.  The empty
\* text is valid UTF-8, and a text with a U+FFFD in it is not empty.
ASSUME WireAssumption ==
    /\ None \notin Agents /\ None \notin Tags /\ None \notin 0 .. 100 /\ None \notin Ledgers
    /\ None \notin {"ValidationRequest", "ValidationResponse"}
    /\ None \notin EventBases /\ None \notin ParsedRequests /\ None \notin ParsedResponses
    /\ EmptyTag \notin NotUtf8 /\ \A b \in NotUtf8 : Replaced[b] \notin {None, EmptyTag}
    /\ PAGE_VALIDATIONS \in Nat /\ IsFiniteSet(Hashes)

\* The event of a call, with the request it leaves in the storage.
ValidationWire(e, v) ==
    LET topics == <<Address(v.validator_address), U32(v.agent_id), Bytes(e.hash)>>
    IN IF e.type = "validation_requested"
       THEN Wire("validation_request", topics, [request_uri |-> String(EmptyTag)])
       ELSE Wire("validation_response", topics, [response |-> U32(v.response), tag |-> String(v.tag)])

-----------------------------------------------------------------------------
(* parsers/validation.ts *)

\* Zero is an answer.
ValidResponse(r) == r # None /\ r \in 0 .. 100

ParseValidationEvent(w) ==
    LET base == [validatorAddress |-> ToAddress(Topic(w, 1)), agentId |-> ToSafeInteger(Topic(w, 2)),
                 requestHash |-> ToHex(Topic(w, 3))]
        response == ToSafeInteger(Field(w, "response"))
    IN IF Len(w.topics) < 4 THEN None
       ELSE CASE EventName(w) = "validation_request" ->
                    Parsed([type |-> "ValidationRequest", base |-> Parsed(base),
                            requestUri |-> IF Field(w, "request_uri").type = "string"
                                           THEN BytesToUtf8(Field(w, "request_uri")) ELSE None])
              [] EventName(w) = "validation_response" ->
                    Parsed([type |-> "ValidationResponse", base |-> Parsed(base),
                            response |-> IF ValidResponse(response) THEN response ELSE None,
                            tag |-> ToText(Field(w, "tag"))])
              [] OTHER -> None

-----------------------------------------------------------------------------
(* The statements of the indexer *)

ValidationRequested(T, e) ==
    IF \E r \in T : r.request_hash = e.base.requestHash THEN T
    ELSE T \cup {[request_hash |-> e.base.requestHash, agent_id |-> e.base.agentId,
                  validator_address |-> e.base.validatorAddress, has_response |-> FALSE,
                  response |-> None, tag |-> None, response_ledger |-> None]}

Bug_AlwaysApplied(column, at) == TRUE

\* An answer applies unless one of a later ledger was applied to the row.
NotApplied(column, at) == column = None \/ column <= at

\* toText, then null for the empty text.
TagColumn(tag) == IF tag = EmptyTag THEN None ELSE tag

ValidationResponded(T, e, at) ==
    {IF r.request_hash = e.base.requestHash /\ NotApplied(r.response_ledger, at)
     THEN [r EXCEPT !.has_response = TRUE, !.response = e.response, !.tag = TagColumn(e.tag),
                    !.response_ledger = at]
     ELSE r : r \in T}

EventStatement(T, e, at) ==
    IF e.type = "ValidationRequest" THEN ValidationRequested(T, e) ELSE ValidationResponded(T, e, at)

\* The row an answer updates.
MissingParent(T, e) ==
    e.type = "ValidationResponse" /\ ~\E r \in T : r.request_hash = e.base.requestHash

-----------------------------------------------------------------------------
(* The agent page *)

\* ORDER BY created_at DESC LIMIT.  Rows of one ledger come in any order and the
\* storage does not keep the ledger of a request, so any rows may be the newest.
Newest(rows, limit) ==
    IF Cardinality(rows) <= limit THEN {rows} ELSE {S \in SUBSET rows : Cardinality(S) = limit}

\* What the page may have loaded.
LoadValidations(T, a) ==
    {{[requestHash |-> r.request_hash, validatorAddress |-> r.validator_address,
       response |-> r.response, hasResponse |-> r.has_response, tag |-> r.tag] : r \in rows} :
       rows \in Newest({q \in T : q.agent_id = a}, PAGE_VALIDATIONS)}

\* A card has the answer, zero included, or says that it is pending (None).
ValidationCards(validations) ==
    {[of |-> v.requestHash, tag |-> v.tag,
      shows |-> IF v.hasResponse /\ v.response # None THEN v.response ELSE None] :
       v \in validations}

-----------------------------------------------------------------------------
(* The storage of the contract, as the table should show it *)

Table ==
    {LET v == validation[h]
     IN [request_hash |-> h, agent_id |-> v.agent_id, validator_address |-> v.validator_address,
         has_response |-> v.has_response, response |-> IF v.has_response THEN v.response ELSE None,
         tag |-> TagColumn(Decode(v.tag)), response_ledger |-> IF v.has_response THEN v.last_update ELSE None] :
       h \in {g \in Hashes : HasValidation(g)}}

\* The event e of ledger at through the parser and its statement; v is what the
\* call left in the storage.
Written(T, e, v, at) ==
    LET event == ParseValidationEvent(ValidationWire(e, v))
    IN IF event = None \/ MissingParent(T, event) THEN None ELSE EventStatement(T, event, at)

\* The cards of the page of agent a, against the requests in the storage.
PageShows(cards, a, val) ==
    LET requests == {h \in Hashes : val[h].validator_address # None /\ val[h].agent_id = a}
    IN /\ \A c \in cards :
             /\ c.of \in requests
             /\ c.shows = IF val[c.of].has_response THEN val[c.of].response ELSE None
       /\ Cardinality(requests) <= PAGE_VALIDATIONS =>
             {c.of : c \in {q \in cards : q.shows # None}}
                = {h \in requests : val[h].has_response}

\* Every event of the contract takes the table from the storage before the call
\* to the storage after it, for answers at both ends of the range and for a second
\* answer to the same request, in the same ledger or a later one.  Written again,
\* the request changes nothing, nor does any answer of an earlier ledger.  Whichever
\* rows the page has loaded, it shows them with the answer the contract has, or as
\* pending when it has none, and it shows every request of the agent that
\* get_summary counts as long as all its requests fit on the page.
ValidationTableFollows ==
    [][ validation' # validation =>
           LET h == published'.hash
               v == validation'[h]
               requested == [type |-> "validation_requested", hash |-> h]
               responded == [type |-> "validation_responded", hash |-> h]
           IN \A after \in {Table'} :
                 /\ Written(Table, published', v, ledger) = after
                 /\ Written(after, requested, v, ledger) = after
                 /\ v.has_response =>
                       \A at \in 0 .. ledger - 1, r \in {q \in Responses : q <= 100} :
                          Written(after, responded, [v EXCEPT !.response = r], at) = after
                 /\ \A a \in Agents : \A page \in LoadValidations(after, a) :
                       PageShows(ValidationCards(page), a, validation') ]_vars
=============================================================================
