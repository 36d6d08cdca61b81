--------------------------- MODULE ValidationProofs ---------------------------
(***************************************************************************)
(* Proofs about ValidationRegistry, for every set of addresses, agents and *)
(* request hashes.                                                         *)
(***************************************************************************)
EXTENDS ValidationEvents, SequenceTheorems, FiniteSetTheorems, FunctionTheorems, TLAPS

\* An answer or a request is never dated in the future, so a later answer
\* cannot move last_update back.
NotFromTheFuture == \A h \in Hashes : validation[h].last_update <= ledger

\* Only requests have answers, so an answered hash is in its agent's list.
OnlyRequestsAnswered == \A h \in Hashes : validation[h].has_response => HasValidation(h)

ValidationInv ==
    TypeOK /\ ListsMatchRequests /\ NotFromTheFuture /\ OnlyRequestsAnswered

\* The slots of the two lists that hold a hash.
Holding(at, count, h) == {s \in Slots : s < count /\ at[s] = h}
AgentSlots(a, h) == Holding(agent_at[a], agent_count[a], h)
ValidatorSlots(v, h) == Holding(validator_at[v], validator_count[v], h)

\* ListsMatchRequests in terms of them.
LEMMA ListsBySlots ==
  ListsMatchRequests <=>
    /\ \A a \in Agents, h \in Hashes :
          IF HasValidation(h) /\ validation[h].agent_id = a
          THEN \E s \in Slots : AgentSlots(a, h) = {s} ELSE AgentSlots(a, h) = {}
    /\ \A v \in Addresses, h \in Hashes :
          IF HasValidation(h) /\ validation[h].validator_address = v
          THEN \E s \in Slots : ValidatorSlots(v, h) = {s} ELSE ValidatorSlots(v, h) = {}
  BY DEF ListsMatchRequests, AgentSlots, ValidatorSlots, Holding

\* Appending h to a list that does not hold it: h gets the new slot, every other
\* hash keeps the slots it has.
LEMMA AppendSlot ==
  ASSUME NEW top \in Slots, NEW count, count = top + 1, NEW at, NEW after, NEW h, NEW g,
         \A s \in Slots : after[s] = IF s = top THEN h ELSE at[s],
         Holding(at, top, h) = {}
  PROVE  /\ g = h => Holding(after, count, g) = {top}
         /\ g # h => Holding(after, count, g) = Holding(at, top, g)
<1>1. \A s \in Slots : (s < count <=> s < top \/ s = top) /\ (s < top => s # top)
  BY ValidationAssumption DEF Slots
<1>2. \A s \in Slots : s < count /\ after[s] = g
                          <=> IF g = h THEN s = top ELSE s < top /\ at[s] = g
  BY <1>1 DEF Holding
<1>3. CASE g = h
  BY <1>2, <1>3 DEF Holding
<1>4. CASE g # h
  BY <1>2, <1>4 DEF Holding
<1> QED
  BY <1>3, <1>4

\* The invariant holds initially.
LEMMA ValidationInit == Init => ValidationInv
<1> SUFFICES ASSUME Init PROVE ValidationInv
  OBVIOUS
<1> USE ValidationAssumption DEF Init, Slots, Ledgers
<1>1. TypeOK
  BY DEF TypeOK, NoValidation, ValidationStatus, Event
<1>2. ListsMatchRequests
  BY ListsBySlots DEF AgentSlots, ValidatorSlots, Holding, HasValidation, NoValidation
<1>3. NotFromTheFuture /\ OnlyRequestsAnswered
  BY DEF NotFromTheFuture, OnlyRequestsAnswered, NoValidation
<1> QED
  BY <1>1, <1>2, <1>3 DEF ValidationInv

\* A request keeps the invariant: its hash was in no list, and the slot it gets
\* in each was free.
LEMMA RequestStep ==
  ASSUME ValidationInv, NEW x \in Addresses, NEW v \in Addresses, NEW a \in Agents,
         NEW h \in Hashes, ValidationRequest(x, v, a, h)
  PROVE  ValidationInv'
<1> USE ValidationAssumption DEF ValidationInv
<1> DEFINE entry == [validator_address |-> v, agent_id |-> a, response |-> 0,
                     tag |-> EmptyTag, last_update |-> ledger, has_response |-> FALSE]
           m == agent_count[a]
           n == validator_count[v]
<1>1. /\ validation' = [validation EXCEPT ![h] = entry]
      /\ agent_at' = [agent_at EXCEPT ![a][m] = h]
      /\ agent_count' = [agent_count EXCEPT ![a] = m + 1]
      /\ validator_at' = [validator_at EXCEPT ![v][n] = h]
      /\ validator_count' = [validator_count EXCEPT ![v] = n + 1]
      /\ published' = [type |-> "validation_requested", hash |-> h]
      /\ ledger' = ledger
      /\ find_owner' = find_owner /\ get_approved' = get_approved
      /\ operator_of' = operator_of
  BY DEF ValidationRequest, AddAgentValidation, AddValidatorRequest, identity, TypeOK
<1>2. /\ m \in Slots /\ m \in Nat /\ m + 1 \in 0 .. MaxRequests
      /\ n \in Slots /\ n \in Nat /\ n + 1 \in 0 .. MaxRequests
  BY DEF ValidationRequest, AddAgentValidation, AddValidatorRequest, TypeOK, Slots
<1>3. ~HasValidation(h)
  BY DEF ValidationRequest, IsNew
<1>4. entry \in ValidationStatus
  BY DEF ValidationStatus, TypeOK
<1>5. TypeOK'
  <2> HIDE DEF entry, m, n
  <2>1. validation' \in [Hashes -> ValidationStatus]
    BY <1>1, <1>4 DEF TypeOK
  <2>2. agent_at' \in [Agents -> [Slots -> Hashes \cup {None}]]
    BY <1>1, <1>2 DEF TypeOK
  <2>3. validator_at' \in [Addresses -> [Slots -> Hashes \cup {None}]]
    BY <1>1, <1>2 DEF TypeOK
  <2>4. published' \in Event
    BY <1>1 DEF Event
  <2> QED
    BY <1>1, <1>2, <2>1, <2>2, <2>3, <2>4 DEF TypeOK
<1>6. \A g \in Hashes :
         /\ g # h => validation'[g] = validation[g]
         /\ g = h => validation'[g] = entry
  BY <1>1 DEF TypeOK
<1>7. ASSUME NEW b \in Agents, NEW g \in Hashes
      PROVE AgentSlots(b, g)' = IF g = h /\ b = a THEN {m} ELSE AgentSlots(b, g)
  <2>1. CASE b # a
    <3>1. agent_at'[b] = agent_at[b] /\ agent_count'[b] = agent_count[b]
      BY <2>1, <1>1 DEF TypeOK
    <3> QED
      BY <2>1, <3>1 DEF AgentSlots
  <2>2. CASE b = a
    <3>1. \A s \in Slots : agent_at'[b][s] = IF s = m THEN h ELSE agent_at[b][s]
      BY <2>2, <1>1, <1>2 DEF TypeOK
    <3>2. agent_count'[b] = m + 1 /\ agent_count[b] = m
      BY <2>2, <1>1 DEF TypeOK
    <3>3. Holding(agent_at[b], m, h) = {}
      BY <1>3, <2>2, ListsBySlots DEF AgentSlots
    <3>4. Holding(agent_at'[b], agent_count'[b], g)
             = IF g = h THEN {m} ELSE Holding(agent_at[b], m, g)
      <4> HIDE DEF entry, m, n
      <4>1. m \in Slots
        BY <1>2
      <4>2. CASE g = h
        BY <4>1, <4>2, <3>1, <3>2, <3>3, AppendSlot
      <4>3. CASE g # h
        BY <4>1, <4>3, <3>1, <3>2, <3>3, AppendSlot
      <4> QED
        BY <4>2, <4>3
    <3> QED
      BY <2>2, <3>2, <3>4 DEF AgentSlots
  <2> QED
    BY <2>1, <2>2
<1>8. ASSUME NEW w \in Addresses, NEW g \in Hashes
      PROVE ValidatorSlots(w, g)' = IF g = h /\ w = v THEN {n} ELSE ValidatorSlots(w, g)
  <2>1. CASE w # v
    <3>1. validator_at'[w] = validator_at[w] /\ validator_count'[w] = validator_count[w]
      BY <2>1, <1>1 DEF TypeOK
    <3> QED
      BY <2>1, <3>1 DEF ValidatorSlots
  <2>2. CASE w = v
    <3>1. \A s \in Slots : validator_at'[w][s] = IF s = n THEN h ELSE validator_at[w][s]
      BY <2>2, <1>1, <1>2 DEF TypeOK
    <3>2. validator_count'[w] = n + 1 /\ validator_count[w] = n
      BY <2>2, <1>1 DEF TypeOK
    <3>3. Holding(validator_at[w], n, h) = {}
      BY <1>3, <2>2, ListsBySlots DEF ValidatorSlots
    <3>4. Holding(validator_at'[w], validator_count'[w], g)
             = IF g = h THEN {n} ELSE Holding(validator_at[w], n, g)
      <4> HIDE DEF entry, m, n
      <4>1. n \in Slots
        BY <1>2
      <4>2. CASE g = h
        BY <4>1, <4>2, <3>1, <3>2, <3>3, AppendSlot
      <4>3. CASE g # h
        BY <4>1, <4>3, <3>1, <3>2, <3>3, AppendSlot
      <4> QED
        BY <4>2, <4>3
    <3> QED
      BY <2>2, <3>2, <3>4 DEF ValidatorSlots
  <2> QED
    BY <2>1, <2>2
<1>9. ListsMatchRequests'
  <2>1. \A g \in Hashes : HasValidation(g)' <=> HasValidation(g) \/ g = h
    BY <1>6 DEF HasValidation
  <2>2. ASSUME NEW b \in Agents, NEW g \in Hashes
        PROVE IF HasValidation(g)' /\ validation'[g].agent_id = b
              THEN \E s \in Slots : AgentSlots(b, g)' = {s} ELSE AgentSlots(b, g)' = {}
    BY <1>2, <1>3, <1>6, <1>7, <2>1, ListsBySlots
  <2>3. ASSUME NEW w \in Addresses, NEW g \in Hashes
        PROVE IF HasValidation(g)' /\ validation'[g].validator_address = w
              THEN \E s \in Slots : ValidatorSlots(w, g)' = {s}
              ELSE ValidatorSlots(w, g)' = {}
    BY <1>2, <1>3, <1>6, <1>8, <2>1, ListsBySlots
  <2> QED
    BY <2>2, <2>3 DEF ListsMatchRequests, AgentSlots, ValidatorSlots, Holding
<1>10. NotFromTheFuture' /\ OnlyRequestsAnswered'
  BY <1>1, <1>6 DEF NotFromTheFuture, OnlyRequestsAnswered, HasValidation, TypeOK, Ledgers
<1> QED
  BY <1>5, <1>9, <1>10

\* A response keeps the invariant: it changes neither the agent nor the
\* validator of the request.
LEMMA ResponseStep ==
  ASSUME ValidationInv, NEW x \in Addresses, NEW h \in Hashes, NEW r \in Responses,
         NEW t \in Tags, ValidationResponse(x, h, r, t)
  PROVE  ValidationInv'
<1> USE ValidationAssumption DEF ValidationInv
<1> DEFINE entry == [validation[h] EXCEPT !.response = r, !.tag = t,
                                          !.last_update = ledger, !.has_response = TRUE]
<1>1. /\ validation' = [validation EXCEPT ![h] = entry]
      /\ published' = [type |-> "validation_responded", hash |-> h]
      /\ UNCHANGED <<ledger, find_owner, get_approved, operator_of, agent_count,
                     agent_at, validator_count, validator_at>>
  BY DEF ValidationResponse, identity, indexes
<1>2. /\ entry \in ValidationStatus
      /\ entry.validator_address = validation[h].validator_address
      /\ entry.agent_id = validation[h].agent_id
      /\ entry.last_update = ledger
  <2>1. validation[h] \in ValidationStatus /\ ledger \in Ledgers
    BY DEF TypeOK
  <2>2. r \in 0 .. 100
    BY DEF ValidationResponse, ResponseInRange
  <2> QED
    BY <2>1, <2>2 DEF ValidationStatus
<1> HIDE DEF entry
<1>3. TypeOK'
  <2>1. published' \in Event
    BY <1>1 DEF Event
  <2> QED
    BY <1>1, <1>2, <2>1 DEF TypeOK
<1>4. \A g \in Hashes :
         /\ validation'[g].validator_address = validation[g].validator_address
         /\ validation'[g].agent_id = validation[g].agent_id
         /\ validation'[g].last_update \in {validation[g].last_update, ledger}
  BY <1>1, <1>2 DEF TypeOK
<1>5. ListsMatchRequests'
  BY <1>1, <1>4 DEF ListsMatchRequests, HasValidation
<1>6. NotFromTheFuture' /\ OnlyRequestsAnswered'
  <2>1. HasValidation(h)
    BY DEF ValidationResponse
  <2>2. \A g \in Hashes \ {h} : validation'[g] = validation[g]
    BY <1>1 DEF TypeOK
  <2> QED
    BY <1>1, <1>4, <2>1, <2>2
    DEF NotFromTheFuture, OnlyRequestsAnswered, HasValidation, TypeOK, Ledgers
<1> QED
  BY <1>3, <1>5, <1>6

\* Every call of the registry and every move of the identity registry preserves
\* the invariant.
LEMMA ValidationStep == ValidationInv /\ [Next]_vars => ValidationInv'
<1> SUFFICES ASSUME ValidationInv, [Next]_vars PROVE ValidationInv'
  OBVIOUS
<1> USE ValidationAssumption DEF ValidationInv
<1>1. CASE IdentityMoves
  <2>1. /\ UNCHANGED <<validation, agent_count, agent_at, validator_count,
                       validator_at, published>>
        /\ ledger' \in Ledgers /\ ledger <= ledger'
    BY <1>1 DEF IdentityMoves, indexes, TypeOK, Ledgers
  <2>2. TypeOK'
    BY <1>1, <2>1 DEF IdentityMoves, TypeOK
  <2>3. ListsMatchRequests' /\ OnlyRequestsAnswered'
    BY <2>1 DEF ListsMatchRequests, OnlyRequestsAnswered, HasValidation
  <2>4. NotFromTheFuture'
    <3>1. ASSUME NEW h \in Hashes PROVE validation[h].last_update <= ledger'
      <4>1. validation[h].last_update \in Ledgers
        BY DEF TypeOK, ValidationStatus
      <4> QED
        BY <2>1, <4>1 DEF NotFromTheFuture, TypeOK, Ledgers
    <3> QED
      BY <2>1, <3>1 DEF NotFromTheFuture
  <2> QED
    BY <2>2, <2>3, <2>4
<1>2. CASE UNCHANGED vars
  <2>1. UNCHANGED <<ledger, find_owner, get_approved, operator_of, validation,
                    agent_count, agent_at, validator_count, validator_at, published>>
    BY <1>2 DEF vars, identity, indexes
  <2>2. TypeOK'
    BY <2>1 DEF TypeOK
  <2>3. ListsMatchRequests' /\ OnlyRequestsAnswered'
    BY <2>1 DEF ListsMatchRequests, OnlyRequestsAnswered, HasValidation
  <2>4. NotFromTheFuture'
    BY <2>1 DEF NotFromTheFuture
  <2> QED
    BY <2>2, <2>3, <2>4
<1> QED
  BY <1>1, <1>2, RequestStep, ResponseStep DEF Next

-----------------------------------------------------------------------------
(* Theorems *)

\* The invariant holds in every reachable state.
LEMMA ValidationInvariant == Spec => []ValidationInv
  BY ValidationInit, ValidationStep, PTL DEF Spec

\* The storage entries keep their types.
THEOREM ValidationTypes == Spec => []TypeOK
<1>1. ValidationInv => TypeOK
  BY DEF ValidationInv
<1> QED
  BY <1>1, ValidationInvariant, PTL

\* Both lists hold exactly the requests that name their agent or validator,
\* each once.
THEOREM MatchingLists == Spec => []ListsMatchRequests
<1>1. ValidationInv => ListsMatchRequests
  BY DEF ValidationInv
<1> QED
  BY <1>1, ValidationInvariant, PTL

\* get_summary counts each matching request of the agent once: it walks the
\* agent's list, which holds each of its requests in exactly one slot.
THEOREM SummaryCounts == Spec => []SummaryCountsRequests
<1>1. ValidationInv => SummaryCountsRequests
  <2> SUFFICES ASSUME ValidationInv, NEW a \in Agents, NEW vs \in SUBSET Addresses,
                      NEW t \in Tags
               PROVE /\ {agent_at[a][s] : s \in SummarySlots(a, vs, t)}
                           = {h \in Hashes : validation[h].agent_id = a
                                                /\ Matches(vs, t, h)}
                     /\ \A s1, s2 \in SummarySlots(a, vs, t) :
                           agent_at[a][s1] = agent_at[a][s2] => s1 = s2
    BY DEF SummaryCountsRequests
  <2> USE DEF ValidationInv
  <2>1. \A h \in Hashes :
           IF HasValidation(h) /\ validation[h].agent_id = a
           THEN \E s \in Slots : AgentSlots(a, h) = {s} ELSE AgentSlots(a, h) = {}
    BY ListsBySlots
  <2>2. \A s \in Slots, h \in Hashes :
           s \in AgentSlots(a, h) <=> s < agent_count[a] /\ agent_at[a][s] = h
    BY DEF AgentSlots, Holding
  <2>3. \A s \in SummarySlots(a, vs, t) :
           /\ s \in Slots /\ agent_at[a][s] \in Hashes
           /\ s \in AgentSlots(a, agent_at[a][s])
           /\ Matches(vs, t, agent_at[a][s])
    BY <2>2 DEF SummarySlots, TypeOK
  <2>4. \A s \in SummarySlots(a, vs, t) : validation[agent_at[a][s]].agent_id = a
    BY <2>1, <2>3
  <2>5. ASSUME NEW h \in Hashes, validation[h].agent_id = a, Matches(vs, t, h)
        PROVE \E s \in SummarySlots(a, vs, t) : agent_at[a][s] = h
    <3>1. HasValidation(h)
      BY <2>5 DEF Matches, OnlyRequestsAnswered
    <3>2. PICK s \in Slots : s \in AgentSlots(a, h)
      BY <2>1, <2>5, <3>1
    <3> QED
      BY <2>2, <2>5, <3>1, <3>2, ValidationAssumption DEF SummarySlots
  <2>6. ASSUME NEW s1 \in SummarySlots(a, vs, t), NEW s2 \in SummarySlots(a, vs, t),
               agent_at[a][s1] = agent_at[a][s2]
        PROVE s1 = s2
    BY <2>1, <2>3, <2>4, <2>6
  <2> QED
    BY <2>3, <2>4, <2>5, <2>6
<1> QED
  BY <1>1, ValidationInvariant, PTL

\* A request keeps its agent and validator, its answer is never withdrawn and
\* its last_update never goes back.
THEOREM PermanentRequests == Spec => RequestsArePermanent
<1> DEFINE A == \A h \in Hashes : HasValidation(h) =>
             /\ validation'[h].validator_address = validation[h].validator_address
             /\ validation'[h].agent_id = validation[h].agent_id
             /\ validation[h].has_response => validation'[h].has_response
             /\ validation'[h].last_update >= validation[h].last_update
<1>1. ASSUME ValidationInv, [Next]_vars PROVE [A]_vars
  <2> USE <1>1, ValidationAssumption DEF ValidationInv
  <2>1. \A h \in Hashes : validation[h].last_update \in Nat
    BY DEF TypeOK, ValidationStatus, Ledgers
  <2>2. ASSUME NEW x \in Addresses, NEW v \in Addresses, NEW a \in Agents,
               NEW h \in Hashes, ValidationRequest(x, v, a, h)
        PROVE A
    BY <2>1, <2>2 DEF ValidationRequest, IsNew, TypeOK
  <2>3. ASSUME NEW x \in Addresses, NEW g \in Hashes, NEW r \in Responses,
               NEW t \in Tags, ValidationResponse(x, g, r, t)
        PROVE A
    <3> SUFFICES ASSUME NEW h \in Hashes
                 PROVE /\ validation'[h].validator_address = validation[h].validator_address
                       /\ validation'[h].agent_id = validation[h].agent_id
                       /\ validation[h].has_response => validation'[h].has_response
                       /\ validation'[h].last_update >= validation[h].last_update
      OBVIOUS
    <3>1. CASE h # g
      BY <2>1, <2>3, <3>1 DEF ValidationResponse, TypeOK
    <3>2. CASE h = g
      <4>1. validation'[h] = [validation[h] EXCEPT !.response = r, !.tag = t,
                                 !.last_update = ledger, !.has_response = TRUE]
        BY <2>3, <3>2 DEF ValidationResponse, TypeOK
      <4>2. validation[h] \in ValidationStatus /\ ledger \in Nat
        BY DEF TypeOK, Ledgers
      <4>3. validation[h].last_update <= ledger
        BY DEF NotFromTheFuture
      <4> QED
        BY <2>1, <4>1, <4>2, <4>3 DEF ValidationStatus
    <3> QED
      BY <3>1, <3>2
  <2>4. ASSUME UNCHANGED validation PROVE A
    BY <2>1, <2>4
  <2>5. CASE Next
    BY <2>2, <2>3, <2>4, <2>5 DEF Next, IdentityMoves
  <2> QED
    BY <2>5
<1> QED
  BY <1>1, ValidationInvariant, PTL DEF Spec, RequestsArePermanent

-----------------------------------------------------------------------------
(* The table the indexer keeps of the requests *)

\* A row, the row of a request, and the rows of all requests of a storage.
Row(h, agent, validator, answered, response, tag, at) ==
    [request_hash |-> h, agent_id |-> agent, validator_address |-> validator,
     has_response |-> answered, response |-> response, tag |-> tag, response_ledger |-> at]

RowOf(h, v) ==
    Row(h, v.agent_id, v.validator_address, v.has_response,
        IF v.has_response THEN v.response ELSE None, TagColumn(Decode(v.tag)),
        IF v.has_response THEN v.last_update ELSE None)

Requested(val) == {g \in Hashes : val[g].validator_address # None}
RowsOf(val) == {RowOf(g, val[g]) : g \in Requested(val)}

\* A request as the contract stores it.
Requests == {v \in ValidationStatus : v.validator_address # None /\ v.agent_id # None}

BaseOf(h, v) ==
    [validatorAddress |-> v.validator_address, agentId |-> v.agent_id, requestHash |-> h]

\* The symbol of an event and its three topics in one list.
LEMMA TopicsJoined ==
  ASSUME NEW name, NEW a, NEW b, NEW c
  PROVE  <<name>> \o <<a, b, c>> = <<name, a, b, c>>
<1> DEFINE S == {name, a, b, c}
           joined == <<name>> \o <<a, b, c>>
           list == <<name, a, b, c>>
<1>1. <<name>> \in Seq(S) /\ <<a, b, c>> \in Seq(S) /\ list \in Seq(S)
  OBVIOUS
<1>2. joined \in Seq(S) /\ Len(joined) = 4
  BY <1>1, ConcatProperties
<1>3. joined[1] = name /\ joined[2] = a /\ joined[3] = b /\ joined[4] = c
  BY <1>1, ConcatProperties
<1>4. list[1] = name /\ list[2] = a /\ list[3] = b /\ list[4] = c /\ Len(list) = 4
  OBVIOUS
<1> HIDE DEF joined, list
<1>5. \A i \in 1 .. Len(joined) : joined[i] = list[i]
  <2>1. 1 .. Len(joined) = {1, 2, 3, 4}
    BY <1>2
  <2> QED
    BY <2>1, <1>3, <1>4
<1>6. Len(joined) = Len(list)
  BY <1>2, <1>4
<1> HIDE DEF S
<1>7. joined = list
  BY <1>1, <1>2, <1>5, <1>6, SeqEqual, Zenon
<1> QED
  BY <1>7 DEF joined, list

\* Reading back a wire of three topics.
LEMMA WireParts ==
  ASSUME NEW name, NEW a, NEW b, NEW c, NEW data
  PROVE  LET w == Wire(name, <<a, b, c>>, data)
         IN /\ EventName(w) = name /\ Len(w.topics) = 4
            /\ Topic(w, 1) = a /\ Topic(w, 2) = b /\ Topic(w, 3) = c /\ w.data = data
<1>1. <<Sv("symbol", name)>> \o <<a, b, c>> = <<Sv("symbol", name), a, b, c>>
  BY TopicsJoined
<1> QED
  BY <1>1 DEF Wire, EventName, Topic, Sv

\* The parser reads a request and an answer as the contract stored them.
LEMMA EventReadBack ==
  ASSUME NEW h \in Hashes, NEW v \in Requests
  PROVE  /\ ParseValidationEvent(ValidationWire([type |-> "validation_requested", hash |-> h], v))
               = [type |-> "ValidationRequest", base |-> BaseOf(h, v), requestUri |-> EmptyTag]
         /\ ParseValidationEvent(ValidationWire([type |-> "validation_responded", hash |-> h], v))
               = [type |-> "ValidationResponse", base |-> BaseOf(h, v), response |-> v.response,
                  tag |-> Decode(v.tag)]
<1> USE ValidationAssumption, WireAssumption
<1>1. /\ v.validator_address \in Addresses /\ v.agent_id \in Agents
      /\ v.response \in 0 .. 100 /\ v.tag \in Tags
      /\ BaseOf(h, v) \in EventBases
  BY DEF Requests, ValidationStatus, EventBases, BaseOf
<1>2. Parsed(BaseOf(h, v)) = BaseOf(h, v)
  BY <1>1 DEF Parsed, BaseOf
<1> DEFINE topics == <<Address(v.validator_address), U32(v.agent_id), Bytes(h)>>
<1>3. ASSUME NEW name, NEW data, NEW w, w = Wire(name, topics, data)
      PROVE  /\ EventName(w) = name /\ Len(w.topics) = 4 /\ w.data = data
             /\ ToAddress(Topic(w, 1)) = v.validator_address
             /\ ToSafeInteger(Topic(w, 2)) = v.agent_id
             /\ ToHex(Topic(w, 3)) = h
  <2>1. /\ EventName(w) = name /\ Len(w.topics) = 4 /\ w.data = data
        /\ Topic(w, 1) = Address(v.validator_address) /\ Topic(w, 2) = U32(v.agent_id)
        /\ Topic(w, 3) = Bytes(h)
    BY <1>3, WireParts
  <2> QED
    BY <1>1, <2>1
    DEF ToAddress, IsValidStellarAddress, ToSafeInteger, ToHex, Address, U32, Bytes, Sv
<1>4. ParseValidationEvent(ValidationWire([type |-> "validation_requested", hash |-> h], v))
         = [type |-> "ValidationRequest", base |-> BaseOf(h, v), requestUri |-> EmptyTag]
  <2> DEFINE w == Wire("validation_request", topics, [request_uri |-> String(EmptyTag)])
             event == [type |-> "ValidationRequest", base |-> BaseOf(h, v), requestUri |-> EmptyTag]
  <2>1. ValidationWire([type |-> "validation_requested", hash |-> h], v) = w
    BY DEF ValidationWire
  <2>2. Field(w, "request_uri") = String(EmptyTag)
    BY <1>3 DEF Field
  <2>3. /\ Field(w, "request_uri").type = "string" /\ BytesToUtf8(Field(w, "request_uri")) = EmptyTag
    BY <2>2 DEF BytesToUtf8, Decode, String, Sv
  <2>4. EventName(w) = "validation_request" /\ Len(w.topics) = 4
    BY <1>3
  <2>5. BaseOf(h, v) = [validatorAddress |-> ToAddress(Topic(w, 1)),
                        agentId |-> ToSafeInteger(Topic(w, 2)), requestHash |-> ToHex(Topic(w, 3))]
    BY <1>3 DEF BaseOf
  <2>6. Parsed(event) = event
    BY <1>1 DEF Parsed
  <2>7. ParseValidationEvent(w) = Parsed(event)
    <3> HIDE DEF w
    <3> QED
      BY <1>2, <2>3, <2>4, <2>5 DEF ParseValidationEvent
  <2> QED
    BY <2>1, <2>6, <2>7
<1>5. ParseValidationEvent(ValidationWire([type |-> "validation_responded", hash |-> h], v))
         = [type |-> "ValidationResponse", base |-> BaseOf(h, v), response |-> v.response,
            tag |-> Decode(v.tag)]
  <2> DEFINE w == Wire("validation_response", topics,
                       [response |-> U32(v.response), tag |-> String(v.tag)])
             event == [type |-> "ValidationResponse", base |-> BaseOf(h, v),
                       response |-> v.response, tag |-> Decode(v.tag)]
  <2>1. ValidationWire([type |-> "validation_responded", hash |-> h], v) = w
    BY DEF ValidationWire
  <2>2. Field(w, "response") = U32(v.response) /\ Field(w, "tag") = String(v.tag)
    BY <1>3 DEF Field
  <2>3. /\ ToSafeInteger(Field(w, "response")) = v.response /\ ValidResponse(v.response)
        /\ ToText(Field(w, "tag")) = Decode(v.tag) /\ Decode(v.tag) # None
    BY <1>1, <2>2 DEF ToSafeInteger, ValidResponse, ToText, BytesToUtf8, Decode, U32, String, Sv
  <2>4. EventName(w) = "validation_response" /\ Len(w.topics) = 4
    BY <1>3
  <2>5. BaseOf(h, v) = [validatorAddress |-> ToAddress(Topic(w, 1)),
                        agentId |-> ToSafeInteger(Topic(w, 2)), requestHash |-> ToHex(Topic(w, 3))]
    BY <1>3 DEF BaseOf
  <2>6. Parsed(event) = event
    BY <1>1, <2>3 DEF Parsed
  <2>7. ParseValidationEvent(w) = Parsed(event)
    <3> HIDE DEF w
    <3> QED
      BY <1>2, <2>3, <2>4, <2>5 DEF ParseValidationEvent
  <2> QED
    BY <2>1, <2>6, <2>7
<1> QED
  BY <1>4, <1>5

\* The two events about a request.
Request(h) == [type |-> "validation_requested", hash |-> h]
Response(h) == [type |-> "validation_responded", hash |-> h]

HasRow(T, h) == \E r \in T : r.request_hash = h

\* The row a request is written as.
NewRow(h, v) ==
    [request_hash |-> h, agent_id |-> v.agent_id, validator_address |-> v.validator_address,
     has_response |-> FALSE, response |-> None, tag |-> None, response_ledger |-> None]

\* A row, and a table, after an answer v of ledger at.
SetAnswer(r, v, at) ==
    [r EXCEPT !.has_response = TRUE, !.response = v.response, !.tag = TagColumn(Decode(v.tag)),
              !.response_ledger = at]

Answered(T, h, v, at) ==
    {IF r.request_hash = h /\ NotApplied(r.response_ledger, at)
     THEN SetAnswer(r, v, at) ELSE r : r \in T}

\* What writing a request or an answer does to a table that has, or lacks, its row.
LEMMA RequestWritten ==
  ASSUME NEW T, NEW h \in Hashes, NEW v \in Requests, NEW at
  PROVE  /\ HasRow(T, h) => Written(T, Request(h), v, at) = T
         /\ ~HasRow(T, h) =>
               Written(T, Request(h), v, at) = T \cup {NewRow(h, v)}
<1> DEFINE event == [type |-> "ValidationRequest", base |-> BaseOf(h, v), requestUri |-> EmptyTag]
<1>1. ParseValidationEvent(ValidationWire(Request(h), v)) = event
  BY EventReadBack DEF Request
<1>2. event # None
  <2>1. event \in ParsedRequests
    BY DEF ParsedRequests, EventBases, BaseOf, Requests, ValidationStatus
  <2> QED
    BY <2>1, WireAssumption
<1>3. /\ event.type = "ValidationRequest" /\ event.base.requestHash = h
      /\ event.base.agentId = v.agent_id /\ event.base.validatorAddress = v.validator_address
  BY DEF BaseOf
<1> HIDE DEF event
<1> QED
  BY <1>1, <1>2, <1>3 DEF Written, MissingParent, EventStatement, ValidationRequested, HasRow, NewRow

\* An answer changes the row of its request unless an answer of that or a later ledger did.
LEMMA ResponseWritten ==
  ASSUME NEW T, NEW h \in Hashes, NEW v \in Requests, NEW at, HasRow(T, h)
  PROVE  Written(T, Response(h), v, at) = Answered(T, h, v, at)
<1> DEFINE event == [type |-> "ValidationResponse", base |-> BaseOf(h, v), response |-> v.response,
                     tag |-> Decode(v.tag)]
<1>1. ParseValidationEvent(ValidationWire(Response(h), v)) = event
  BY EventReadBack DEF Response
<1>2. event # None
  <2>1. event \in ParsedResponses
    BY DEF ParsedResponses, EventBases, BaseOf, Requests, ValidationStatus
  <2> QED
    BY <2>1, WireAssumption
<1>3. /\ event.type = "ValidationResponse" /\ event.base.requestHash = h
      /\ event.response = v.response /\ event.tag = Decode(v.tag)
  BY DEF BaseOf
<1> HIDE DEF event
<1> QED
  BY <1>1, <1>2, <1>3 DEF Written, MissingParent, EventStatement, ValidationResponded, HasRow, Answered,
         SetAnswer

\* The columns of a row.
LEMMA RowFields ==
  ASSUME NEW h, NEW v
  PROVE  /\ RowOf(h, v).request_hash = h /\ RowOf(h, v).agent_id = v.agent_id
         /\ RowOf(h, v).has_response = v.has_response
         /\ RowOf(h, v).response = IF v.has_response THEN v.response ELSE None
         /\ RowOf(h, v).response_ledger = IF v.has_response THEN v.last_update ELSE None
  BY DEF RowOf, Row

\* The table holds one row for every request and no other.
LEMMA RowsByHash ==
  ASSUME NEW val, NEW h \in Hashes
  PROVE  /\ HasRow(RowsOf(val), h) <=> h \in Requested(val)
         /\ \A r \in RowsOf(val) : r.request_hash = h => r = RowOf(h, val[h])
  BY RowFields DEF RowsOf, Requested, HasRow

\* The requests of a storage, as the contract keeps them.
StoredWell(val) ==
    /\ val \in [Hashes -> ValidationStatus]
    /\ \A h \in Hashes : val[h].has_response => val[h].validator_address # None
    /\ \A h \in Hashes : val[h].validator_address # None => val[h].agent_id # None

\* The requests of agent a, and their rows, which are no more.
RequestsOf(val, a) == {h \in Hashes : val[h].validator_address # None /\ val[h].agent_id = a}
RowsOfAgent(val, a) == {q \in RowsOf(val) : q.agent_id = a}

\* One row for a request of the agent.
LEMMA AgentRows ==
  ASSUME NEW val, NEW a
  PROVE  /\ RowsOfAgent(val, a) = {RowOf(h, val[h]) : h \in RequestsOf(val, a)}
         /\ Cardinality(RequestsOf(val, a)) \in Nat
         /\ Cardinality(RowsOfAgent(val, a)) \in Nat
         /\ Cardinality(RowsOfAgent(val, a)) <= Cardinality(RequestsOf(val, a))
<1> DEFINE R == RequestsOf(val, a)
           S == RowsOfAgent(val, a)
           f == [h \in R |-> RowOf(h, val[h])]
<1>1. S = {RowOf(h, val[h]) : h \in R}
  BY RowFields DEF RowsOfAgent, RequestsOf, RowsOf, Requested
<1>2. IsFiniteSet(R)
  <2>1. R \in SUBSET Hashes
    BY DEF RequestsOf
  <2> QED
    BY <2>1, WireAssumption, FS_Subset
<1> HIDE DEF R, S
<1>3. f \in Surjection(R, S)
  BY <1>1 DEF Surjection
<1> HIDE DEF f
<1>4. IsFiniteSet(S) /\ Cardinality(S) <= Cardinality(R)
  BY <1>2, <1>3, FS_Surjection
<1>5. Cardinality(S) \in Nat /\ Cardinality(R) \in Nat
  BY <1>2, <1>4, FS_CardinalityType
<1> QED
  BY <1>1, <1>4, <1>5 DEF R, S

\* The page shows what it loaded as the contract has it, and all that fits.
LEMMA CardsOf ==
  ASSUME NEW val, StoredWell(val), NEW a \in Agents, NEW page \in LoadValidations(RowsOf(val), a)
  PROVE  PageShows(ValidationCards(page), a, val)
<1> DEFINE Loaded(r) == [requestHash |-> r.request_hash, validatorAddress |-> r.validator_address,
                         response |-> r.response, hasResponse |-> r.has_response, tag |-> r.tag]
           Card(v) == [of |-> v.requestHash, tag |-> v.tag,
                       shows |-> IF v.hasResponse /\ v.response # None THEN v.response ELSE None]
           Answer(g) == IF val[g].has_response THEN val[g].response ELSE None
           all == RowsOfAgent(val, a)
           requests == RequestsOf(val, a)
           cards == ValidationCards(page)
<1>1. PICK rows \in Newest(all, PAGE_VALIDATIONS) : page = {Loaded(r) : r \in rows}
  BY Zenon DEF LoadValidations, RowsOfAgent
<1>2. /\ rows \subseteq all
      /\ Cardinality(all) <= PAGE_VALIDATIONS => rows = all
  BY <1>1 DEF Newest
<1>3. cards = {Card(v) : v \in page}
  BY Zenon DEF ValidationCards
<1>4. ASSUME NEW g \in Hashes
      PROVE  /\ Card(Loaded(RowOf(g, val[g]))).of = g
             /\ Card(Loaded(RowOf(g, val[g]))).shows = Answer(g)
             /\ Answer(g) # None <=> val[g].has_response
  <2>1. val[g].has_response \in BOOLEAN /\ val[g].response # None
    BY WireAssumption DEF StoredWell, ValidationStatus
  <2> QED
    BY <2>1, RowFields
<1> HIDE DEF Loaded, Card, Answer, all, cards
<1>5. ASSUME NEW c \in cards
      PROVE  \E g \in requests : c.of = g /\ c.shows = Answer(g)
  <2>1. PICK r \in rows : c = Card(Loaded(r))
    BY <1>1, <1>3
  <2>2. PICK g \in requests : r = RowOf(g, val[g])
    BY <1>2, <2>1, AgentRows DEF all
  <2> QED
    BY <1>4, <2>1, <2>2 DEF RequestsOf
<1>6. ASSUME Cardinality(requests) <= PAGE_VALIDATIONS, NEW g \in requests
      PROVE  \E c \in cards : c.of = g /\ c.shows = Answer(g)
  <2>1. rows = all
    <3>1. Cardinality(all) <= Cardinality(requests)
          /\ Cardinality(all) \in Nat /\ Cardinality(requests) \in Nat
      BY AgentRows DEF all
    <3> QED
      BY <1>2, <1>6, <3>1, WireAssumption
  <2>2. RowOf(g, val[g]) \in rows
    BY <2>1, AgentRows DEF all
  <2>3. Card(Loaded(RowOf(g, val[g]))) \in cards
    BY <1>1, <1>3, <2>2
  <2> QED
    BY <1>4, <2>3 DEF RequestsOf
<1>7. \A c \in cards : c.of \in requests /\ c.shows = Answer(c.of)
  BY <1>5
<1>8. ASSUME Cardinality(requests) <= PAGE_VALIDATIONS
      PROVE  {c.of : c \in {q \in cards : q.shows # None}} = {h \in requests : val[h].has_response}
  <2>1. \A h \in requests : Answer(h) # None <=> val[h].has_response
    BY <1>4 DEF RequestsOf
  <2> HIDE DEF requests
  <2> QED
    BY <1>6, <1>7, <1>8, <2>1
<1> QED
  BY <1>7, <1>8, Zenon DEF PageShows, requests, cards, RequestsOf, Answer

\* What a step leaves in the storage is in the table, once written and again.
TableStep(T, after, e, h, v, at) ==
    /\ Written(T, e, v, at) = after
    /\ Written(after, Request(h), v, at) = after
    /\ v.has_response =>
          \A l \in 0 .. at - 1, r \in {q \in Responses : q <= 100} :
             Written(after, Response(h), [v EXCEPT !.response = r], l) = after

\* A request adds its row.
LEMMA RequestAddsRow ==
  ASSUME NEW val, StoredWell(val), NEW h \in Hashes, h \notin Requested(val), NEW v \in Requests,
         ~v.has_response, v.tag = EmptyTag, NEW at
  PROVE  TableStep(RowsOf(val), RowsOf([val EXCEPT ![h] = v]),
                   Request(h), h, v, at)
<1> DEFINE new == [val EXCEPT ![h] = v]
<1>1. /\ Requested(new) = Requested(val) \cup {h}
      /\ new[h] = v /\ \A g \in Requested(val) : new[g] = val[g]
  BY DEF StoredWell, Requested, Requests
<1>2. RowsOf(new) = RowsOf(val) \cup {RowOf(h, v)}
  <2> HIDE DEF new
  <2> QED
    BY <1>1 DEF RowsOf
<1>3. RowOf(h, v) = NewRow(h, v)
  <2>1. TagColumn(Decode(v.tag)) = None
    BY WireAssumption DEF TagColumn, Decode
  <2> QED
    BY <2>1 DEF RowOf, Row, NewRow, Requests, ValidationStatus
<1>4. ~HasRow(RowsOf(val), h) /\ HasRow(RowsOf(new), h)
  <2> HIDE DEF new
  <2> QED
    BY <1>1, RowsByHash
<1> HIDE DEF new
<1>5. TableStep(RowsOf(val), RowsOf(new), Request(h), h, v, at)
  BY <1>2, <1>3, <1>4, RequestWritten DEF TableStep
<1> QED
  BY <1>5 DEF new

\* An answer sets four columns, and the row is then the row of the answered request.
LEMMA RowChanged ==
  ASSUME NEW h, NEW u, NEW v, v \in Requests, v.has_response,
         v.agent_id = u.agent_id, v.validator_address = u.validator_address
  PROVE  SetAnswer(RowOf(h, u), v, v.last_update) = RowOf(h, v)
<1> DEFINE F == {"request_hash", "agent_id", "validator_address", "has_response", "response", "tag",
                 "response_ledger"}
           r == RowOf(h, u)
           x == SetAnswer(r, v, v.last_update)
           y == RowOf(h, v)
<1> HIDE DEF F, r, x, y
<1>0. v.has_response = TRUE
  BY DEF Requests, ValidationStatus
<1> USE DEF F, r, x, y
<1>1. DOMAIN r = F /\ DOMAIN y = F
  BY DEF RowOf, Row
<1>2. r.request_hash = h /\ r.agent_id = v.agent_id /\ r.validator_address = v.validator_address
  BY DEF RowOf, Row
<1>3. /\ y.request_hash = h /\ y.agent_id = v.agent_id /\ y.validator_address = v.validator_address
      /\ y.has_response = TRUE /\ y.response = v.response /\ y.tag = TagColumn(Decode(v.tag))
      /\ y.response_ledger = v.last_update
  BY <1>0 DEF RowOf, Row
<1>4. /\ DOMAIN x = F
      /\ x.request_hash = r.request_hash /\ x.agent_id = r.agent_id
      /\ x.validator_address = r.validator_address
      /\ x.has_response = TRUE /\ x.response = v.response /\ x.tag = TagColumn(Decode(v.tag))
      /\ x.response_ledger = v.last_update
  <2> HIDE DEF r
  <2> QED
    BY <1>1 DEF SetAnswer
<1>5. x = [k \in F |-> x[k]]
  <2> HIDE DEF r
  <2> QED
    BY <1>1 DEF SetAnswer
<1>6. y = [k \in F |-> y[k]]
  BY <1>1 DEF RowOf, Row
<1> HIDE DEF x, y, r
<1>7. \A k \in F : x[k] = y[k]
  BY <1>2, <1>3, <1>4
<1> HIDE DEF F
<1>8. x = y
  BY <1>5, <1>6, <1>7
<1> QED
  BY <1>8 DEF x, y, r

\* An answer changes the row of its request, and an earlier one no longer does.
LEMMA ResponseChangesRow ==
  ASSUME NEW val, StoredWell(val), NEW h \in Requested(val), NEW at \in Ledgers,
         val[h].last_update <= at, NEW v, v \in Requests, v.has_response, v.last_update = at,
         v.agent_id = val[h].agent_id, v.validator_address = val[h].validator_address
  PROVE  TableStep(RowsOf(val), RowsOf([val EXCEPT ![h] = v]),
                   Response(h), h, v, at)
<1> DEFINE new == [val EXCEPT ![h] = v]
           Changed(r) == SetAnswer(r, v, at)
<1>1. /\ h \in Hashes /\ Requested(new) = Requested(val) /\ new[h] = v
      /\ \A g \in Requested(val) \ {h} : new[g] = val[g]
  BY DEF StoredWell, Requested
<1> HIDE DEF new
<1>2. HasRow(RowsOf(val), h) /\ HasRow(RowsOf(new), h)
  BY <1>1, RowsByHash
<1>3. v.has_response = TRUE
  BY DEF Requests, ValidationStatus
<1>4. Changed(RowOf(h, val[h])) = RowOf(h, v)
  BY RowChanged
<1>5. NotApplied(RowOf(h, val[h]).response_ledger, at)
  BY RowFields DEF NotApplied
<1>6. \A g \in Hashes : RowOf(g, val[g]).request_hash = g /\ RowOf(g, new[g]).request_hash = g
  BY RowFields
<1> HIDE DEF Changed
<1>7. {IF r.request_hash = h /\ NotApplied(r.response_ledger, at) THEN Changed(r) ELSE r :
          r \in RowsOf(val)} = RowsOf(new)
  <2>1. {IF r.request_hash = h /\ NotApplied(r.response_ledger, at) THEN Changed(r) ELSE r :
            r \in RowsOf(val)}
           = {IF g = h THEN Changed(RowOf(h, val[h])) ELSE RowOf(g, val[g]) : g \in Requested(val)}
    BY <1>5, <1>6 DEF RowsOf, Requested
  <2>2. RowsOf(new) = {IF g = h THEN RowOf(h, v) ELSE RowOf(g, val[g]) : g \in Requested(val)}
    BY <1>1 DEF RowsOf
  <2> QED
    BY <1>4, <2>1, <2>2
<1>8. Written(RowsOf(val), Response(h), v, at) = RowsOf(new)
  <2>1. Answered(RowsOf(val), h, v, at) = RowsOf(new)
    BY <1>7, Zenon DEF Answered, Changed
  <2> QED
    BY <1>1, <1>2, <2>1, ResponseWritten
<1>9. Written(RowsOf(new), Request(h), v, at) = RowsOf(new)
  BY <1>1, <1>2, RequestWritten
<1>10. ASSUME NEW l \in 0 .. at - 1, NEW x \in {q \in Responses : q <= 100}
       PROVE  Written(RowsOf(new), Response(h),
                      [v EXCEPT !.response = x], l) = RowsOf(new)
  <2>1. [v EXCEPT !.response = x] \in Requests
    BY ValidationAssumption DEF Requests, ValidationStatus
  <2>2. \A r \in RowsOf(new) : r.request_hash = h => ~NotApplied(r.response_ledger, l)
    <3>1. RowOf(h, v).response_ledger = at
      BY <1>3, RowFields
    <3>2. at # None /\ ~(at <= l)
      BY WireAssumption, ValidationAssumption DEF Ledgers
    <3> QED
      BY <1>1, <3>1, <3>2, RowsByHash DEF NotApplied
  <2> QED
    <3> DEFINE y == [v EXCEPT !.response = x]
    <3> HIDE DEF y
    <3>1. Answered(RowsOf(new), h, y, l) = RowsOf(new)
      BY <2>2 DEF Answered
    <3>2. Written(RowsOf(new), Response(h), y, l) = RowsOf(new)
      BY <1>1, <1>2, <2>1, <3>1, ResponseWritten DEF y
    <3> QED
      BY <3>2 DEF y
<1>11. TableStep(RowsOf(val), RowsOf(new), Response(h), h, v, at)
  BY <1>8, <1>9, <1>10 DEF TableStep
<1> QED
  BY <1>11 DEF new

\* An answered or unanswered request names its agent.
LEMMA RequestsHaveAgents == Spec => [](\A h \in Hashes : HasValidation(h) => validation[h].agent_id # None)
<1> DEFINE I == \A h \in Hashes : HasValidation(h) => validation[h].agent_id # None
<1>1. Init => I
  BY DEF Init, HasValidation, NoValidation
<1>2. ValidationInv /\ I /\ [Next]_vars => I'
  <2> SUFFICES ASSUME ValidationInv, I, [Next]_vars PROVE I'
    OBVIOUS
  <2> USE ValidationAssumption, WireAssumption DEF HasValidation, ValidationInv, TypeOK
  <2>1. ASSUME NEW x \in Addresses, NEW w \in Addresses, NEW a \in Agents, NEW h \in Hashes,
               ValidationRequest(x, w, a, h)
        PROVE  I'
    BY <2>1 DEF ValidationRequest
  <2>2. ASSUME NEW x \in Addresses, NEW h \in Hashes, NEW r \in Responses, NEW t \in Tags,
               ValidationResponse(x, h, r, t)
        PROVE  I'
    BY <2>2 DEF ValidationResponse, ValidationStatus
  <2>3. CASE IdentityMoves \/ UNCHANGED vars
    BY <2>3 DEF IdentityMoves, vars
  <2> QED
    BY <2>1, <2>2, <2>3 DEF Next
<1> QED
  BY <1>1, <1>2, ValidationInvariant, PTL DEF Spec

\* The storage maps to the table.
LEMMA TableIsRows == Table = RowsOf(validation) /\ Table' = RowsOf(validation')
  BY Zenon DEF Table, RowsOf, RowOf, Row, Requested, HasValidation

\* Every step that changes a request takes its table along.
LEMMA StepsTable ==
  ASSUME ValidationInv, ValidationInv', Next, validation' # validation,
         \A h \in Hashes : HasValidation(h) => validation[h].agent_id # None
  PROVE  /\ published'.hash \in Hashes
         /\ TableStep(Table, Table', published', published'.hash, validation'[published'.hash], ledger)
<1> USE ValidationAssumption, WireAssumption
<1>1. StoredWell(validation)
  BY DEF StoredWell, ValidationInv, TypeOK, OnlyRequestsAnswered, HasValidation
<1>2. ASSUME NEW x \in Addresses, NEW w \in Addresses, NEW a \in Agents, NEW h \in Hashes,
             ValidationRequest(x, w, a, h)
      PROVE  /\ published' = Request(h)
             /\ TableStep(Table, Table', Request(h), h, validation'[h], ledger)
  <2> DEFINE v == [validator_address |-> w, agent_id |-> a, response |-> 0,
                   tag |-> EmptyTag, last_update |-> ledger, has_response |-> FALSE]
  <2>1. /\ validation' = [validation EXCEPT ![h] = v] /\ published' = Request(h)
        /\ h \notin Requested(validation)
    BY <1>2 DEF ValidationRequest, Request, IsNew, HasValidation, Requested
  <2>2. v \in Requests /\ v.tag = EmptyTag /\ ~v.has_response
    BY DEF Requests, ValidationStatus, ValidationInv, TypeOK
  <2> HIDE DEF v
  <2>3. TableStep(RowsOf(validation), RowsOf([validation EXCEPT ![h] = v]), Request(h), h, v, ledger)
    BY <1>1, <2>1, <2>2, RequestAddsRow
  <2>4. validation'[h] = v
    BY <1>1, <2>1 DEF StoredWell
  <2> QED
    BY <2>1, <2>3, <2>4, TableIsRows
<1>3. ASSUME NEW x \in Addresses, NEW h \in Hashes, NEW r \in Responses, NEW t \in Tags,
             ValidationResponse(x, h, r, t)
      PROVE  /\ published' = Response(h)
             /\ TableStep(Table, Table', Response(h), h, validation'[h], ledger)
  <2> DEFINE old == validation[h]
             v == [old EXCEPT !.response = r, !.tag = t, !.last_update = ledger, !.has_response = TRUE]
  <2>1. old \in ValidationStatus /\ old.validator_address # None /\ old.agent_id # None
    BY <1>3 DEF ValidationResponse, HasValidation, ValidationInv, TypeOK
  <2>2. validation' = [validation EXCEPT ![h] = v] /\ published' = Response(h)
    BY <1>3, <2>1 DEF ValidationResponse, Response, ValidationStatus, ValidationInv, TypeOK
  <2>3. r \in 0 .. 100
    BY <1>3 DEF ValidationResponse, ResponseInRange
  <2>4. /\ v \in Requests /\ v.has_response /\ v.last_update = ledger
        /\ v.agent_id = old.agent_id /\ v.validator_address = old.validator_address
    BY <2>1, <2>3 DEF Requests, ValidationStatus, ValidationInv, TypeOK
  <2>5. h \in Requested(validation) /\ ledger \in Ledgers /\ old.last_update <= ledger
    BY <2>1 DEF Requested, ValidationInv, TypeOK, NotFromTheFuture
  <2> HIDE DEF v
  <2>6. TableStep(RowsOf(validation), RowsOf([validation EXCEPT ![h] = v]), Response(h), h, v, ledger)
    BY <1>1, <2>4, <2>5, ResponseChangesRow
  <2>7. validation'[h] = v
    BY <1>1, <2>2 DEF StoredWell
  <2> QED
    BY <2>2, <2>6, <2>7, TableIsRows
<1>4. ~IdentityMoves
  BY DEF IdentityMoves
<1>5. \E h \in Hashes : /\ published' \in {Request(h), Response(h)}
                        /\ TableStep(Table, Table', published', h, validation'[h], ledger)
  BY <1>2, <1>3, <1>4 DEF Next
<1> QED
  BY <1>5 DEF Request, Response

\* The indexer's table of the requests follows the contract's storage, one event
\* after the other, and neither a replayed request nor an older answer changes it;
\* the agent page shows each request it loads with its answer, and all of them
\* that fit.
THEOREM TableFollows == Spec => ValidationTableFollows
<1> DEFINE I == \A h \in Hashes : HasValidation(h) => validation[h].agent_id # None
           A == validation' # validation =>
           LET h == published'.hash
               v == validation'[h]
               requested == [type |-> "validation_requested", hash |-> h]
               responded == [type |-> "validation_responded", hash |-> h]
           IN \A after \in {Table'} :
                 /\ Written(Table, published', v, ledger) = after
                 /\ Written(after, requested, v, ledger) = after
                 /\ v.has_response =>
                       \A at \in 0 .. ledger - 1, r \in {q \in Responses : q <= 100} :
                          Written(after, responded, [v EXCEPT !.response = r], at) = after
                 /\ \A a \in Agents : \A page \in LoadValidations(after, a) :
                       PageShows(ValidationCards(page), a, validation')
<1>1. ValidationInv /\ ValidationInv' /\ I /\ I' /\ [Next]_vars => [A]_vars
  <2> SUFFICES ASSUME ValidationInv, ValidationInv', I, I', Next, validation' # validation
               PROVE  A
    OBVIOUS
  <2>1. TableStep(Table, Table', published', published'.hash, validation'[published'.hash], ledger)
    BY StepsTable
  <2>2. StoredWell(validation')
    BY DEF StoredWell, ValidationInv, TypeOK, OnlyRequestsAnswered, HasValidation
  <2>3. \A a \in Agents : \A page \in LoadValidations(Table', a) :
           PageShows(ValidationCards(page), a, validation')
    BY <2>2, CardsOf, TableIsRows
  <2> QED
    BY <2>1, <2>3, Zenon DEF TableStep, Request, Response
<1> QED
  BY <1>1, ValidationInvariant, RequestsHaveAgents, PTL DEF Spec, ValidationTableFollows
=============================================================================
