--------------------------- MODULE ReputationProofs ---------------------------
(***************************************************************************)
(* Proofs about ReputationRegistry, the summaries of FeedbackSummary and   *)
(* the tables of ReputationEvents, for every set of addresses and agents.  *)
(* The client list is only consistent together with the feedback it lists: *)
(* the invariants are proved as one.  The summaries and the pages follow   *)
(* from it, state by state: the last sections list the feedback that is    *)
(* summed and count and add it in the order of the contract, as a set and  *)
(* as the rows of a table.                                                 *)
(***************************************************************************)
EXTENDS ReputationEvents, SequenceTheorems, FiniteSetTheorems, WellFoundedInduction, TLAPS

ReputationInv == TypeOK /\ FeedbackContiguous /\ ClientsIndexed /\ ResponsesHaveFeedback

\* The invariant holds initially.
LEMMA ReputationInit == Init => ReputationInv
<1> SUFFICES ASSUME Init PROVE ReputationInv
  OBVIOUS
<1> USE ReputationAssumption DEF Init, Indexes, Slots
<1>1. TypeOK
  BY DEF TypeOK, NoFeedback, FeedbackData, Event
<1>2. FeedbackContiguous
  BY DEF FeedbackContiguous, HasFeedback, NoFeedback
<1>3. ClientsIndexed
  BY DEF ClientsIndexed
<1>4. ResponsesHaveFeedback
  BY DEF ResponsesHaveFeedback
<1> QED
  BY <1>1, <1>2, <1>3, <1>4 DEF ReputationInv

\* A first feedback of a client appends it to the client list: the slot at the
\* count was empty, and no other slot holds the client.
LEMMA AddClientStep ==
  ASSUME ReputationInv, NEW a \in Agents, NEW c \in Addresses,
         ~client_exists[a][c], AddClient(a, c),
         last_index' = [last_index EXCEPT ![a][c] = last_index[a][c] + 1]
  PROVE  /\ ClientsIndexed'
         /\ client_count' \in [Agents -> 0 .. MaxClients]
         /\ client_at' \in [Agents -> [Slots -> Addresses \cup {None}]]
         /\ client_exists' \in [Agents -> [Addresses -> BOOLEAN]]
<1> USE ReputationAssumption DEF ReputationInv
<1> DEFINE n == client_count[a]
<1>1. n \in Slots /\ n \in Nat /\ n + 1 \in 0 .. MaxClients
  BY DEF AddClient, TypeOK, Slots
<1>2. /\ client_at' = [client_at EXCEPT ![a][n] = c]
      /\ client_exists' = [client_exists EXCEPT ![a][c] = TRUE]
      /\ client_count' = [client_count EXCEPT ![a] = n + 1]
  BY DEF AddClient, TypeOK
<1>3. /\ client_count' \in [Agents -> 0 .. MaxClients]
      /\ client_at' \in [Agents -> [Slots -> Addresses \cup {None}]]
      /\ client_exists' \in [Agents -> [Addresses -> BOOLEAN]]
  BY <1>1, <1>2 DEF TypeOK
<1>4. /\ \A s \in Slots : client_at[a][s] # c
      /\ last_index[a][c] = 0
  BY DEF ClientsIndexed, TypeOK
<1>5. ASSUME NEW b \in Agents
      PROVE  /\ \A s \in Slots : client_at'[b][s] # None <=> s < client_count'[b]
             /\ \A s, t \in Slots :
                   s < t /\ t < client_count'[b] => client_at'[b][s] # client_at'[b][t]
             /\ \A x \in Addresses :
                   /\ client_exists'[b][x] <=> \E s \in Slots : client_at'[b][s] = x
                   /\ client_exists'[b][x] <=> last_index'[b][x] > 0
  <2>1. CASE b # a
    BY <2>1, <1>2, <1>5 DEF TypeOK, ClientsIndexed
  <2>2. CASE b = a
    <3> HIDE DEF n
    <3>1. \A s \in Slots : client_at'[b][s] = IF s = n THEN c ELSE client_at[a][s]
      BY <2>2, <1>1, <1>2 DEF TypeOK
    <3>2. client_count'[b] = n + 1
      BY <2>2, <1>2 DEF TypeOK
    <3>3. \A s \in Slots : client_at[a][s] # None <=> s < n
      BY DEF ClientsIndexed, n
    <3>4. \A s \in Slots : client_at'[b][s] # None <=> s < client_count'[b]
      BY <3>1, <3>2, <3>3, <1>1 DEF Slots
    <3>5. ASSUME NEW s \in Slots, NEW t \in Slots, s < t, t < client_count'[b]
          PROVE client_at'[b][s] # client_at'[b][t]
      <4>1. CASE t = n
        BY <4>1, <3>1, <3>5, <1>4 DEF Slots
      <4>2. CASE t # n
        <5>1. t < n /\ s # n
          BY <4>2, <3>2, <3>5, <1>1 DEF Slots
        <5>2. client_at[a][s] # client_at[a][t]
          BY <5>1, <3>5 DEF ClientsIndexed, n
        <5> QED
          BY <5>1, <5>2, <4>2, <3>1
      <4> QED
        BY <4>1, <4>2
    <3>6. ASSUME NEW x \in Addresses
          PROVE client_exists'[b][x] <=> \E s \in Slots : client_at'[b][s] = x
      <4>1. CASE x = c
        BY <4>1, <2>2, <3>1, <1>1, <1>2 DEF TypeOK
      <4>2. CASE x # c
        <5>1. client_exists'[b][x] = client_exists[a][x]
          BY <4>2, <2>2, <1>2 DEF TypeOK
        <5>2. client_exists[a][x] <=> \E s \in Slots : client_at[a][s] = x
          BY DEF ClientsIndexed
        <5>3. client_at[a][n] # x
          BY <3>3, <1>1
        <5> QED
          BY <5>1, <5>2, <5>3, <4>2, <3>1, <1>1
      <4> QED
        BY <4>1, <4>2
    <3>7. ASSUME NEW x \in Addresses
          PROVE client_exists'[b][x] <=> last_index'[b][x] > 0
      <4>1. CASE x = c
        BY <4>1, <2>2, <1>2, <1>4 DEF TypeOK
      <4>2. CASE x # c
        BY <4>2, <2>2, <1>2 DEF TypeOK, ClientsIndexed
      <4> QED
        BY <4>1, <4>2
    <3> QED
      BY <3>4, <3>5, <3>6, <3>7
  <2> QED
    BY <2>1, <2>2
<1> QED
  BY <1>3, <1>5 DEF ClientsIndexed

\* give_feedback keeps the invariant: the new number is the one after the last,
\* and the client is listed exactly when it was not listed before.
LEMMA GiveFeedbackStep ==
  ASSUME ReputationInv, NEW x \in Addresses, NEW a \in Agents, NEW body \in Bodies,
         GiveFeedback(x, a, body)
  PROVE  ReputationInv'
<1> USE ReputationAssumption DEF ReputationInv
<1> DEFINE i == last_index[a][x] + 1
<1>1. /\ i \in Indexes /\ i \in Nat
      /\ AgentExists(a)
      /\ last_index' = [last_index EXCEPT ![a][x] = i]
      /\ feedback' = [feedback EXCEPT
            ![a][x][i] = [body |-> body, is_revoked |-> FALSE]]
      /\ published' = [type |-> "new_feedback", agent |-> a, client |-> x, index |-> i]
      /\ UNCHANGED <<authority, response_count>>
  BY DEF GiveFeedback, MayRate, NextIndex, Publish, TypeOK, Indexes
<1>2. /\ ClientsIndexed'
      /\ client_count' \in [Agents -> 0 .. MaxClients]
      /\ client_at' \in [Agents -> [Slots -> Addresses \cup {None}]]
      /\ client_exists' \in [Agents -> [Addresses -> BOOLEAN]]
  <2>1. CASE client_exists[a][x]
    <3>1. UNCHANGED <<client_count, client_at, client_exists>>
      BY <2>1 DEF GiveFeedback, ListClient
    <3>2. \A b \in Agents, c \in Addresses : last_index'[b][c] > 0 <=> last_index[b][c] > 0
      BY <2>1, <1>1 DEF TypeOK, ClientsIndexed
    <3> QED
      BY <3>1, <3>2 DEF TypeOK, ClientsIndexed
  <2>2. CASE ~client_exists[a][x]
    BY <2>2, <1>1, AddClientStep DEF GiveFeedback, ListClient
  <2> QED
    BY <2>1, <2>2
<1>3. TypeOK'
  <2>1. [body |-> body, is_revoked |-> FALSE] \in FeedbackData
    BY DEF FeedbackData
  <2>2. feedback' \in [Agents -> [Addresses -> [Indexes -> FeedbackData]]]
    BY <1>1, <2>1 DEF TypeOK
  <2>3. last_index' \in [Agents -> [Addresses -> 0 .. MaxFeedback]]
    BY <1>1 DEF TypeOK, Indexes
  <2>4. published' \in Event
    BY <1>1 DEF Event, Indexes
  <2> QED
    BY <1>1, <1>2, <2>2, <2>3, <2>4 DEF TypeOK
<1>4. \A b \in Agents, c \in Addresses, j \in Indexes :
         /\ HasFeedback(b, c, j)' <=> HasFeedback(b, c, j) \/ <<b, c, j>> = <<a, x, i>>
         /\ AgentExists(b)' <=> AgentExists(b)
  <2> SUFFICES ASSUME NEW b \in Agents, NEW c \in Addresses, NEW j \in Indexes
               PROVE /\ HasFeedback(b, c, j)'
                          <=> HasFeedback(b, c, j) \/ (b = a /\ c = x /\ j = i)
                     /\ AgentExists(b)' <=> AgentExists(b)
    OBVIOUS
  <2>1. feedback'[b][c][j] = IF b = a /\ c = x /\ j = i
                             THEN [body |-> body, is_revoked |-> FALSE]
                             ELSE feedback[b][c][j]
    BY <1>1 DEF TypeOK
  <2> QED
    BY <2>1, <1>1 DEF HasFeedback, AgentExists
<1>5. FeedbackContiguous'
  <2> SUFFICES ASSUME NEW b \in Agents, NEW c \in Addresses, NEW j \in Indexes
               PROVE /\ HasFeedback(b, c, j)' <=> j <= last_index'[b][c]
                     /\ HasFeedback(b, c, j)' => AgentExists(b)'
    BY DEF FeedbackContiguous
  <2>1. last_index'[b][c] = IF b = a /\ c = x THEN i ELSE last_index[b][c]
    BY <1>1 DEF TypeOK
  <2>2. /\ HasFeedback(b, c, j) <=> j <= last_index[b][c]
        /\ HasFeedback(b, c, j) => AgentExists(b)
    BY DEF FeedbackContiguous
  <2>3. last_index[b][c] \in Nat /\ j \in Nat
    BY DEF TypeOK, Indexes
  <2> QED
    BY <1>1, <1>4, <2>1, <2>2, <2>3
<1>6. ResponsesHaveFeedback'
  BY <1>1, <1>4 DEF ResponsesHaveFeedback
<1> QED
  BY <1>2, <1>3, <1>5, <1>6

\* Every call of the registry, and every move of the identity registry that
\* loses no agent, preserves the invariant.
LEMMA ReputationStep == ReputationInv /\ [Next]_vars => ReputationInv'
<1> SUFFICES ASSUME ReputationInv, [Next]_vars PROVE ReputationInv'
  OBVIOUS
<1> USE ReputationAssumption DEF ReputationInv
<1>1. ASSUME NEW x \in Addresses, NEW a \in Agents, NEW i \in Indexes,
             RevokeFeedback(x, a, i)
      PROVE ReputationInv'
  <2>1. feedback' = [feedback EXCEPT ![a][x][i].is_revoked = TRUE]
    BY <1>1 DEF RevokeFeedback
  <2>2. TypeOK'
    <3>1. published' \in Event
      BY <1>1 DEF RevokeFeedback, Publish, Event, Indexes
    <3>2. feedback' \in [Agents -> [Addresses -> [Indexes -> FeedbackData]]]
      <4> DEFINE entry == [feedback[a][x][i] EXCEPT !.is_revoked = TRUE]
      <4>1. feedback[a][x][i] \in FeedbackData
        BY DEF TypeOK
      <4>2. entry \in FeedbackData
        BY <4>1 DEF FeedbackData
      <4>3. feedback' = [feedback EXCEPT ![a][x][i] = entry]
        BY <2>1
      <4> HIDE DEF entry
      <4> QED
        BY <4>2, <4>3 DEF TypeOK
    <3> QED
      BY <1>1, <3>1, <3>2 DEF RevokeFeedback, TypeOK
  <2>3. \A b \in Agents, c \in Addresses, j \in Indexes :
           HasFeedback(b, c, j)' <=> HasFeedback(b, c, j)
    BY <2>1 DEF TypeOK, FeedbackData, HasFeedback
  <2> QED
    BY <1>1, <2>2, <2>3
    DEF RevokeFeedback, FeedbackContiguous, ClientsIndexed, ResponsesHaveFeedback,
        AgentExists
<1>2. ASSUME NEW x \in Addresses, NEW a \in Agents, NEW c \in Addresses,
             NEW i \in Indexes, NEW u \in Uris, AppendResponse(x, a, c, i, u)
      PROVE ReputationInv'
  <2>1. TypeOK'
    <3>1. published' \in Event
      BY <1>2 DEF AppendResponse, Publish, Event, Indexes
    <3>2. response_count[a][c][i] + 1 \in 0 .. MaxResponses
      BY <1>2 DEF AppendResponse, CanCount, TypeOK
    <3>3. response_count' \in [Agents -> [Addresses -> [Indexes -> 0 .. MaxResponses]]]
      BY <1>2, <3>2 DEF AppendResponse, TypeOK
    <3> QED
      BY <1>2, <3>1, <3>3 DEF AppendResponse, TypeOK
  <2>2. ResponsesHaveFeedback'
    BY <1>2 DEF AppendResponse, TypeOK, ResponsesHaveFeedback, HasFeedback
  <2> QED
    BY <1>2, <2>1, <2>2
    DEF AppendResponse, FeedbackContiguous, ClientsIndexed, AgentExists, HasFeedback
<1>3. CASE IdentityMoves
  <2>1. TypeOK' /\ UNCHANGED <<feedback, last_index, client_count, client_at,
                               client_exists, response_count>>
    BY <1>3 DEF IdentityMoves, storage, TypeOK
  <2>2. \A a \in Agents : AgentExists(a) => AgentExists(a)'
    BY <1>3 DEF IdentityMoves, AgentExists
  <2>3. FeedbackContiguous'
    BY <2>1, <2>2 DEF FeedbackContiguous, HasFeedback
  <2>4. ClientsIndexed' /\ ResponsesHaveFeedback'
    BY <2>1 DEF ClientsIndexed, ResponsesHaveFeedback, HasFeedback
  <2> QED
    BY <2>1, <2>3, <2>4
<1>4. CASE UNCHANGED vars
  BY <1>4 DEF vars, storage, TypeOK, FeedbackContiguous, ClientsIndexed,
     ResponsesHaveFeedback, AgentExists, HasFeedback
<1> QED
  BY <1>1, <1>2, <1>3, <1>4, GiveFeedbackStep DEF Next

-----------------------------------------------------------------------------
(* Theorems *)

\* The invariant holds in every reachable state.
LEMMA ReputationInvariant == Spec => []ReputationInv
  BY ReputationInit, ReputationStep, PTL DEF Spec

\* The storage entries keep their types.
THEOREM ReputationTypes == Spec => []TypeOK
<1>1. ReputationInv => TypeOK
  BY DEF ReputationInv
<1> QED
  BY <1>1, ReputationInvariant, PTL

\* The feedback of a client is numbered from 1 to last_index without holes.
THEOREM ContiguousFeedback == Spec => []FeedbackContiguous
<1>1. ReputationInv => FeedbackContiguous
  BY DEF ReputationInv
<1> QED
  BY <1>1, ReputationInvariant, PTL

\* The client list of an agent holds exactly the clients with feedback, once.
THEOREM IndexedClients == Spec => []ClientsIndexed
<1>1. ReputationInv => ClientsIndexed
  BY DEF ReputationInv
<1> QED
  BY <1>1, ReputationInvariant, PTL

\* Every slot is on some page: a page number and a place on that page reach it.
LEMMA SlotHasPage ==
  ASSUME NEW s \in Nat, NEW limit \in Nat, limit > 0
  PROVE  \E p \in 0 .. s, n \in 1 .. limit : p * limit + n - 1 = s
<1> DEFINE p == s \div limit
<1>1. p \in Nat /\ p * limit <= s /\ s < p * limit + limit
  BY SMT
<1>2. p <= s
  <2>1. p <= p * limit
    BY <1>1
  <2> QED
    BY <1>1, <2>1
<1> DEFINE n == s - p * limit + 1
<1>3. p * limit \in Nat
  BY <1>1
<1> HIDE DEF p
<1>4. n \in 1 .. limit /\ p * limit + n - 1 = s
  BY <1>1, <1>3
<1> QED
  BY <1>1, <1>2, <1>4

\* A page ends before a later one starts.
LEMMA PagesDisjoint ==
  ASSUME NEW p \in Nat, NEW q \in Nat, NEW limit \in Nat, p < q
  PROVE  p * limit + limit <= q * limit
<1>1. PICK d \in Nat : q = p + 1 + d
  <2>1. q - p - 1 \in Nat
    BY SMT
  <2> QED
    BY <2>1
<1>2. q * limit = p * limit + limit + d * limit
  BY <1>1
<1>3. d * limit \in Nat /\ p * limit \in Nat
  OBVIOUS
<1> QED
  BY <1>2, <1>3

\* Two places on pages of the same size that reach one slot are the same place.
LEMMA PlaceIsUnique ==
  ASSUME NEW limit \in Nat, NEW p \in Nat, NEW q \in Nat,
         NEW n \in 1 .. limit, NEW m \in 1 .. limit,
         p * limit + n - 1 = q * limit + m - 1
  PROVE  p = q /\ n = m
<1>1. p * limit \in Nat /\ q * limit \in Nat
  OBVIOUS
<1>2. p < q => p * limit + limit <= q * limit
  BY PagesDisjoint
<1>3. q < p => q * limit + limit <= p * limit
  BY PagesDisjoint
<1>4. p = q
  <2> DEFINE P == p * limit
             Q == q * limit
  <2>1. P \in Nat /\ Q \in Nat /\ P + n - 1 = Q + m - 1
    BY <1>1
  <2>2. (p < q => P + limit <= Q) /\ (q < p => Q + limit <= P)
    BY <1>2, <1>3
  <2> HIDE DEF P, Q
  <2> QED
    BY <2>1, <2>2
<1> QED
  BY <1>1, <1>4

\* What a page holds at a place: the client of the slot, as long as the place is
\* on the page and the slot is below the count.
LEMMA PageEntry ==
  ASSUME ReputationInv, NEW a \in Agents, NEW limit \in Nat, NEW p \in Nat, NEW n \in Nat
  PROVE  LET page == ClientsPaginated(a, p * limit, limit)
         IN /\ n \in DOMAIN page <=>
                  n \in 1 .. limit /\ p * limit + n - 1 < client_count[a]
            /\ n \in DOMAIN page => page[n] = client_at[a][p * limit + n - 1]
<1> DEFINE start == p * limit
<1>1. start \in Nat /\ client_count[a] \in Nat
  BY ReputationAssumption DEF ReputationInv, TypeOK
<1> HIDE DEF start
<1>2. /\ n \in DOMAIN ClientsPaginated(a, start, limit) <=>
            n \in 1 .. limit /\ start + n - 1 < client_count[a]
      /\ n \in DOMAIN ClientsPaginated(a, start, limit) =>
            ClientsPaginated(a, start, limit)[n] = client_at[a][start + n - 1]
  BY <1>1 DEF ClientsPaginated, PageEnd
<1> QED
  BY <1>2 DEF start

\* Paging through the clients of an agent lists each client with feedback once,
\* for any number of clients and any page size: get_clients_paginated.
THEOREM PagesComplete == Spec => []PagesListEveryClient
<1>1. ASSUME ReputationInv PROVE PagesListEveryClient
  <2> USE <1>1, ReputationAssumption
  <2> SUFFICES ASSUME NEW a \in Agents, NEW limit \in 1 .. MaxClients + 1, NEW c \in Addresses
        PROVE LET pages == [p \in 0 .. MaxClients |-> ClientsPaginated(a, p * limit, limit)]
                  hits == {h \in (0 .. MaxClients) \X (1 .. MaxClients) :
                              h[2] \in DOMAIN pages[h[1]] /\ pages[h[1]][h[2]] = c}
              IN IF last_index[a][c] > 0 THEN \E h \in hits : hits = {h} ELSE hits = {}
    BY DEF PagesListEveryClient
  <2> DEFINE pages == [p \in 0 .. MaxClients |-> ClientsPaginated(a, p * limit, limit)]
             hits == {h \in (0 .. MaxClients) \X (1 .. MaxClients) :
                         h[2] \in DOMAIN pages[h[1]] /\ pages[h[1]][h[2]] = c}
  <2>1. /\ limit \in Nat /\ limit > 0 /\ MaxClients \in Nat
        /\ client_count[a] \in 0 .. MaxClients
    BY DEF ReputationInv, TypeOK
  <2>2. ASSUME NEW p \in 0 .. MaxClients, NEW n \in 1 .. MaxClients
        PROVE <<p, n>> \in hits <=>
                 /\ n \in 1 .. limit /\ p * limit + n - 1 < client_count[a]
                 /\ client_at[a][p * limit + n - 1] = c
    <3>1. p \in Nat /\ n \in Nat
      BY <2>1
    <3> DEFINE page == ClientsPaginated(a, p * limit, limit)
    <3>2. /\ n \in DOMAIN page <=> n \in 1 .. limit /\ p * limit + n - 1 < client_count[a]
          /\ n \in DOMAIN page => page[n] = client_at[a][p * limit + n - 1]
      BY <3>1, <2>1, PageEntry
    <3>3. pages[p] = page
      OBVIOUS
    <3> HIDE DEF page, pages
    <3>4. <<p, n>> \in hits <=> n \in DOMAIN page /\ page[n] = c
      BY <3>3
    <3> HIDE DEF hits
    <3> QED
      BY <3>2, <3>4
  <2>3. ASSUME NEW h \in hits
        PROVE  \E p \in 0 .. MaxClients, n \in 1 .. MaxClients : h = <<p, n>>
    <3> HIDE DEF pages
    <3> QED
      OBVIOUS
  <2> HIDE DEF hits
  <2>4. ASSUME NEW p \in 0 .. MaxClients, NEW n \in 1 .. MaxClients, <<p, n>> \in hits
        PROVE  p * limit + n - 1 \in Slots /\ p * limit + n - 1 < client_count[a]
    <3>1. p * limit \in Nat
      BY <2>1
    <3>2. p * limit + n - 1 < client_count[a]
      BY <2>2, <2>4
    <3> QED
      BY <3>1, <3>2, <2>1 DEF Slots
  <2>5. CASE ~(last_index[a][c] > 0)
    <3>1. \A s \in Slots : client_at[a][s] # c
      BY <2>5 DEF ReputationInv, ClientsIndexed
    <3>2. hits = {}
      <4> SUFFICES ASSUME NEW h \in hits PROVE FALSE
        OBVIOUS
      <4>1. PICK p \in 0 .. MaxClients, n \in 1 .. MaxClients : h = <<p, n>>
        BY <2>3
      <4> QED
        BY <4>1, <3>1, <2>2, <2>4
    <3> QED
      BY <3>2, <2>5 DEF hits
  <2>6. CASE last_index[a][c] > 0
    <3>1. PICK s \in Slots : client_at[a][s] = c
      BY <2>6 DEF ReputationInv, ClientsIndexed
    <3>2. s \in Nat /\ s < MaxClients /\ s < client_count[a]
      BY <3>1, <2>1 DEF ReputationInv, ClientsIndexed, Slots
    <3>3. PICK p \in 0 .. s, n \in 1 .. limit : p * limit + n - 1 = s
      BY <3>2, <2>1, SlotHasPage
    <3>4. p \in 0 .. MaxClients /\ n \in 1 .. MaxClients
      <4>1. p * limit \in Nat
        BY <3>3, <3>2, <2>1
      <4> QED
        BY <4>1, <3>2, <3>3, <2>1
    <3>5. <<p, n>> \in hits
      BY <3>1, <3>2, <3>3, <3>4, <2>2
    <3>6. ASSUME NEW h \in hits PROVE h = <<p, n>>
      <4>1. PICK q \in 0 .. MaxClients, m \in 1 .. MaxClients : h = <<q, m>>
        BY <2>3
      <4>2. m \in 1 .. limit /\ client_at[a][q * limit + m - 1] = c
        BY <4>1, <2>2
      <4>3. q * limit + m - 1 \in Slots /\ q * limit + m - 1 < client_count[a]
        BY <4>1, <2>4
      <4>4. q * limit + m - 1 = s
        <5> DEFINE t == q * limit + m - 1
        <5>1. t \in Slots /\ t < client_count[a] /\ client_at[a][t] = c
          BY <4>2, <4>3
        <5> HIDE DEF t
        <5>2. ~(s < t) /\ ~(t < s)
          BY <5>1, <3>1, <3>2 DEF ReputationInv, ClientsIndexed
        <5>3. s = t
          BY <5>1, <5>2, <3>2 DEF Slots
        <5> QED
          BY <5>3 DEF t
      <4>5. p \in Nat /\ q \in Nat /\ p * limit + n - 1 = q * limit + m - 1
        BY <3>3, <4>4, <3>2
      <4>6. p = q /\ n = m
        <5>1. n \in 1 .. limit /\ m \in 1 .. limit /\ limit \in Nat
          BY <4>2, <2>1
        <5> QED
          BY ONLY <4>5, <5>1, PlaceIsUnique
      <4> QED
        BY <4>1, <4>6
    <3>7. hits = {<<p, n>>}
      BY <3>5, <3>6
    <3>8. \E h \in hits : hits = {h}
      BY <3>5, <3>7
    <3> QED
      BY <3>8, <2>6 DEF hits
  <2>7. IF last_index[a][c] > 0 THEN \E h \in hits : hits = {h} ELSE hits = {}
    BY <2>5, <2>6 DEF hits
  <2> QED
    BY <2>7 DEF hits
<1> QED
  BY <1>1, ReputationInvariant, PTL

\* Only feedback has responses.
THEOREM ResponsesBelong == Spec => []ResponsesHaveFeedback
<1>1. ReputationInv => ResponsesHaveFeedback
  BY DEF ReputationInv
<1> QED
  BY <1>1, ReputationInvariant, PTL

\* Feedback is append-only: give_feedback writes a number that was free, and
\* revoke_feedback only sets the flag.
THEOREM ImmutableFeedback == Spec => FeedbackImmutable
<1> DEFINE A == \A a \in Agents, c \in Addresses, i \in Indexes :
                   HasFeedback(a, c, i) =>
                      /\ feedback'[a][c][i].body = feedback[a][c][i].body
                      /\ feedback[a][c][i].is_revoked => feedback'[a][c][i].is_revoked
<1>1. ASSUME ReputationInv, [Next]_vars PROVE [A]_vars
  <2> USE <1>1, ReputationAssumption DEF ReputationInv
  <2>1. ASSUME NEW x \in Addresses, NEW a \in Agents, NEW body \in Bodies,
               GiveFeedback(x, a, body)
        PROVE A
    <3> DEFINE n == last_index[a][x] + 1
    <3>1. /\ n \in Indexes
          /\ feedback' = [feedback EXCEPT
                ![a][x][n] = [body |-> body, is_revoked |-> FALSE]]
      BY <2>1 DEF GiveFeedback, NextIndex, TypeOK, Indexes
    <3>2. ~HasFeedback(a, x, n)
      BY <3>1 DEF FeedbackContiguous, TypeOK, Indexes
    <3> HIDE DEF n
    <3> QED
      BY <3>1, <3>2 DEF TypeOK
  <2>2. ASSUME NEW x \in Addresses, NEW a \in Agents, NEW i \in Indexes,
               RevokeFeedback(x, a, i)
        PROVE A
    BY <2>2 DEF RevokeFeedback, TypeOK, FeedbackData
  <2>3. ASSUME UNCHANGED feedback PROVE A
    BY <2>3
  <2>4. CASE Next
    BY <2>1, <2>2, <2>3, <2>4 DEF Next, AppendResponse, IdentityMoves, storage
  <2> QED
    BY <2>4
<1> QED
  BY <1>1, ReputationInvariant, PTL DEF Spec, FeedbackImmutable
-----------------------------------------------------------------------------
(* The tables the indexer keeps of the feedback *)

FeedbackKeys == Agents \X Addresses \X Indexes

\* The three events of a feedback.
EventOf(type, k) == [type |-> type, agent |-> k[1], client |-> k[2], index |-> k[3]]

BaseOf(k) == [agentId |-> k[1], clientAddress |-> k[2]]

\* The symbol of an event and its three topics in one list.
LEMMA TopicsJoined ==
  ASSUME NEW name, NEW a, NEW b, NEW c
  PROVE  <<name>> \o <<a, b, c>> = <<name, a, b, c>>
<1> DEFINE S == {name, a, b, c}
           joined == <<name>> \o <<a, b, c>>
           list == <<name, a, b, c>>
<1>1. <<name>> \in Seq(S) /\ <<a, b, c>> \in Seq(S) /\ list \in Seq(S)
  OBVIOUS
<1>2. joined \in Seq(S) /\ Len(joined) = 4
  BY <1>1, ConcatProperties
<1>3. joined[1] = name /\ joined[2] = a /\ joined[3] = b /\ joined[4] = c
  BY <1>1, ConcatProperties
<1>4. list[1] = name /\ list[2] = a /\ list[3] = b /\ list[4] = c /\ Len(list) = 4
  OBVIOUS
<1> HIDE DEF joined, list
<1>5. \A i \in 1 .. Len(joined) : joined[i] = list[i]
  <2>1. 1 .. Len(joined) = {1, 2, 3, 4}
    BY <1>2
  <2> QED
    BY <2>1, <1>3, <1>4
<1>6. Len(joined) = Len(list)
  BY <1>2, <1>4
<1> HIDE DEF S
<1>7. joined = list
  BY <1>1, <1>2, <1>5, <1>6, SeqEqual, Zenon
<1> QED
  BY <1>7 DEF joined, list

\* Reading back a wire of three topics.
LEMMA WireParts ==
  ASSUME NEW name, NEW a, NEW b, NEW c, NEW data
  PROVE  LET w == Wire(name, <<a, b, c>>, data)
         IN /\ EventName(w) = name /\ Len(w.topics) = 4
            /\ Topic(w, 1) = a /\ Topic(w, 2) = b /\ Topic(w, 3) = c /\ w.data = data
<1>1. <<Sv("symbol", name)>> \o <<a, b, c>> = <<Sv("symbol", name), a, b, c>>
  BY TopicsJoined
<1> QED
  BY <1>1 DEF Wire, EventName, Topic, Sv

\* What the topics of an event of the feedback k give.
LEMMA BaseReadBack ==
  ASSUME NEW k \in FeedbackKeys, NEW name, NEW last, NEW data, NEW w,
         w = Wire(name, <<U32(k[1]), Address(k[2]), last>>, data)
  PROVE  /\ EventName(w) = name /\ Len(w.topics) = 4 /\ w.data = data /\ Topic(w, 3) = last
         /\ [agentId |-> ToSafeInteger(Topic(w, 1)), clientAddress |-> ToAddress(Topic(w, 2))]
               = BaseOf(k)
         /\ Parsed(BaseOf(k)) = BaseOf(k) /\ BaseOf(k) \in EventBases
<1>1. /\ EventName(w) = name /\ Len(w.topics) = 4 /\ w.data = data
      /\ Topic(w, 1) = U32(k[1]) /\ Topic(w, 2) = Address(k[2]) /\ Topic(w, 3) = last
  BY WireParts
<1>2. ToSafeInteger(U32(k[1])) = k[1] /\ ToAddress(Address(k[2])) = k[2]
  BY DEF FeedbackKeys, ToSafeInteger, ToAddress, IsValidStellarAddress, U32, Address, Sv
<1>3. BaseOf(k) \in EventBases
  BY DEF FeedbackKeys, BaseOf, EventBases
<1>4. Parsed(BaseOf(k)) = BaseOf(k)
  BY ReputationAssumption, WireAssumption DEF FeedbackKeys, BaseOf, Parsed
<1> QED
  BY <1>1, <1>2, <1>3, <1>4 DEF BaseOf

\* The parser reads the three events as the contract published them.
LEMMA EventReadBack ==
  ASSUME NEW k \in FeedbackKeys, NEW b \in Admissible
  PROVE  /\ ParseReputationEvent(ReputationWire(EventOf("new_feedback", k), b, k[2]))
               = [type |-> "NewFeedback", base |-> BaseOf(k), feedbackIndex |-> k[3],
                  value |-> ValueOf[b], tag1 |-> Decode(b), valueDecimals |-> DecimalsOf[b]]
         /\ ParseReputationEvent(ReputationWire(EventOf("feedback_revoked", k), b, k[2]))
               = [type |-> "FeedbackRevoked", base |-> BaseOf(k), feedbackIndex |-> k[3]]
         /\ ParseReputationEvent(ReputationWire(EventOf("response_appended", k), b, k[2]))
               = [type |-> "ResponseAppended", base |-> BaseOf(k), responder |-> k[2],
                  feedbackIndex |-> k[3]]
<1> USE ReputationAssumption, SummaryAssumption, WireAssumption
<1>1. /\ k[2] \in Addresses /\ k[3] \in Nat /\ k[3] >= 1 /\ k[3] # None
      /\ b # None /\ ValueOf[b] # None /\ DecimalsOf[b] # None /\ k[2] # None
  BY DEF FeedbackKeys, Indexes
<1>2. DecimalsOf[b] \in 0 .. WAD
  OBVIOUS
<1>3. ValidFeedbackIndex(k[3])
  BY <1>1 DEF ValidFeedbackIndex
<1>4. /\ ToBigInt(U64(k[3])) = k[3] /\ ToBigInt(Sv("i128", ValueOf[b])) = ValueOf[b]
      /\ ToSafeInteger(U32(DecimalsOf[b])) = DecimalsOf[b] /\ ToText(String(b)) = Decode(b)
      /\ Decode(b) # None
      /\ ToAddress(Address(k[2])) = k[2]
  BY <1>1 DEF ToBigInt, ToSafeInteger, ToText, BytesToUtf8, Decode, ToAddress, IsValidStellarAddress,
              U64, U32, String, Address, Sv
<1>5. ParseReputationEvent(ReputationWire(EventOf("new_feedback", k), b, k[2]))
         = [type |-> "NewFeedback", base |-> BaseOf(k), feedbackIndex |-> k[3],
            value |-> ValueOf[b], tag1 |-> Decode(b), valueDecimals |-> DecimalsOf[b]]
  <2> DEFINE data == [feedback_index |-> U64(k[3]), value |-> Sv("i128", ValueOf[b]),
                      value_decimals |-> U32(DecimalsOf[b])]
             w == Wire("new_feedback", <<U32(k[1]), Address(k[2]), String(b)>>, data)
             event == [type |-> "NewFeedback", base |-> BaseOf(k), feedbackIndex |-> k[3],
                       value |-> ValueOf[b], tag1 |-> Decode(b), valueDecimals |-> DecimalsOf[b]]
  <2>1. ReputationWire(EventOf("new_feedback", k), b, k[2]) = w
    BY DEF ReputationWire, EventOf
  <2>2. /\ EventName(w) = "new_feedback" /\ Len(w.topics) = 4 /\ w.data = data
        /\ Topic(w, 3) = String(b) /\ Parsed(BaseOf(k)) = BaseOf(k) /\ BaseOf(k) # None
        /\ [agentId |-> ToSafeInteger(Topic(w, 1)), clientAddress |-> ToAddress(Topic(w, 2))]
              = BaseOf(k)
    BY BaseReadBack
  <2>3. /\ Field(w, "feedback_index") = U64(k[3]) /\ Field(w, "value") = Sv("i128", ValueOf[b])
        /\ Field(w, "value_decimals") = U32(DecimalsOf[b]) /\ "value_decimals" \in DOMAIN w.data
    <3> HIDE DEF w
    <3> QED
      BY <2>2 DEF Field
  <2>4. Parsed(event) = event
    BY <1>1, <1>4, <2>2 DEF Parsed
  <2>5. ParseReputationEvent(w) = Parsed(event)
    <3> HIDE DEF w, data
    <3> QED
      BY <1>2, <1>3, <1>4, <2>2, <2>3 DEF ParseReputationEvent
  <2> QED
    BY <2>1, <2>4, <2>5
<1>6. ParseReputationEvent(ReputationWire(EventOf("feedback_revoked", k), b, k[2]))
         = [type |-> "FeedbackRevoked", base |-> BaseOf(k), feedbackIndex |-> k[3]]
  <2> DEFINE w == Wire("feedback_revoked", <<U32(k[1]), Address(k[2]), U64(k[3])>>, <<>>)
             event == [type |-> "FeedbackRevoked", base |-> BaseOf(k), feedbackIndex |-> k[3]]
  <2>1. ReputationWire(EventOf("feedback_revoked", k), b, k[2]) = w
    BY DEF ReputationWire, EventOf
  <2>2. /\ EventName(w) = "feedback_revoked" /\ Len(w.topics) = 4
        /\ Topic(w, 3) = U64(k[3]) /\ Parsed(BaseOf(k)) = BaseOf(k) /\ BaseOf(k) # None
        /\ [agentId |-> ToSafeInteger(Topic(w, 1)), clientAddress |-> ToAddress(Topic(w, 2))]
              = BaseOf(k)
    BY BaseReadBack
  <2>3. Parsed(event) = event
    BY <1>1, <2>2 DEF Parsed
  <2>4. ParseReputationEvent(w) = Parsed(event)
    <3> HIDE DEF w
    <3> QED
      BY <1>3, <1>4, <2>2 DEF ParseReputationEvent
  <2> QED
    BY <2>1, <2>3, <2>4
<1>7. ParseReputationEvent(ReputationWire(EventOf("response_appended", k), b, k[2]))
         = [type |-> "ResponseAppended", base |-> BaseOf(k), responder |-> k[2],
            feedbackIndex |-> k[3]]
  <2> DEFINE data == [feedback_index |-> U64(k[3])]
             w == Wire("response_appended", <<U32(k[1]), Address(k[2]), Address(k[2])>>, data)
             event == [type |-> "ResponseAppended", base |-> BaseOf(k), responder |-> k[2],
                       feedbackIndex |-> k[3]]
  <2>1. ReputationWire(EventOf("response_appended", k), b, k[2]) = w
    BY DEF ReputationWire, EventOf
  <2>2. /\ EventName(w) = "response_appended" /\ Len(w.topics) = 4 /\ w.data = data
        /\ Topic(w, 3) = Address(k[2]) /\ Parsed(BaseOf(k)) = BaseOf(k) /\ BaseOf(k) # None
        /\ [agentId |-> ToSafeInteger(Topic(w, 1)), clientAddress |-> ToAddress(Topic(w, 2))]
              = BaseOf(k)
    BY BaseReadBack
  <2>3. Field(w, "feedback_index") = U64(k[3])
    <3> HIDE DEF w
    <3> QED
      BY <2>2 DEF Field
  <2>4. Parsed(event) = event
    BY <1>1, <2>2 DEF Parsed
  <2>5. ParseReputationEvent(w) = Parsed(event)
    <3> HIDE DEF w, data
    <3> QED
      BY <1>3, <1>4, <2>2, <2>3 DEF ParseReputationEvent
  <2> QED
    BY <2>1, <2>4, <2>5
<1> QED
  BY <1>5, <1>6, <1>7

\* The tables as a pair, and what the three events do to them.
Pair(F, R) == [feedback |-> F, responses |-> R]

HasRow(F, k) == \E r \in F : r.key = k
HasEvent(R, id) == \E r \in R : r.event_id = id

NewRow(k, b) ==
    [key |-> k, value |-> ValueOf[b], value_decimals |-> DecimalsOf[b], is_revoked |-> FALSE,
     tag1 |-> Decode(b)]

Inserted(F, k, f) == IF HasRow(F, k) THEN F ELSE F \cup {NewRow(k, f.body)}

RevokedRow(r) == [r EXCEPT !.is_revoked = TRUE]
RevokedData(f) == [f EXCEPT !.is_revoked = TRUE]
Revoked(F, k) == {IF r.key = k THEN RevokedRow(r) ELSE r : r \in F}

ResponseRow(k, id, n) == [key |-> k, event_id |-> id, response_index |-> n, responder |-> k[2]]
NumbersOf(R, k) == {r.response_index : r \in {q \in R : q.key = k}}
Appended(R, k, id) ==
    IF HasEvent(R, id) THEN R
    ELSE R \cup {ResponseRow(k, id, Max(NumbersOf(R, k) \cup {0}) + 1)}

\* Feedback as the contract stores it.
Stored == {f \in FeedbackData : f.body \in Admissible}

\* Each event of a feedback, through the wire, the parser and its statement.
LEMMA EventsWritten ==
  ASSUME NEW F, NEW R, NEW k, NEW f, NEW id, k \in FeedbackKeys, f \in Stored
  PROVE  /\ Written(Pair(F, R), EventOf("new_feedback", k), f, id) = Pair(Inserted(F, k, f), R)
         /\ HasRow(F, k) =>
               /\ Written(Pair(F, R), EventOf("feedback_revoked", k), f, id) = Pair(Revoked(F, k), R)
               /\ Written(Pair(F, R), EventOf("response_appended", k), f, id)
                     = Pair(F, Appended(R, k, id))
<1> DEFINE b == f.body
           T == Pair(F, R)
           new == [type |-> "NewFeedback", base |-> BaseOf(k), feedbackIndex |-> k[3],
                   value |-> ValueOf[b], tag1 |-> Decode(b), valueDecimals |-> DecimalsOf[b]]
           revoke == [type |-> "FeedbackRevoked", base |-> BaseOf(k), feedbackIndex |-> k[3]]
           append == [type |-> "ResponseAppended", base |-> BaseOf(k), responder |-> k[2],
                      feedbackIndex |-> k[3]]
<1>1. /\ k = <<k[1], k[2], k[3]>> /\ k[2] \in Addresses /\ k[3] \in Indexes
      /\ BaseOf(k) \in EventBases
  BY DEF FeedbackKeys, BaseOf, EventBases
<1>2. new # None /\ revoke # None /\ append # None
  <2>1. new \in ParsedFeedback
    BY <1>1 DEF ParsedFeedback, Stored
  <2>2. revoke \in ParsedRevocations
    BY <1>1 DEF ParsedRevocations
  <2>3. append \in ParsedResponses
    BY <1>1 DEF ParsedResponses
  <2> QED
    BY <2>1, <2>2, <2>3, WireAssumption, Zenon
<1>3. FeedbackKey(new) = k /\ FeedbackKey(revoke) = k /\ FeedbackKey(append) = k
  BY <1>1 DEF FeedbackKey, BaseOf
<1>4. /\ EventOf("new_feedback", k).client = k[2] /\ EventOf("feedback_revoked", k).client = k[2]
      /\ EventOf("response_appended", k).client = k[2]
  BY DEF EventOf
<1>5. T.feedback = F /\ T.responses = R
  BY DEF Pair
<1>6. ASSUME NEW G PROVE /\ [T EXCEPT !.feedback = G] = Pair(G, R)
                         /\ [T EXCEPT !.responses = G] = Pair(F, G)
  BY DEF Pair
<1>7. /\ new.type = "NewFeedback" /\ new.value = ValueOf[b] /\ new.valueDecimals = DecimalsOf[b]
      /\ new.tag1 = Decode(b) /\ revoke.type = "FeedbackRevoked"
      /\ append.type = "ResponseAppended" /\ append.responder = k[2]
  OBVIOUS
<1>8. /\ ParseReputationEvent(ReputationWire(EventOf("new_feedback", k), b, k[2])) = new
      /\ ParseReputationEvent(ReputationWire(EventOf("feedback_revoked", k), b, k[2])) = revoke
      /\ ParseReputationEvent(ReputationWire(EventOf("response_appended", k), b, k[2])) = append
  BY EventReadBack DEF Stored
<1> HIDE DEF new, revoke, append, T
<1>9. /\ Written(T, EventOf("new_feedback", k), f, id) = NewFeedback(T, new)
      /\ HasRow(F, k) =>
            /\ Written(T, EventOf("feedback_revoked", k), f, id) = FeedbackRevoked(T, revoke)
            /\ Written(T, EventOf("response_appended", k), f, id) = ResponseAppended(T, append, id)
  BY <1>2, <1>3, <1>4, <1>5, <1>7, <1>8 DEF Written, MissingParent, EventStatement, HasRow
<1>10. NewFeedback(T, new) = Pair(Inserted(F, k, f), R)
  <2>1. [T EXCEPT !.feedback = @ \cup {NewRow(k, b)}] = Pair(F \cup {NewRow(k, b)}, R)
    BY <1>5, <1>6
  <2>2. ~HasRow(F, k) => NewFeedback(T, new) = Pair(F \cup {NewRow(k, b)}, R)
    BY <1>3, <1>5, <1>7, <2>1 DEF NewFeedback, HasRow, NewRow
  <2>3. HasRow(F, k) => NewFeedback(T, new) = Pair(F, R)
    BY <1>3, <1>5 DEF NewFeedback, HasRow, T
  <2> QED
    BY <2>2, <2>3 DEF Inserted
<1>11. FeedbackRevoked(T, revoke) = Pair(Revoked(F, k), R)
  <2>1. FeedbackRevoked(T, revoke) = [T EXCEPT !.feedback = Revoked(F, k)]
    BY <1>3, <1>5 DEF FeedbackRevoked, Revoked, RevokedRow
  <2> QED
    BY <1>6, <2>1
<1>12. ResponseAppended(T, append, id)
          = IF HasEvent(R, id) THEN T
            ELSE [T EXCEPT !.responses =
                     R \cup {ResponseRow(k, id, Max(NumbersOf(R, k) \cup {0}) + 1)}]
  BY <1>3, <1>5, <1>7, Zenon DEF ResponseAppended, ResponseRow, NumbersOf, HasEvent
<1>13. ResponseAppended(T, append, id) = Pair(F, Appended(R, k, id))
  BY <1>6, <1>12 DEF T, Appended
<1> QED
  BY <1>9, <1>10, <1>11, <1>13 DEF T

\* The tables that show a storage: fb the feedback, rc the counts of the responses.
At(g, k) == g[k[1]][k[2]][k[3]]
GivenIn(fb) == {k \in FeedbackKeys : At(fb, k).body # None}

RowOf(k, f) ==
    [key |-> k, value |-> ValueOf[f.body], value_decimals |-> DecimalsOf[f.body],
     is_revoked |-> f.is_revoked, tag1 |-> Decode(f.body)]

RowsOf(fb) == {RowOf(k, At(fb, k)) : k \in GivenIn(fb)}
AnswersTo(k, n) == {ResponseRow(k, ResponseId(k, i), i) : i \in 1 .. n}
AnswersOf(fb, rc) == UNION {AnswersTo(k, At(rc, k)) : k \in GivenIn(fb)}

StoredWell(fb, rc) ==
    \A k \in FeedbackKeys :
       /\ At(fb, k) \in FeedbackData /\ At(fb, k).body \in Admissible \cup {None}
       /\ At(rc, k) \in Nat

\* The feedback table holds one row for every feedback and no other.
LEMMA RowsByKey ==
  ASSUME NEW fb, NEW k \in FeedbackKeys
  PROVE  /\ HasRow(RowsOf(fb), k) <=> k \in GivenIn(fb)
         /\ \A r \in RowsOf(fb) : r.key = k => r = RowOf(k, At(fb, k))
<1>1. \A q, f : RowOf(q, f).key = q
  BY DEF RowOf
<1> QED
  BY <1>1 DEF RowsOf, GivenIn, HasRow

\* A feedback answered n times has the responses 1 to n, under their ids.
LEMMA AnswersByKey ==
  ASSUME NEW fb, NEW rc, NEW k \in GivenIn(fb)
  PROVE  /\ \A i : HasEvent(AnswersOf(fb, rc), ResponseId(k, i))
                      <=> i \in 1 .. At(rc, k)
         /\ NumbersOf(AnswersOf(fb, rc), k) = 1 .. At(rc, k)
<1>1. \A q, i : LET r == ResponseRow(q, ResponseId(q, i), i)
                IN r.key = q /\ r.event_id = <<q, i>> /\ r.response_index = i
  BY DEF ResponseRow, ResponseId
<1>2. \A q, p, i, j : <<q, i>> = <<p, j>> => q = p /\ i = j
  OBVIOUS
<1>3. ASSUME NEW r \in AnswersOf(fb, rc)
      PROVE  \E q \in GivenIn(fb) : \E i \in 1 .. At(rc, q) : r = ResponseRow(q, ResponseId(q, i), i)
  BY DEF AnswersOf, AnswersTo
<1>4. ASSUME NEW i \in 1 .. At(rc, k)
      PROVE  ResponseRow(k, ResponseId(k, i), i) \in AnswersOf(fb, rc)
  BY DEF AnswersOf, AnswersTo
<1>5. ASSUME NEW i PROVE HasEvent(AnswersOf(fb, rc), ResponseId(k, i))
                            <=> i \in 1 .. At(rc, k)
  <2>1. ASSUME NEW r \in AnswersOf(fb, rc), r.event_id = ResponseId(k, i)
        PROVE  i \in 1 .. At(rc, k)
    <3>1. PICK q \in GivenIn(fb) : \E j \in 1 .. At(rc, q) : r = ResponseRow(q, ResponseId(q, j), j)
      BY <1>3
    <3>2. PICK j \in 1 .. At(rc, q) : r = ResponseRow(q, ResponseId(q, j), j)
      BY <3>1
    <3>3. <<q, j>> = <<k, i>>
      BY <1>1, <2>1, <3>2 DEF ResponseId
    <3> QED
      BY <1>2, <3>3
  <2>2. ASSUME i \in 1 .. At(rc, k)
        PROVE  HasEvent(AnswersOf(fb, rc), ResponseId(k, i))
    BY <1>1, <1>4, <2>2 DEF ResponseId, HasEvent
  <2> QED
    BY <2>1, <2>2 DEF HasEvent
<1>6. NumbersOf(AnswersOf(fb, rc), k) = 1 .. At(rc, k)
  <2>1. ASSUME NEW i \in NumbersOf(AnswersOf(fb, rc), k) PROVE i \in 1 .. At(rc, k)
    <3>1. PICK r \in AnswersOf(fb, rc) : r.key = k /\ r.response_index = i
      BY DEF NumbersOf
    <3>2. PICK q \in GivenIn(fb) : \E j \in 1 .. At(rc, q) : r = ResponseRow(q, ResponseId(q, j), j)
      BY <1>3
    <3> QED
      BY <1>1, <3>1, <3>2
  <2>2. ASSUME NEW i \in 1 .. At(rc, k) PROVE i \in NumbersOf(AnswersOf(fb, rc), k)
    BY <1>1, <1>4 DEF NumbersOf
  <2> QED
    BY <2>1, <2>2
<1> QED
  BY <1>5, <1>6

\* The row of a feedback, once the feedback is revoked.
LEMMA RowRevoked ==
  ASSUME NEW k, NEW f \in FeedbackData
  PROVE  RevokedRow(RowOf(k, f)) = RowOf(k, RevokedData(f))
<1> DEFINE F == {"key", "value", "value_decimals", "is_revoked", "tag1"}
           r == RowOf(k, f)
           x == RevokedRow(r)
           g == RevokedData(f)
           y == RowOf(k, g)
<1>0. g.body = f.body /\ g.is_revoked = TRUE
  BY DEF RevokedData, FeedbackData
<1> HIDE DEF g
<1>1. DOMAIN r = F /\ DOMAIN y = F
  BY DEF RowOf
<1>2. /\ r.key = k /\ r.value = ValueOf[f.body] /\ r.value_decimals = DecimalsOf[f.body]
      /\ r.tag1 = Decode(f.body)
  BY DEF RowOf
<1>3. /\ y.key = k /\ y.value = ValueOf[f.body] /\ y.value_decimals = DecimalsOf[f.body]
      /\ y.is_revoked = TRUE /\ y.tag1 = Decode(f.body)
  BY <1>0 DEF RowOf
<1>4. y = [c \in F |-> y[c]]
  BY DEF RowOf
<1> HIDE DEF r, y
<1>5. /\ x = [c \in F |-> x[c]]
      /\ x.key = r.key /\ x.value = r.value /\ x.value_decimals = r.value_decimals
      /\ x.is_revoked = TRUE /\ x.tag1 = r.tag1
  BY <1>1 DEF RevokedRow
<1> HIDE DEF x
<1>6. \A c \in F : x[c] = y[c]
  BY <1>2, <1>3, <1>5
<1> HIDE DEF F
<1>7. x = y
  BY <1>4, <1>5, <1>6
<1> QED
  BY <1>7 DEF x, y, r, g

\* Writing an event of a feedback again changes nothing.
LEMMA ReplayChangesNothing ==
  ASSUME NEW fb, NEW rc, StoredWell(fb, rc), NEW k \in GivenIn(fb),
         NEW h \in History(k, At(fb, k), At(rc, k))
  PROVE  Written(Pair(RowsOf(fb), AnswersOf(fb, rc)), h[1], At(fb, k), h[2])
            = Pair(RowsOf(fb), AnswersOf(fb, rc))
<1> DEFINE f == At(fb, k)
           F == RowsOf(fb)
           R == AnswersOf(fb, rc)
<1>1. k \in FeedbackKeys /\ f \in Stored
  BY DEF GivenIn, StoredWell, Stored
<1>2. HasRow(F, k)
  BY <1>1, RowsByKey
<1>3. \/ h = <<EventOf("new_feedback", k), None>>
      \/ f.is_revoked /\ h = <<EventOf("feedback_revoked", k), None>>
      \/ \E i \in 1 .. At(rc, k) : h = <<EventOf("response_appended", k), ResponseId(k, i)>>
  BY DEF History, EventOf
<1> HIDE DEF F, R, f
<1>0. ASSUME NEW id
      PROVE  /\ Written(Pair(F, R), EventOf("new_feedback", k), f, id) = Pair(F, R)
             /\ Written(Pair(F, R), EventOf("feedback_revoked", k), f, id) = Pair(Revoked(F, k), R)
             /\ HasEvent(R, id) =>
                   Written(Pair(F, R), EventOf("response_appended", k), f, id) = Pair(F, R)
  <2>1. Inserted(F, k, f) = F
    BY <1>2 DEF Inserted
  <2>2. HasEvent(R, id) => Appended(R, k, id) = R
    BY DEF Appended
  <2> QED
    BY <1>1, <1>2, <2>1, <2>2, EventsWritten
<1>4. CASE h = <<EventOf("new_feedback", k), None>>
  <2>1. h[1] = EventOf("new_feedback", k)
    BY <1>4
  <2>2. Written(Pair(F, R), h[1], f, h[2]) = Pair(F, R)
    BY <1>0, <2>1
  <2> QED
    BY <2>2 DEF F, R, f
<1>5. CASE f.is_revoked /\ h = <<EventOf("feedback_revoked", k), None>>
  <2>1. h[1] = EventOf("feedback_revoked", k)
    BY <1>5
  <2>2. f \in FeedbackData /\ RevokedData(f) = f
    BY <1>1, <1>5 DEF Stored, FeedbackData, RevokedData
  <2>3. RevokedRow(RowOf(k, f)) = RowOf(k, f)
    BY <2>2, RowRevoked
  <2>4. \A r \in F : r.key = k => RevokedRow(r) = r
    BY <1>1, <2>3, RowsByKey DEF F, f
  <2>5. Revoked(F, k) = F
    BY <2>4 DEF Revoked
  <2>6. Written(Pair(F, R), h[1], f, h[2]) = Pair(F, R)
    BY <1>0, <2>1, <2>5
  <2> QED
    BY <2>6 DEF F, R, f
<1>6. ASSUME NEW i \in 1 .. At(rc, k), h = <<EventOf("response_appended", k), ResponseId(k, i)>>
      PROVE  Written(Pair(F, R), h[1], f, h[2]) = Pair(F, R)
  <2>1. h[1] = EventOf("response_appended", k) /\ h[2] = ResponseId(k, i)
    BY <1>6
  <2>2. HasEvent(R, ResponseId(k, i))
    BY <1>6, AnswersByKey DEF R
  <2> QED
    BY <1>0, <2>1, <2>2
<1> QED
  BY <1>3, <1>4, <1>5, <1>6 DEF F, R, f

\* The tables of a storage.
TablesOf(fb, rc) == Pair(RowsOf(fb), AnswersOf(fb, rc))

\* A new feedback adds its row.
LEMMA GivenAddsRow ==
  ASSUME NEW fb, NEW rc, NEW k, NEW f, NEW id, NEW new,
         k \in FeedbackKeys, k \notin GivenIn(fb), At(rc, k) = 0, f \in Stored, ~f.is_revoked,
         At(new, k) = f, \A q \in FeedbackKeys \ {k} : At(new, q) = At(fb, q)
  PROVE  Written(TablesOf(fb, rc), EventOf("new_feedback", k), f, id) = TablesOf(new, rc)
<1>1. GivenIn(new) = GivenIn(fb) \cup {k}
  BY ReputationAssumption DEF GivenIn, Stored
<1>2. RowsOf(new) = RowsOf(fb) \cup {RowOf(k, f)}
  BY <1>1 DEF RowsOf, GivenIn
<1>3. AnswersTo(k, At(rc, k)) = {}
  BY DEF AnswersTo
<1>4. AnswersOf(new, rc) = AnswersOf(fb, rc) \cup AnswersTo(k, At(rc, k))
  BY <1>1 DEF AnswersOf
<1>5. RowOf(k, f) = NewRow(k, f.body)
  BY DEF RowOf, NewRow, Stored, FeedbackData
<1>6. ~HasRow(RowsOf(fb), k)
  BY RowsByKey
<1>7. Inserted(RowsOf(fb), k, f) = RowsOf(new)
  BY <1>2, <1>5, <1>6 DEF Inserted
<1>8. AnswersOf(new, rc) = AnswersOf(fb, rc)
  BY <1>3, <1>4
<1> QED
  BY <1>7, <1>8, EventsWritten DEF TablesOf

\* A revocation marks its row.
LEMMA RevokedMarksRow ==
  ASSUME NEW fb, NEW rc, NEW k, NEW f, NEW id, NEW new, StoredWell(fb, rc), k \in GivenIn(fb),
         f = RevokedData(At(fb, k)),
         At(new, k) = f, \A q \in FeedbackKeys \ {k} : At(new, q) = At(fb, q)
  PROVE  Written(TablesOf(fb, rc), EventOf("feedback_revoked", k), f, id) = TablesOf(new, rc)
<1> DEFINE g == At(fb, k)
<1>1. k \in FeedbackKeys /\ g \in FeedbackData /\ g.body \in Admissible /\ g.body # None
  BY DEF GivenIn, StoredWell
<1>2. f \in Stored /\ f.body = g.body
  BY <1>1 DEF Stored, FeedbackData, RevokedData
<1>3. GivenIn(new) = GivenIn(fb)
  BY <1>1, <1>2 DEF GivenIn
<1>4. RevokedRow(RowOf(k, g)) = RowOf(k, f)
  BY <1>1, RowRevoked
<1>5. \A q, x : RowOf(q, x).key = q
  BY DEF RowOf
<1> HIDE DEF g
<1>6. RowsOf(new) = {IF q = k THEN RowOf(k, f) ELSE RowOf(q, At(fb, q)) : q \in GivenIn(fb)}
  BY <1>3 DEF RowsOf, GivenIn
<1>7. Revoked(RowsOf(fb), k)
         = {IF q = k THEN RevokedRow(RowOf(k, g)) ELSE RowOf(q, At(fb, q)) : q \in GivenIn(fb)}
  BY <1>5 DEF RowsOf, Revoked, g
<1>8. Revoked(RowsOf(fb), k) = RowsOf(new)
  BY <1>4, <1>6, <1>7
<1>9. AnswersOf(new, rc) = AnswersOf(fb, rc)
  BY <1>3 DEF AnswersOf
<1>10. HasRow(RowsOf(fb), k)
  BY <1>1, RowsByKey
<1> QED
  BY <1>1, <1>2, <1>8, <1>9, <1>10, EventsWritten DEF TablesOf

\* A response is numbered after those the feedback has.
LEMMA ResponseAddsRow ==
  ASSUME NEW fb, NEW rc, NEW k, NEW n, NEW new,
         StoredWell(fb, rc), k \in GivenIn(fb), n = At(rc, k) + 1,
         At(new, k) = n, \A q \in FeedbackKeys \ {k} : At(new, q) = At(rc, q)
  PROVE  Written(TablesOf(fb, rc), EventOf("response_appended", k), At(fb, k), ResponseId(k, n))
            = TablesOf(fb, new)
<1> DEFINE m == At(rc, k)
           R == AnswersOf(fb, rc)
           row == ResponseRow(k, ResponseId(k, n), n)
<1>1. k \in FeedbackKeys /\ At(fb, k) \in Stored /\ m \in Nat /\ n = m + 1
  BY DEF GivenIn, StoredWell, Stored
<1>2. HasRow(RowsOf(fb), k)
  BY <1>1, RowsByKey
<1>3. NumbersOf(R, k) = 1 .. m /\ (HasEvent(R, ResponseId(k, n)) <=> n \in 1 .. m)
  BY AnswersByKey
<1> HIDE DEF m, R
<1>4. n \notin 1 .. m
  BY <1>1
<1>5. Max((1 .. m) \cup {0}) = m
  <2>1. /\ m \in (1 .. m) \cup {0} /\ \A y \in (1 .. m) \cup {0} : m >= y
        /\ \A x \in (1 .. m) \cup {0} : (\A y \in (1 .. m) \cup {0} : x >= y) => x = m
    BY <1>1
  <2> QED
    BY <2>1 DEF Max
<1>6. Appended(R, k, ResponseId(k, n)) = R \cup {row}
  <2>1. ~HasEvent(R, ResponseId(k, n))
    BY <1>3, <1>4
  <2>2. Max(NumbersOf(R, k) \cup {0}) + 1 = n
    BY <1>1, <1>3, <1>5
  <2> QED
    BY <2>1, <2>2 DEF Appended
<1>7. AnswersOf(fb, new) = R \cup {row}
  <2>1. AnswersTo(k, n) = AnswersTo(k, m) \cup {row}
    <3>1. 1 .. n = (1 .. m) \cup {n}
      BY <1>1
    <3> QED
      BY <3>1 DEF AnswersTo
  <2>2. \A q \in GivenIn(fb) : q \in FeedbackKeys
    BY DEF GivenIn
  <2>3. \A q \in GivenIn(fb) \ {k} : AnswersTo(q, At(new, q)) = AnswersTo(q, At(rc, q))
    BY <2>2
  <2>4. AnswersTo(k, At(new, k)) = AnswersTo(k, At(rc, k)) \cup {row}
    BY <2>1 DEF m
  <2> HIDE DEF row
  <2> QED
    BY <2>3, <2>4 DEF AnswersOf, R
<1>8. Written(Pair(RowsOf(fb), R), EventOf("response_appended", k), At(fb, k), ResponseId(k, n))
         = Pair(RowsOf(fb), AnswersOf(fb, new))
  BY <1>1, <1>2, <1>6, <1>7, EventsWritten
<1> QED
  BY <1>8 DEF R, TablesOf

\* The storage maps to the tables.
LEMMA TablesShowStorage ==
  /\ Tables = TablesOf(feedback, response_count)
  /\ Tables' = TablesOf(feedback', response_count')
<1>1. /\ Given = GivenIn(feedback) /\ Given' = GivenIn(feedback')
  BY Zenon DEF Given, GivenIn, FeedbackKeys, At, HasFeedback
<1> QED
  BY <1>1, Zenon DEF Tables, TablesOf, Pair, RowsOf, AnswersOf, RowOf, At, AnswersTo, ResponseRow,
                     Responses

\* A storage by key, and an update of one key.
Storage(S) == [Agents -> [Addresses -> [Indexes -> S]]]
Put(g, a, c, i, v) == [g EXCEPT ![a][c][i] = v]

\* The update changes that key only.
LEMMA AtChanged ==
  ASSUME NEW S, NEW g, NEW a, NEW c, NEW i, NEW v,
         g \in Storage(S), a \in Agents, c \in Addresses, i \in Indexes
  PROVE  /\ At(Put(g, a, c, i, v), <<a, c, i>>) = v
         /\ \A q \in FeedbackKeys \ {<<a, c, i>>} : At(Put(g, a, c, i, v), q) = At(g, q)
<1> DEFINE new == Put(g, a, c, i, v)
<1>1. /\ new[a][c][i] = v
      /\ \A b \in Agents, d \in Addresses, j \in Indexes :
            ~(b = a /\ d = c /\ j = i) => new[b][d][j] = g[b][d][j]
  BY DEF Storage, Put
<1> HIDE DEF new
<1>2. ASSUME NEW q \in FeedbackKeys \ {<<a, c, i>>} PROVE At(new, q) = At(g, q)
  <2>1. PICK b \in Agents, d \in Addresses, j \in Indexes : q = <<b, d, j>>
    BY DEF FeedbackKeys
  <2>2. ~(b = a /\ d = c /\ j = i)
    BY <2>1
  <2>3. q[1] = b /\ q[2] = d /\ q[3] = j
    BY <2>1
  <2> QED
    BY <1>1, <2>2, <2>3 DEF At
<1> QED
  BY <1>1, <1>2 DEF At, new

\* What the contract keeps is stored well.
LEMMA WellStored ==
  ASSUME NEW fb, NEW rc, fb \in Storage(FeedbackData), rc \in Storage(0 .. MaxResponses),
         \A a \in Agents, c \in Addresses, i \in Indexes : fb[a][c][i].body \in Admissible \cup {None}
  PROVE  StoredWell(fb, rc)
<1> SUFFICES ASSUME NEW k \in FeedbackKeys
             PROVE  /\ At(fb, k) \in FeedbackData /\ At(fb, k).body \in Admissible \cup {None}
                    /\ At(rc, k) \in Nat
  BY DEF StoredWell
<1>1. PICK a \in Agents, c \in Addresses, i \in Indexes : k[1] = a /\ k[2] = c /\ k[3] = i
  BY DEF FeedbackKeys
<1>2. fb[a][c][i] \in FeedbackData /\ rc[a][c][i] \in Nat
  BY ReputationAssumption DEF Storage
<1>3. At(fb, k) = fb[a][c][i] /\ At(rc, k) = rc[a][c][i]
  BY <1>1 DEF At
<1> QED
  BY <1>2, <1>3

\* Only admissible feedback is stored.
BodiesAdmissible ==
    \A a \in Agents, c \in Addresses, i \in Indexes : feedback[a][c][i].body \in Admissible \cup {None}

\* give_feedback refuses the rest before it writes.
LEMMA AdmissibleBodies == Spec => []BodiesAdmissible
<1>1. Init => BodiesAdmissible
  BY DEF Init, BodiesAdmissible, NoFeedback
<1>2. ReputationInv /\ BodiesAdmissible /\ [Next]_vars => BodiesAdmissible'
  <2> SUFFICES ASSUME ReputationInv, BodiesAdmissible, [Next]_vars PROVE BodiesAdmissible'
    OBVIOUS
  <2> USE ReputationAssumption DEF ReputationInv, TypeOK, BodiesAdmissible
  <2>1. ASSUME NEW x \in Addresses, NEW a \in Agents, NEW b \in Bodies, GiveFeedback(x, a, b)
        PROVE  BodiesAdmissible'
    BY <2>1 DEF GiveFeedback, NextIndex
  <2>2. ASSUME NEW x \in Addresses, NEW a \in Agents, NEW i \in Indexes, RevokeFeedback(x, a, i)
        PROVE  BodiesAdmissible'
    BY <2>2 DEF RevokeFeedback, FeedbackData
  <2>3. ASSUME UNCHANGED feedback PROVE BodiesAdmissible'
    BY <2>3
  <2> QED
    BY <2>1, <2>2, <2>3 DEF Next, AppendResponse, IdentityMoves, storage, vars
<1> QED
  BY <1>1, <1>2, ReputationInvariant, PTL DEF Spec

\* What a step that changes feedback or responses leaves in the storage is in the tables.
TablesStep(T, after, e, k, f, n) ==
    /\ Written(T, e, f, ResponseId(k, n)) = after
    /\ \A h \in History(k, f, n) : Written(after, h[1], f, h[2]) = after

\* Every call takes the tables along.
LEMMA StepsTables ==
  ASSUME ReputationInv, BodiesAdmissible, ReputationInv', BodiesAdmissible', Next,
         <<feedback, response_count>>' # <<feedback, response_count>>
  PROVE  \E k \in FeedbackKeys :
            /\ published'.agent = k[1] /\ published'.client = k[2] /\ published'.index = k[3]
            /\ TablesStep(Tables, Tables', published', k, At(feedback', k), At(response_count', k))
<1> USE ReputationAssumption
<1>0. /\ feedback \in Storage(FeedbackData) /\ response_count \in Storage(0 .. MaxResponses)
      /\ feedback' \in Storage(FeedbackData) /\ response_count' \in Storage(0 .. MaxResponses)
  BY DEF Storage, ReputationInv, TypeOK
<1>1. StoredWell(feedback, response_count) /\ StoredWell(feedback', response_count')
  BY <1>0, WellStored DEF BodiesAdmissible
<1>2. ASSUME NEW k \in GivenIn(feedback'), NEW e, published' = EventOf(e, k),
             Written(TablesOf(feedback, response_count), EventOf(e, k), At(feedback', k),
                     ResponseId(k, At(response_count', k))) = TablesOf(feedback', response_count')
      PROVE  \E q \in FeedbackKeys :
            /\ published'.agent = q[1] /\ published'.client = q[2] /\ published'.index = q[3]
            /\ TablesStep(Tables, Tables', published', q, At(feedback', q), At(response_count', q))
  <2>1. \A h \in History(k, At(feedback', k), At(response_count', k)) :
           Written(TablesOf(feedback', response_count'), h[1], At(feedback', k), h[2])
              = TablesOf(feedback', response_count')
    BY <1>1, ReplayChangesNothing DEF TablesOf
  <2>2. TablesStep(Tables, Tables', published', k, At(feedback', k), At(response_count', k))
    BY <1>2, <2>1, TablesShowStorage DEF TablesStep
  <2>3. /\ k \in FeedbackKeys
        /\ published'.agent = k[1] /\ published'.client = k[2] /\ published'.index = k[3]
    BY <1>2 DEF GivenIn, EventOf
  <2> QED
    BY <2>2, <2>3
<1>3. ASSUME NEW x \in Addresses, NEW a \in Agents, NEW b \in Bodies, GiveFeedback(x, a, b)
      PROVE  \E k \in GivenIn(feedback') :
                /\ published' = EventOf("new_feedback", k)
                /\ Written(TablesOf(feedback, response_count), EventOf("new_feedback", k),
                           At(feedback', k), ResponseId(k, At(response_count', k)))
                      = TablesOf(feedback', response_count')
  <2> DEFINE i == NextIndex(a, x)
             k == <<a, x, i>>
             f == [body |-> b, is_revoked |-> FALSE]
  <2>1. /\ b \in Admissible /\ i \in Indexes /\ k \in FeedbackKeys
        /\ feedback' = Put(feedback, a, x, i, f)
        /\ UNCHANGED response_count /\ published' = EventOf("new_feedback", k)
    BY <1>3 DEF Put, GiveFeedback, NextIndex, Indexes, FeedbackKeys, EventOf, Publish,
                ReputationInv, TypeOK
  <2>2. ~HasFeedback(a, x, i)
    <3>1. ~(i <= last_index[a][x])
      BY DEF ReputationInv, TypeOK, NextIndex
    <3> QED
      BY <2>1, <3>1 DEF ReputationInv, FeedbackContiguous
  <2>3. k \notin GivenIn(feedback) /\ At(response_count, k) = 0
    <3>1. response_count[a][x][i] \in Nat /\ ~(response_count[a][x][i] > 0)
      BY <2>1, <2>2 DEF ReputationInv, TypeOK, ResponsesHaveFeedback
    <3> HIDE DEF i
    <3> QED
      BY <2>2, <3>1 DEF GivenIn, At, HasFeedback
  <2>4. f \in Stored /\ ~f.is_revoked
    BY <2>1 DEF Stored, FeedbackData
  <2>5. At(feedback', k) = f /\ \A q \in FeedbackKeys \ {k} : At(feedback', q) = At(feedback, q)
    BY <1>0, <2>1, AtChanged
  <2>6. k \in GivenIn(feedback')
    BY <2>1, <2>4, <2>5 DEF GivenIn, Stored
  <2> HIDE DEF f, k, i
  <2>7. Written(TablesOf(feedback, response_count), EventOf("new_feedback", k), f,
                ResponseId(k, At(response_count', k))) = TablesOf(feedback', response_count)
    BY <2>1, <2>3, <2>4, <2>5, GivenAddsRow
  <2> QED
    BY <2>1, <2>5, <2>6, <2>7
<1>4. ASSUME NEW x \in Addresses, NEW a \in Agents, NEW i \in Indexes, RevokeFeedback(x, a, i)
      PROVE  \E k \in GivenIn(feedback') :
                /\ published' = EventOf("feedback_revoked", k)
                /\ Written(TablesOf(feedback, response_count), EventOf("feedback_revoked", k),
                           At(feedback', k), ResponseId(k, At(response_count', k)))
                      = TablesOf(feedback', response_count')
  <2> DEFINE k == <<a, x, i>>
             f == RevokedData(At(feedback, k))
  <2>1. /\ k \in FeedbackKeys /\ k \in GivenIn(feedback)
        /\ feedback' = Put(feedback, a, x, i, f)
        /\ UNCHANGED response_count /\ published' = EventOf("feedback_revoked", k)
    BY <1>4 DEF Put, RevokeFeedback, FeedbackKeys, EventOf, Publish, GivenIn, At, HasFeedback,
                RevokedData, ReputationInv, TypeOK
  <2>2. At(feedback, k) \in FeedbackData
    BY <1>1, <2>1 DEF StoredWell
  <2>3. f.body = At(feedback, k).body
    BY <2>2 DEF FeedbackData, RevokedData
  <2>4. At(feedback', k) = f /\ \A q \in FeedbackKeys \ {k} : At(feedback', q) = At(feedback, q)
    BY <1>0, <2>1, AtChanged
  <2>5. k \in GivenIn(feedback')
    BY <2>1, <2>3, <2>4 DEF GivenIn
  <2>6. Written(TablesOf(feedback, response_count), EventOf("feedback_revoked", k), f,
                ResponseId(k, At(response_count', k))) = TablesOf(feedback', response_count)
    <3> HIDE DEF k
    <3> QED
      BY <1>1, <2>1, <2>4, RevokedMarksRow
  <2> HIDE DEF f, k
  <2> QED
    BY <2>1, <2>4, <2>5, <2>6
<1>5. ASSUME NEW x \in Addresses, NEW a \in Agents, NEW c \in Addresses, NEW i \in Indexes,
             NEW u \in Uris, AppendResponse(x, a, c, i, u)
      PROVE  \E k \in GivenIn(feedback') :
                /\ published' = EventOf("response_appended", k)
                /\ Written(TablesOf(feedback, response_count), EventOf("response_appended", k),
                           At(feedback', k), ResponseId(k, At(response_count', k)))
                      = TablesOf(feedback', response_count')
  <2> DEFINE k == <<a, c, i>>
             n == At(response_count, k) + 1
  <2>1. /\ k \in FeedbackKeys /\ k \in GivenIn(feedback)
        /\ response_count' = Put(response_count, a, c, i, n)
        /\ UNCHANGED feedback /\ published' = EventOf("response_appended", k)
    BY <1>5 DEF Put, AppendResponse, FeedbackKeys, EventOf, Publish, GivenIn, At, HasFeedback,
                ReputationInv, TypeOK
  <2>2. /\ At(response_count', k) = n
        /\ \A q \in FeedbackKeys \ {k} : At(response_count', q) = At(response_count, q)
    BY <1>0, <2>1, AtChanged
  <2>3. Written(TablesOf(feedback, response_count), EventOf("response_appended", k),
                At(feedback, k), ResponseId(k, n)) = TablesOf(feedback, response_count')
    <3> HIDE DEF k
    <3> QED
      BY <1>1, <2>1, <2>2, ResponseAddsRow
  <2> HIDE DEF n, k
  <2> QED
    BY <2>1, <2>2, <2>3
<1>6. ~IdentityMoves
  BY DEF IdentityMoves, storage
<1> QED
  BY <1>2, <1>3, <1>4, <1>5, <1>6 DEF Next

\* The tables of the indexer follow the contract's storage: each event, through
\* the parser and its statement, takes the tables from the storage before its call
\* to the storage after it, and the events of a feedback written again, by an
\* indexer that starts over, change nothing.
THEOREM TablesFollow == Spec => FeedbackTablesFollow
<1> DEFINE A == <<feedback, response_count>>' # <<feedback, response_count>> =>
           LET k == <<published'.agent, published'.client, published'.index>>
               f == feedback'[k[1]][k[2]][k[3]]
               n == response_count'[k[1]][k[2]][k[3]]
           IN \A after \in {Tables'} :
                 /\ Written(Tables, published', f, ResponseId(k, n)) = after
                 /\ \A h \in History(k, f, n) : Written(after, h[1], f, h[2]) = after
           I == ReputationInv /\ BodiesAdmissible
<1>1. ASSUME I, I', [Next]_vars PROVE [A]_vars
  <2>1. CASE UNCHANGED vars
    BY <2>1
  <2>2. CASE ~UNCHANGED vars /\ <<feedback, response_count>>' # <<feedback, response_count>>
    <3>1. PICK k \in FeedbackKeys :
            /\ published'.agent = k[1] /\ published'.client = k[2] /\ published'.index = k[3]
            /\ TablesStep(Tables, Tables', published', k, At(feedback', k), At(response_count', k))
      BY <1>1, <2>2, StepsTables
    <3>2. k = <<published'.agent, published'.client, published'.index>>
      BY <3>1 DEF FeedbackKeys
    <3> QED
      BY <3>1, <3>2 DEF TablesStep, At
  <2>3. CASE <<feedback, response_count>>' = <<feedback, response_count>>
    BY <2>3
  <2> QED
    BY <2>1, <2>2, <2>3
<1> QED
  BY <1>1, ReputationInvariant, AdmissibleBodies, PTL DEF Spec, FeedbackTablesFollow

-----------------------------------------------------------------------------
(* Induction, over sets: the provers take no predicate as a parameter *)

\* The least number principle, for a set of naturals: what is true of 0 and of
\* the successor is true of every natural.
LEMMA NatSetInduction ==
  ASSUME NEW S, 0 \in S, \A n \in Nat : n \in S => n + 1 \in S
  PROVE  Nat \subseteq S
<1> DEFINE T == Nat \ S
           R == OpToRel(<, Nat)
<1>1. SUFFICES ASSUME T # {} PROVE FALSE
  OBVIOUS
<1>2. IsWellFoundedOn(R, Nat)
  BY NatLessThanWellFounded
<1>3. PICK x \in T : \A y \in T : ~(<<y, x>> \in R)
  <2> HIDE DEF R
  <2> QED
    BY <1>1, <1>2, WFMin
<1>4. \A y \in Nat : y < x => <<y, x>> \in R
  BY DEF OpToRel
<1>5. \A y \in Nat : y < x => y \in S
  BY <1>3, <1>4
<1>6. x \in Nat /\ x \notin S
  OBVIOUS
<1> HIDE DEF T, R
<1>7. x - 1 \in Nat /\ x - 1 < x /\ x - 1 + 1 = x
  BY <1>6
<1> QED
  BY <1>5, <1>6, <1>7

\* Induction on the finite subsets of a set, by removing elements.
LEMMA SubsetInduction ==
  ASSUME NEW S, IsFiniteSet(S), NEW P,
         \A s \in SUBSET S : (\A x \in s : s \ {x} \in P) => s \in P
  PROVE  SUBSET S \subseteq P
<1> DEFINE H(n) == \A s \in SUBSET S : Cardinality(s) = n => s \in P
           N == {n \in Nat : H(n)}
<1>1. \A s \in SUBSET S : IsFiniteSet(s) /\ Cardinality(s) \in Nat
  BY FS_Subset, FS_CardinalityType
<1>2. H(0)
  BY <1>1, FS_EmptySet
<1>3. ASSUME NEW n \in Nat, H(n) PROVE H(n + 1)
  <2> SUFFICES ASSUME NEW s \in SUBSET S, Cardinality(s) = n + 1 PROVE s \in P
    OBVIOUS
  <2>1. ASSUME NEW x \in s PROVE s \ {x} \in P
    <3>1. Cardinality(s \ {x}) = Cardinality(s) - 1
      BY <1>1, FS_RemoveElement
    <3>2. Cardinality(s \ {x}) = n /\ s \ {x} \in SUBSET S
      BY <3>1
    <3> QED
      BY <3>2, <1>3
  <2> QED
    BY <2>1
<1> HIDE DEF H
<1>4. Nat \subseteq N
  <2>1. 0 \in N /\ \A n \in Nat : n \in N => n + 1 \in N
    BY <1>2, <1>3
  <2> HIDE DEF N
  <2> QED
    BY <2>1, NatSetInduction
<1>5. ASSUME NEW s \in SUBSET S PROVE H(Cardinality(s))
  BY <1>1, <1>4
<1> QED
  BY <1>5 DEF H

-----------------------------------------------------------------------------
(* Sums over a finite set *)

Picked(s) == CHOOSE x \in s : TRUE

\* The recursion of SumFunction, on the subsets of the domain.
FoldOf(g, I, s) == IF s = {} THEN 0 ELSE g[Picked(s)] + I[s \ {Picked(s)}]
IsSumFold(g, S, I) == I = [s \in SUBSET S |-> FoldOf(g, I, s)]
SumFold(g, S) == CHOOSE I : IsSumFold(g, S, I)
SumOver(g, s) == SumFold(g, DOMAIN g)[s]

\* What is summed, and a part of it.
Summable(g, S) == IsFiniteSet(S) /\ g \in [S -> Int]
Part(s, S) == s \in SUBSET S

\* The set without an element, and under the names p gives its elements.
Without(s, x) == s \ {x}
Renamed(p, s) == {p[x] : x \in s}

\* The community module's sum is that recursion.
LEMMA SumFunctionIsFold ==
  ASSUME NEW g PROVE SumFunction(g) = SumOver(g, DOMAIN g)
BY DEF SumFunction, SumFunctionOnSet, FoldFunctionOnSet, MapThenFoldSet, SumOver, SumFold,
       IsSumFold, FoldOf, Picked

\* The recursion has a solution.
LEMMA SumFoldExists ==
  ASSUME NEW S, IsFiniteSet(S), NEW g \in [S -> Int]
  PROVE  \E I \in [SUBSET S -> Int] : IsSumFold(g, S, I)
<1> DEFINE Upto(n) == {s \in SUBSET S : Cardinality(s) <= n}
           Q(n, I) == \A s \in Upto(n) : I[s] = FoldOf(g, I, s)
           H(n) == \E I \in [Upto(n) -> Int] : Q(n, I)
           N == {n \in Nat : H(n)}
<1>1. \A s \in SUBSET S : IsFiniteSet(s) /\ Cardinality(s) \in Nat
  BY FS_Subset, FS_CardinalityType
<1>2. \A s \in SUBSET S : s # {} => Picked(s) \in s
  BY DEF Picked
<1>3. H(0)
  <2> DEFINE I == [s \in Upto(0) |-> 0]
  <2>1. \A s \in Upto(0) : s = {}
    BY <1>1, FS_EmptySet
  <2>2. Q(0, I)
    BY <2>1 DEF FoldOf
  <2>3. I \in [Upto(0) -> Int]
    OBVIOUS
  <2> HIDE DEF I, Upto
  <2> QED
    BY <2>2, <2>3
<1>4. ASSUME NEW n \in Nat, H(n) PROVE H(n + 1)
  <2>1. PICK I \in [Upto(n) -> Int] : Q(n, I)
    BY <1>4
  <2> DEFINE J == [s \in Upto(n + 1) |-> FoldOf(g, I, s)]
  <2>2. ASSUME NEW s \in Upto(n + 1), s # {}
        PROVE  g[Picked(s)] \in Int /\ s \ {Picked(s)} \in Upto(n)
    <3>1. Picked(s) \in s /\ g[Picked(s)] \in Int
      BY <1>2, <2>2
    <3>2. Cardinality(s \ {Picked(s)}) = Cardinality(s) - 1
      BY <1>1, <3>1, FS_RemoveElement
    <3> QED
      BY <1>1, <3>1, <3>2
  <2>3. \A s \in Upto(n) : s \in Upto(n + 1)
    BY <1>1
  <2> HIDE DEF Upto
  <2>4. \A s \in Upto(n + 1) : FoldOf(g, I, s) \in Int
    BY <2>2 DEF FoldOf
  <2>5. \A s \in Upto(n) : J[s] = I[s]
    BY <2>1, <2>3
  <2>6. Q(n + 1, J)
    BY <2>2, <2>5 DEF FoldOf
  <2>7. J \in [Upto(n + 1) -> Int]
    BY <2>4
  <2> QED
    BY <2>6, <2>7
<1> HIDE DEF H
<1>5. Nat \subseteq N
  <2>1. 0 \in N /\ \A n \in Nat : n \in N => n + 1 \in N
    BY <1>3, <1>4
  <2> HIDE DEF N
  <2> QED
    BY <2>1, NatSetInduction
<1>6. Cardinality(S) \in Nat /\ Upto(Cardinality(S)) = SUBSET S
  BY <1>1, FS_Subset
<1>7. H(Cardinality(S))
  BY <1>5, <1>6
<1> HIDE DEF Upto
<1>8. PICK I \in [SUBSET S -> Int] : \A s \in SUBSET S : I[s] = FoldOf(g, I, s)
  BY <1>6, <1>7 DEF H
<1> QED
  BY <1>8 DEF IsSumFold

\* What the recursion says of a sum over a subset.
LEMMA SumOverUnfolds ==
  ASSUME NEW S, NEW g, NEW s, Summable(g, S), Part(s, S)
  PROVE  /\ SumOver(g, s) = IF s = {} THEN 0 ELSE g[Picked(s)] + SumOver(g, s \ {Picked(s)})
         /\ s # {} => Picked(s) \in s
<1> USE DEF Summable, Part
<1>1. IsSumFold(g, S, SumFold(g, S))
  BY SumFoldExists DEF SumFold
<1>2. DOMAIN g = S
  OBVIOUS
<1> QED
  BY <1>1, <1>2 DEF IsSumFold, FoldOf, SumOver, Picked

\* A sum is an integer.
LEMMA SumOverType ==
  ASSUME NEW S, NEW g, NEW s, Summable(g, S), Part(s, S)
  PROVE  SumOver(g, s) \in Int
<1> USE DEF Summable, Part
<1> DEFINE P == {t \in SUBSET S : SumOver(g, t) \in Int}
<1>1. ASSUME NEW t \in SUBSET S, \A x \in t : t \ {x} \in P PROVE t \in P
  <2>1. CASE t = {}
    <3>1. SumOver(g, t) = 0
      BY <2>1, SumOverUnfolds
    <3> QED
      BY <3>1
  <2>2. CASE t # {}
    <3>1. /\ SumOver(g, t) = g[Picked(t)] + SumOver(g, t \ {Picked(t)})
          /\ Picked(t) \in t /\ g[Picked(t)] \in Int
      BY <2>2, SumOverUnfolds
    <3> QED
      BY <1>1, <3>1
  <2> QED
    BY <2>1, <2>2
<1>2. SUBSET S \subseteq P
  <2> HIDE DEF P
  <2> QED BY <1>1, SubsetInduction
<1> QED
  BY <1>2

\* Any element can be the first: the sum does not depend on the order.
LEMMA SumOverTakesAny ==
  ASSUME NEW S, NEW g, NEW s, NEW x, Summable(g, S), Part(s, S), x \in s
  PROVE  SumOver(g, s) = g[x] + SumOver(g, Without(s, x))
<1> USE DEF Summable, Part
<1> DEFINE P == {t \in SUBSET S : \A y \in t : SumOver(g, t) = g[y] + SumOver(g, t \ {y})}
<1>1. ASSUME NEW t \in SUBSET S, \A y \in t : t \ {y} \in P PROVE t \in P
  <2> SUFFICES ASSUME NEW y \in t PROVE SumOver(g, t) = g[y] + SumOver(g, t \ {y})
    OBVIOUS
  <2> DEFINE z == Picked(t)
  <2>1. SumOver(g, t) = g[z] + SumOver(g, t \ {z}) /\ z \in t
    BY SumOverUnfolds
  <2> HIDE DEF z
  <2>2. CASE y = z
    BY <2>1, <2>2
  <2>3. CASE y # z
    <3>0. t \ {z} \in P /\ t \ {y} \in P /\ y \in t \ {z} /\ z \in t \ {y}
      BY <1>1, <2>1, <2>3
    <3>1. /\ SumOver(g, t \ {z}) = g[y] + SumOver(g, (t \ {z}) \ {y})
          /\ SumOver(g, t \ {y}) = g[z] + SumOver(g, (t \ {y}) \ {z})
      BY <3>0
    <3>2. (t \ {z}) \ {y} = (t \ {y}) \ {z}
      OBVIOUS
    <3>3. PICK r \in Int : r = SumOver(g, (t \ {z}) \ {y}) /\ r = SumOver(g, (t \ {y}) \ {z})
      BY <3>2, SumOverType
    <3>4. PICK i \in Int, j \in Int : i = g[y] /\ j = g[z]
      BY <2>1
    <3>5. SumOver(g, t) = j + (i + r) /\ SumOver(g, t \ {y}) = j + r
      BY <2>1, <3>1, <3>3, <3>4
    <3> HIDE DEF P
    <3>6. j + (i + r) = i + (j + r)
      OBVIOUS
    <3> QED
      BY <3>4, <3>5, <3>6
  <2> QED
    BY <2>2, <2>3
<1>2. SUBSET S \subseteq P
  <2> HIDE DEF P
  <2> QED BY <1>1, SubsetInduction
<1> QED
  BY <1>2 DEF Without

\* Summing over other names of the same things gives the same.
LEMMA SumOverRenamed ==
  ASSUME NEW S, NEW T, NEW g, NEW h, NEW p, NEW s, Summable(g, S), Summable(h, T), Part(s, S),
         p \in [S -> T],
         \A x, y \in S : p[x] = p[y] => x = y, \A x \in S : h[p[x]] = g[x]
  PROVE  SumOver(g, s) = SumOver(h, Renamed(p, s))
<1> USE DEF Summable, Part
<1> DEFINE P == {t \in SUBSET S : SumOver(g, t) = SumOver(h, {p[x] : x \in t})}
<1>1. ASSUME NEW t \in SUBSET S, \A y \in t : t \ {y} \in P PROVE t \in P
  <2>1. CASE t = {}
    <3>1. {p[x] : x \in t} = {}
      BY <2>1
    <3> QED
      BY <2>1, <3>1, SumOverUnfolds
  <2>2. CASE t # {}
    <3>1. PICK y \in t : TRUE
      BY <2>2
    <3>2. /\ {p[x] : x \in t} \in SUBSET T /\ p[y] \in {p[x] : x \in t}
          /\ {p[x] : x \in t} \ {p[y]} = {p[x] : x \in t \ {y}}
      OBVIOUS
    <3>3. SumOver(h, {p[x] : x \in t}) = h[p[y]] + SumOver(h, {p[x] : x \in t} \ {p[y]})
      BY <3>2, SumOverTakesAny DEF Without
    <3>4. SumOver(g, t) = g[y] + SumOver(g, t \ {y})
      BY SumOverTakesAny DEF Without
    <3>5. SumOver(g, t \ {y}) = SumOver(h, {p[x] : x \in t \ {y}})
      BY <1>1
    <3>6. h[p[y]] = g[y]
      OBVIOUS
    <3> QED
      BY <3>2, <3>3, <3>4, <3>5, <3>6
  <2> QED
    BY <2>1, <2>2
<1>2. SUBSET S \subseteq P
  <2> HIDE DEF P
  <2> QED BY <1>1, SubsetInduction
<1> QED
  BY <1>2 DEF Renamed

\* Summing multiples gives the multiple.
LEMMA SumOverScaled ==
  ASSUME NEW S, NEW g, NEW h, NEW k, NEW s, Summable(g, S), Summable(h, S),
         k \in Int, Part(s, S), \A x \in S : h[x] = g[x] * k
  PROVE  SumOver(h, s) = SumOver(g, s) * k
<1> USE DEF Summable, Part
<1> DEFINE P == {t \in SUBSET S : SumOver(h, t) = SumOver(g, t) * k}
<1>1. ASSUME NEW t \in SUBSET S, \A y \in t : t \ {y} \in P PROVE t \in P
  <2>1. CASE t = {}
    <3>1. SumOver(g, t) = 0 /\ SumOver(h, t) = 0
      BY <2>1, SumOverUnfolds
    <3> QED
      BY <3>1
  <2>2. CASE t # {}
    <3>1. PICK y \in t : TRUE
      BY <2>2
    <3>2. /\ SumOver(g, t) = g[y] + SumOver(g, t \ {y})
          /\ SumOver(h, t) = h[y] + SumOver(h, t \ {y})
      BY SumOverTakesAny DEF Without
    <3>3. SumOver(g, t \ {y}) \in Int /\ g[y] \in Int
      BY SumOverType
    <3>4. h[y] = g[y] * k /\ SumOver(h, t \ {y}) = SumOver(g, t \ {y}) * k
      BY <1>1
    <3> DEFINE u == g[y]
               v == SumOver(g, t \ {y})
    <3>5. \A i, j \in Int : i * k + j * k = (i + j) * k
      OBVIOUS
    <3> HIDE DEF u, v, P
    <3>6. SumOver(h, t) = (g[y] + SumOver(g, t \ {y})) * k
      BY <3>2, <3>3, <3>4, <3>5
    <3> QED
      BY <3>2, <3>6 DEF P
  <2> QED
    BY <2>1, <2>2
<1>2. SUBSET S \subseteq P
  <2> HIDE DEF P
  <2> QED BY <1>1, SubsetInduction
<1> QED
  BY <1>2

\* SumFunction of a restriction is the sum over that part.
LEMMA SumOfPart ==
  ASSUME NEW S, NEW g, NEW s, NEW h, Summable(g, S), Part(s, S), h = [x \in s |-> g[x]]
  PROVE  Summable(h, s) /\ SumFunction(h) = SumOver(g, s)
<1> DEFINE p == [x \in s |-> x]
<1>1. Summable(h, s)
  BY FS_Subset DEF Summable, Part
<1>2. DOMAIN h = s /\ Part(s, s)
  BY DEF Part
<1>3. /\ p \in [s -> S]
      /\ \A x, y \in s : p[x] = p[y] => x = y
      /\ \A x \in s : g[p[x]] = h[x]
  BY DEF Part
<1>4. Renamed(p, s) = s
  BY DEF Renamed
<1> HIDE DEF p
<1>5. SumOver(h, s) = SumOver(g, Renamed(p, s))
  BY <1>1, <1>2, <1>3, SumOverRenamed
<1>6. SumFunction(h) = SumOver(h, s)
  BY <1>2, SumFunctionIsFold
<1> QED
  BY <1>1, <1>4, <1>5, <1>6

\* A one-to-one correspondence keeps number and sum.
LEMMA SameTotal ==
  ASSUME NEW S, NEW T, NEW g, NEW h, NEW p, IsFiniteSet(T), h \in [T -> Int], p \in [S -> T],
         \A x, y \in S : p[x] = p[y] => x = y, \A z \in T : \E x \in S : p[x] = z,
         DOMAIN g = S, g = [x \in S |-> g[x]], \A x \in S : g[x] = h[p[x]]
  PROVE  /\ IsFiniteSet(S) /\ Cardinality(S) = Cardinality(T)
         /\ Summable(g, S) /\ SumFunction(g) = SumFunction(h)
<1>1. p \in Injection(S, T) /\ p \in Surjection(S, T)
  BY DEF Injection, Surjection, IsInjective
<1>2. IsFiniteSet(S) /\ Cardinality(S) = Cardinality(T)
  BY <1>1, FS_Injection
<1>3. \A x \in S : g[x] \in Int
  OBVIOUS
<1>4. Summable(g, S) /\ Summable(h, T) /\ Part(S, S)
  BY <1>2, <1>3 DEF Summable, Part
<1>5. Renamed(p, S) = T
  BY DEF Renamed
<1>6. SumOver(g, S) = SumOver(h, Renamed(p, S))
  BY <1>4, SumOverRenamed
<1>7. SumFunction(g) = SumOver(g, S) /\ SumFunction(h) = SumOver(h, T)
  BY SumFunctionIsFold
<1> QED
  BY <1>2, <1>4, <1>5, <1>6, <1>7

-----------------------------------------------------------------------------
(* Powers of ten *)

IsPow(f, n) == /\ f \in [0 .. n -> Nat \ {0}] /\ f[0] = 1
               /\ \A k \in 1 .. n : f[k] = 10 * f[k - 1]

\* A table of powers up to n, for every n; two of them agree.
LEMMA PowTables ==
  /\ \A n \in Nat : \E f : IsPow(f, n)
  /\ \A m, n \in Nat : \A f, g : IsPow(f, m) /\ IsPow(g, n) =>
        \A k \in Nat : k <= m /\ k <= n => f[k] = g[k]
<1>1. \A n \in Nat : \E f : IsPow(f, n)
  <2> DEFINE N == {n \in Nat : \E f : IsPow(f, n)}
  <2>1. 0 \in N
    <3>1. IsPow([k \in 0 .. 0 |-> 1], 0)
      BY DEF IsPow
    <3> QED
      BY <3>1
  <2>2. ASSUME NEW n \in Nat, n \in N PROVE n + 1 \in N
    <3>1. PICK f : IsPow(f, n)
      BY <2>2
    <3> DEFINE g == [k \in 0 .. n + 1 |-> IF k = n + 1 THEN 10 * f[n] ELSE f[k]]
    <3>2. \A k \in 0 .. n : f[k] \in Nat \ {0}
      BY <3>1 DEF IsPow
    <3>3. g \in [0 .. n + 1 -> Nat \ {0}]
      BY <3>2
    <3>4. \A k \in 1 .. n + 1 : g[k] = 10 * g[k - 1]
      BY <3>1 DEF IsPow
    <3>5. g[0] = 1
      BY <3>1 DEF IsPow
    <3>6. IsPow(g, n + 1)
      BY <3>3, <3>4, <3>5 DEF IsPow
    <3> QED
      BY <3>6
  <2>3. Nat \subseteq N
    <3> HIDE DEF N
    <3> QED
      BY <2>1, <2>2, NatSetInduction
  <2> QED
    BY <2>3
<1>2. ASSUME NEW m \in Nat, NEW n \in Nat, NEW f, NEW g, IsPow(f, m), IsPow(g, n)
      PROVE  \A k \in Nat : k <= m /\ k <= n => f[k] = g[k]
  <2> DEFINE N == {k \in Nat : k <= m /\ k <= n => f[k] = g[k]}
  <2>1. 0 \in N
    BY <1>2 DEF IsPow
  <2>2. ASSUME NEW k \in Nat, k \in N PROVE k + 1 \in N
    <3>1. ASSUME k + 1 <= m, k + 1 <= n PROVE f[k + 1] = g[k + 1]
      <4>1. f[k] = g[k] /\ k + 1 - 1 = k
        BY <2>2, <3>1
      <4> QED
        BY <1>2, <3>1, <4>1 DEF IsPow
    <3> QED
      BY <3>1
  <2>3. Nat \subseteq N
    <3> HIDE DEF N
    <3> QED
      BY <2>1, <2>2, NatSetInduction
  <2> QED
    BY <2>3
<1> QED
  BY <1>1, <1>2

\* Pow10 computes the powers of ten: all positive.
LEMMA Pow10Unfolds ==
  /\ Pow10(0) = 1
  /\ \A n \in Nat : Pow10(n) \in Nat \ {0} /\ Pow10(n + 1) = 10 * Pow10(n)
<1> DEFINE T(n) == CHOOSE f : IsPow(f, n)
           D(p) == [k \in Nat |-> IF k = 0 THEN 1 ELSE 10 * p[k - 1]]
           P == CHOOSE p : p = D(p)
           G == [n \in Nat |-> T(n)[n]]
<1>1. \A n \in Nat : IsPow(T(n), n)
  BY PowTables
<1>2. \A n \in Nat : G[n] \in Nat \ {0} /\ G[n + 1] = 10 * G[n]
  <2> SUFFICES ASSUME NEW n \in Nat PROVE G[n] \in Nat \ {0} /\ G[n + 1] = 10 * G[n]
    OBVIOUS
  <2>1. IsPow(T(n), n) /\ IsPow(T(n + 1), n + 1)
    BY <1>1
  <2> HIDE DEF T
  <2>2. T(n + 1)[n] = T(n)[n]
    BY <2>1, PowTables
  <2>3. T(n + 1)[n + 1] = 10 * T(n + 1)[n] /\ T(n)[n] \in Nat \ {0}
    <3>1. n + 1 - 1 = n /\ n + 1 \in 1 .. n + 1 /\ n \in 0 .. n
      OBVIOUS
    <3> QED
      BY <2>1, <3>1 DEF IsPow
  <2> QED
    BY <2>2, <2>3
<1>3. G[0] = 1
  BY <1>1 DEF IsPow
<1>4. G = D(G)
  <2> HIDE DEF G
  <2>1. ASSUME NEW k \in Nat PROVE G[k] = IF k = 0 THEN 1 ELSE 10 * G[k - 1]
    <3>1. CASE k = 0
      BY <3>1, <1>3
    <3>2. CASE k # 0
      <4>1. k - 1 \in Nat /\ k - 1 + 1 = k
        BY <3>2
      <4> QED
        BY <4>1, <3>2, <1>2
    <3> QED
      BY <3>1, <3>2
  <2>2. G = [k \in Nat |-> G[k]]
    BY DEF G
  <2> QED
    BY <2>1, <2>2
<1>5. P = D(P)
  <2> HIDE DEF G, D
  <2> QED
    BY <1>4
<1>6. \A k \in Nat : P[k] = IF k = 0 THEN 1 ELSE 10 * P[k - 1]
  <2> HIDE DEF P
  <2> QED
    BY <1>5
<1>7. \A n \in Nat : Pow10(n) = P[n]
  BY DEF Pow10
<1> HIDE DEF P, G, D, T
<1>8. ASSUME NEW n \in Nat PROVE P[n + 1] = 10 * P[n]
  <2>1. n + 1 - 1 = n /\ n + 1 # 0 /\ n + 1 \in Nat
    OBVIOUS
  <2> QED
    BY <2>1, <1>6
<1>9. P[0] = 1
  BY <1>6
<1>10. \A n \in Nat : P[n] \in Nat \ {0}
  <2> DEFINE N == {n \in Nat : P[n] \in Nat \ {0}}
  <2>1. 0 \in N
    BY <1>9
  <2>2. ASSUME NEW n \in Nat, n \in N PROVE n + 1 \in N
    BY <2>2, <1>8
  <2>3. Nat \subseteq N
    <3> HIDE DEF N
    <3> QED
      BY <2>1, <2>2, NatSetInduction
  <2> QED
    BY <2>3
<1> QED
  BY <1>7, <1>8, <1>9, <1>10

\* The power of a sum is the product of the powers.
LEMMA Pow10Adds ==
  ASSUME NEW m \in Nat, NEW n \in Nat
  PROVE  Pow10(m + n) = Pow10(m) * Pow10(n)
<1> DEFINE N == {k \in Nat : Pow10(m + k) = Pow10(m) * Pow10(k)}
<1>1. 0 \in N
  <2>1. m + 0 = m /\ Pow10(m) \in Nat
    BY Pow10Unfolds
  <2>2. Pow10(m) * Pow10(0) = Pow10(m)
    BY <2>1, Pow10Unfolds
  <2> QED
    BY <2>1, <2>2
<1>2. ASSUME NEW k \in Nat, k \in N PROVE k + 1 \in N
  <2>1. m + (k + 1) = (m + k) + 1 /\ m + k \in Nat
    OBVIOUS
  <2>2. PICK x \in Nat, y \in Nat, z \in Nat : x = Pow10(m) /\ y = Pow10(k) /\ z = Pow10(m + k)
    <3>1. Pow10(m) \in Nat /\ Pow10(k) \in Nat /\ Pow10(m + k) \in Nat
      BY <2>1, Pow10Unfolds
    <3> QED
      BY <3>1
  <2>3. Pow10(m + (k + 1)) = 10 * z /\ Pow10(k + 1) = 10 * y /\ z = x * y
    BY <2>1, <2>2, <1>2, Pow10Unfolds
  <2>4. 10 * (x * y) = x * (10 * y)
    OBVIOUS
  <2>5. Pow10(m + (k + 1)) = Pow10(m) * Pow10(k + 1)
    BY <2>2, <2>3, <2>4
  <2> QED
    BY <2>5
<1>3. Nat \subseteq N
  <2> HIDE DEF N
  <2> QED
    BY <1>1, <1>2, NatSetInduction
<1> QED
  BY <1>3

-----------------------------------------------------------------------------
(* Recursion on the numbers up to a bound, and the largest of them *)

\* A value made from the one before, m times.
Steps(st, m, X) == st \in [1 .. m -> [X -> X]]
Iterates(f, x0, st, m, X) ==
    f \in [0 .. m -> X] /\ f[0] = x0 /\ \A i \in 1 .. m : f[i] = st[i][f[i - 1]]

\* A recursion that makes a value from the one before, m times, has a solution.
LEMMA IterationExists ==
  ASSUME NEW X, NEW x0, NEW m, NEW st, x0 \in X, m \in Nat, Steps(st, m, X)
  PROVE  \E f : Iterates(f, x0, st, m, X)
<1> USE DEF Steps, Iterates
<1> DEFINE Solves(f, n) == /\ f \in [0 .. n -> X] /\ f[0] = x0
                           /\ \A i \in 1 .. n : f[i] = st[i][f[i - 1]]
           H(n) == n <= m => \E f : Solves(f, n)
           M == {n \in Nat : H(n)}
<1>1. H(0)
  <2>1. Solves([i \in 0 .. 0 |-> x0], 0)
    OBVIOUS
  <2> QED
    BY <2>1
<1>2. ASSUME NEW n \in Nat, H(n) PROVE H(n + 1)
  <2> SUFFICES ASSUME n + 1 <= m PROVE \E f : Solves(f, n + 1)
    OBVIOUS
  <2>1. PICK f : Solves(f, n)
    BY <1>2
  <2> DEFINE g == [i \in 0 .. n + 1 |-> IF i = n + 1 THEN st[n + 1][f[n]] ELSE f[i]]
  <2>2. f[n] \in X /\ st[n + 1][f[n]] \in X
    <3>1. f[n] \in X /\ n + 1 \in 1 .. m
      BY <2>1
    <3>2. st[n + 1] \in [X -> X]
      BY <3>1
    <3> QED
      BY <3>1, <3>2
  <2>3. /\ DOMAIN g = 0 .. n + 1 /\ g[n + 1] = st[n + 1][f[n]]
        /\ \A i \in 0 .. n : g[i] = f[i]
    OBVIOUS
  <2>4. g \in [0 .. n + 1 -> X]
    BY <2>1, <2>2
  <2> HIDE DEF g
  <2>5. g[0] = x0
    BY <2>1, <2>3
  <2>6. ASSUME NEW i \in 1 .. n + 1 PROVE g[i] = st[i][g[i - 1]]
    <3>1. CASE i = n + 1
      <4>1. i - 1 = n /\ n \in 0 .. n
        BY <3>1
      <4> QED
        BY <3>1, <4>1, <2>3
    <3>2. CASE i # n + 1
      <4>1. i \in 1 .. n /\ i - 1 \in 0 .. n /\ i \in 0 .. n
        BY <3>2
      <4> QED
        BY <4>1, <2>1, <2>3
    <3> QED
      BY <3>1, <3>2
  <2>7. Solves(g, n + 1)
    BY <2>4, <2>5, <2>6
  <2> QED
    BY <2>7
<1>3. Nat \subseteq M
  <2> HIDE DEF H
  <2>1. 0 \in M /\ \A n \in Nat : n \in M => n + 1 \in M
    BY <1>1, <1>2
  <2> HIDE DEF M
  <2> QED
    BY <2>1, NatSetInduction
<1>4. H(m)
  <2> HIDE DEF H
  <2> QED
    BY <1>3
<1> QED
  BY <1>4

\* Some number of decimals is the most frequent, and the lowest of those.
LEMMA BestExists ==
  ASSUME NEW N \in Nat, NEW f \in [0 .. N -> Nat]
  PROVE  \E d \in 0 .. N : \A e \in 0 .. N : f[e] < f[d] \/ (f[e] = f[d] /\ d <= e)
<1> DEFINE Best(n, d) == \A e \in 0 .. n : f[e] < f[d] \/ (f[e] = f[d] /\ d <= e)
           H(n) == n <= N => \E d \in 0 .. n : Best(n, d)
           M == {n \in Nat : H(n)}
<1>1. H(0)
  OBVIOUS
<1>2. ASSUME NEW n \in Nat, H(n) PROVE H(n + 1)
  <2> SUFFICES ASSUME n + 1 <= N PROVE \E d \in 0 .. n + 1 : Best(n + 1, d)
    OBVIOUS
  <2>1. PICK d \in 0 .. n : Best(n, d)
    BY <1>2
  <2>2. f[d] \in Nat /\ f[n + 1] \in Nat /\ \A e \in 0 .. n + 1 : f[e] \in Nat
    OBVIOUS
  <2>3. CASE f[n + 1] > f[d]
    <3>1. Best(n + 1, n + 1)
      BY <2>1, <2>2, <2>3
    <3> QED
      BY <3>1
  <2>4. CASE ~(f[n + 1] > f[d])
    <3>1. Best(n + 1, d)
      BY <2>1, <2>2, <2>4
    <3> QED
      BY <3>1
  <2> QED
    BY <2>3, <2>4
<1> HIDE DEF H
<1>3. 0 \in M /\ \A n \in Nat : n \in M => n + 1 \in M
  BY <1>1, <1>2
<1>4. Nat \subseteq M
  <2> HIDE DEF M
  <2> QED
    BY <1>3, NatSetInduction
<1>5. H(N)
  BY <1>4
<1> QED
  BY <1>5 DEF H

\* A set of numbers up to N has a largest.
LEMMA MaxBounded ==
  ASSUME NEW N \in Nat, NEW D, D \subseteq 0 .. N, D # {}
  PROVE  Max(D) \in D /\ \A y \in D : y <= Max(D)
<1> DEFINE f == [d \in 0 .. N |-> IF d \in D THEN d + 1 ELSE 0]
<1>1. f \in [0 .. N -> Nat]
  OBVIOUS
<1>2. \A d \in 0 .. N : f[d] = IF d \in D THEN d + 1 ELSE 0
  OBVIOUS
<1> HIDE DEF f
<1>3. PICK d \in 0 .. N : \A e \in 0 .. N : f[e] < f[d] \/ (f[e] = f[d] /\ d <= e)
  BY <1>1, BestExists
<1>4. PICK z \in D : TRUE
  OBVIOUS
<1>5. d \in D
  BY <1>2, <1>3, <1>4
<1>6. \A y \in D : d >= y
  <2> SUFFICES ASSUME NEW y \in D PROVE d >= y
    OBVIOUS
  <2>1. f[y] = y + 1 /\ f[d] = d + 1 /\ y \in 0 .. N
    BY <1>2, <1>5
  <2> QED
    BY <1>3, <2>1
<1>7. \E x \in D : \A y \in D : x >= y
  BY <1>5, <1>6
<1>8. Max(D) \in D /\ \A y \in D : Max(D) >= y
  BY <1>7 DEF Max
<1> QED
  BY <1>8

-----------------------------------------------------------------------------
(* Lists of the elements of a set *)

\* The list q has the value b of every element of E, each once, in the order p.
Lists(q, E, b, p) ==
    /\ p \in [1 .. Len(q) -> E]
    /\ \A i, j \in 1 .. Len(q) : p[i] = p[j] => i = j
    /\ \A x \in E : \E i \in 1 .. Len(q) : p[i] = x
    /\ \A i \in 1 .. Len(q) : q[i] = b[p[i]]
Listed(q, E, b) == \E p : Lists(q, E, b, p)

\* The empty list lists the empty set.
LEMMA ListedEmpty == ASSUME NEW b PROVE Listed(<<>>, {}, b)
<1>1. Lists(<<>>, {}, b, [i \in 1 .. 0 |-> 0])
  BY DEF Lists
<1> QED
  BY <1>1 DEF Listed

\* One after the other, lists of disjoint sets list both.
LEMMA ListedConcat ==
  ASSUME NEW B, NEW q \in Seq(B), NEW r \in Seq(B), NEW E, NEW F, NEW b,
         Listed(q, E, b), Listed(r, F, b), E \cap F = {}
  PROVE  Listed(q \o r, E \cup F, b)
<1>1. PICK p : Lists(q, E, b, p)
  BY DEF Listed
<1>2. PICK s : Lists(r, F, b, s)
  BY DEF Listed
<1> DEFINE m == Len(q)
           n == Len(r)
           t == [i \in 1 .. m + n |-> IF i <= m THEN p[i] ELSE s[i - m]]
<1>3. m \in Nat /\ n \in Nat /\ Len(q \o r) = m + n
  OBVIOUS
<1>4. \A i \in 1 .. m : (q \o r)[i] = q[i]
  OBVIOUS
<1>5. \A i \in 1 .. m + n : i > m => (q \o r)[i] = r[i - m]
  OBVIOUS
<1>6. /\ \A i \in 1 .. m : p[i] \in E /\ q[i] = b[p[i]]
      /\ \A i, j \in 1 .. m : p[i] = p[j] => i = j
      /\ \A x \in E : \E i \in 1 .. m : p[i] = x
  BY <1>1 DEF Lists
<1>7. /\ \A i \in 1 .. n : s[i] \in F /\ r[i] = b[s[i]]
      /\ \A i, j \in 1 .. n : s[i] = s[j] => i = j
      /\ \A x \in F : \E i \in 1 .. n : s[i] = x
  BY <1>2 DEF Lists
<1> HIDE DEF m, n
<1>8. /\ \A i \in 1 .. m : t[i] = p[i] /\ t[i] \in E
      /\ \A i \in 1 .. m + n : i > m => t[i] = s[i - m] /\ i - m \in 1 .. n /\ t[i] \in F
  <2>1. ASSUME NEW i \in 1 .. m PROVE t[i] = p[i] /\ t[i] \in E
    BY <1>3, <1>6
  <2>2. ASSUME NEW i \in 1 .. m + n, i > m PROVE t[i] = s[i - m] /\ i - m \in 1 .. n /\ t[i] \in F
    <3>1. t[i] = s[i - m] /\ i - m \in 1 .. n
      BY <1>3, <2>2
    <3> QED
      BY <1>7, <3>1
  <2> QED
    BY <2>1, <2>2
<1>9. t \in [1 .. m + n -> E \cup F]
  <2>1. ASSUME NEW i \in 1 .. m + n PROVE t[i] \in E \cup F
    <3>1. CASE i <= m
      <4>1. i \in 1 .. m
        BY <3>1, <1>3
      <4> HIDE DEF t
      <4> QED
        BY <4>1, <1>8
    <3>2. CASE i > m
      <4> HIDE DEF t
      <4> QED
        BY <3>2, <1>8
    <3> QED
      BY <3>1, <3>2, <1>3
  <2>2. t = [i \in 1 .. m + n |-> t[i]]
    OBVIOUS
  <2> HIDE DEF t
  <2> QED
    BY <2>1, <2>2
<1> HIDE DEF t
<1>10. ASSUME NEW i \in 1 .. m + n, NEW j \in 1 .. m + n, t[i] = t[j] PROVE i = j
  <2>1. CASE i <= m /\ j <= m
    BY <2>1, <1>10, <1>3, <1>6, <1>8
  <2>2. CASE i > m /\ j > m
    <3>1. s[i - m] = s[j - m] /\ i - m \in 1 .. n /\ j - m \in 1 .. n
      BY <2>2, <1>10, <1>8
    <3>2. i - m = j - m
      BY <3>1, <1>7
    <3> QED
      BY <3>2, <1>3
  <2>3. ~(i <= m /\ j > m) /\ ~(i > m /\ j <= m)
    BY <1>3, <1>8, <1>10
  <2> QED
    BY <2>1, <2>2, <2>3, <1>3
<1>11. ASSUME NEW x \in E \cup F PROVE \E i \in 1 .. m + n : t[i] = x
  <2>1. CASE x \in E
    BY <2>1, <1>3, <1>6, <1>8
  <2>2. CASE x \in F
    <3>1. PICK j \in 1 .. n : s[j] = x
      BY <2>2, <1>7
    <3>2. PICK k \in 1 .. m + n : k > m /\ k - m = j
      <4>1. j + m \in 1 .. m + n /\ j + m > m /\ (j + m) - m = j
        BY <1>3
      <4> QED
        BY <4>1
    <3> QED
      BY <1>8, <3>1, <3>2
  <2> QED
    BY <2>1, <2>2
<1>12. ASSUME NEW i \in 1 .. m + n PROVE (q \o r)[i] = b[t[i]]
  <2>1. CASE i <= m
    BY <2>1, <1>3, <1>4, <1>6, <1>8
  <2>2. CASE i > m
    BY <2>2, <1>5, <1>7, <1>8 DEF n, m
  <2> QED
    BY <2>1, <2>2, <1>3
<1>13. Lists(q \o r, E \cup F, b, t)
  BY <1>3, <1>9, <1>10, <1>11, <1>12 DEF Lists
<1> QED
  BY <1>13 DEF Listed

\* A list with one more at its end lists the set with one more.
LEMMA ListedAppend ==
  ASSUME NEW B, NEW q \in Seq(B), NEW E, NEW b, NEW x, Listed(q, E, b), x \notin E, b[x] \in B
  PROVE  Listed(Append(q, b[x]), E \cup {x}, b)
<1>1. Lists(<<b[x]>>, {x}, b, [i \in 1 .. 1 |-> x])
  BY DEF Lists
<1>2. Listed(<<b[x]>>, {x}, b) /\ <<b[x]>> \in Seq(B)
  BY <1>1 DEF Listed
<1>3. Listed(q \o <<b[x]>>, E \cup {x}, b)
  BY <1>2, ListedConcat
<1>4. Append(q, b[x]) = q \o <<b[x]>>
  BY AppendIsConcat
<1> QED
  BY <1>3, <1>4

\* A list is as long as its set is large.
LEMMA ListedSize ==
  ASSUME NEW B, NEW q \in Seq(B), NEW E, NEW b, Listed(q, E, b)
  PROVE  IsFiniteSet(E) /\ Cardinality(E) = Len(q)
<1>1. PICK p : Lists(q, E, b, p)
  BY DEF Listed
<1>2. p \in Bijection(1 .. Len(q), E)
  BY <1>1 DEF Lists, Bijection, Injection, Surjection, IsInjective
<1>3. ExistsBijection(1 .. Len(q), E)
  BY <1>2 DEF ExistsBijection
<1>4. Len(q) \in Nat /\ IsFiniteSet(1 .. Len(q)) /\ Cardinality(1 .. Len(q)) = Len(q)
  <2>1. Len(q) \in Nat
    OBVIOUS
  <2>2. IsFiniteSet(1 .. Len(q)) /\ Cardinality(1 .. Len(q)) = IF 1 > Len(q) THEN 0 ELSE Len(q) - 1 + 1
    BY <2>1, FS_Interval
  <2> QED
    BY <2>1, <2>2
<1> QED
  BY <1>3, <1>4, FS_Bijection

\* An admissible value scaled to WAD is an integer.
LEMMA NormalizedType == ASSUME NEW b \in Admissible PROVE Normalized(b) \in Int
<1>1. ValueOf[b] \in Int /\ WAD - DecimalsOf[b] \in Nat
  BY ReputationAssumption, SummaryAssumption
<1>2. Pow10(WAD - DecimalsOf[b]) \in Nat
  BY <1>1, Pow10Unfolds
<1> QED
  BY <1>1, <1>2 DEF Normalized

Terms(q) == [n \in 1 .. Len(q) |-> Normalized(q[n])]

\* The running sums of a list are sums of its first terms.
LEMMA SumWadRuns ==
  ASSUME NEW q \in Seq(Admissible), NEW n \in 0 .. Len(q)
  PROVE  /\ Summable(Terms(q), 1 .. Len(q))
         /\ SumWad(q)[n] = SumOver(Terms(q), 1 .. n)
<1> DEFINE N == Len(q)
           v == Terms(q)
           D(f) == [k \in 0 .. N |-> IF k = 0 THEN 0 ELSE f[k - 1] + Normalized(q[k])]
           S == CHOOSE f : f = D(f)
           G == [k \in 0 .. N |-> SumOver(v, 1 .. k)]
<1>1. N \in Nat /\ \A k \in 1 .. N : q[k] \in Admissible /\ Normalized(q[k]) \in Int
  BY NormalizedType
<1>2. v \in [1 .. N -> Int] /\ \A k \in 1 .. N : v[k] = Normalized(q[k])
  BY <1>1 DEF Terms
<1>3. IsFiniteSet(1 .. N)
  BY <1>1, FS_Interval
<1>4. SumWad(q) = S
  BY DEF SumWad
<1> HIDE DEF N, v
<1>5. SumOver(v, 1 .. 0) = 0
  <2>1. SumOver(v, {}) = 0
    BY <1>2, <1>3, SumOverUnfolds DEF Summable, Part
  <2>2. 1 .. 0 = {}
    OBVIOUS
  <2> QED
    BY <2>1, <2>2
<1>6. ASSUME NEW k \in 1 .. N
      PROVE  SumOver(v, 1 .. k) = SumOver(v, 1 .. k - 1) + Normalized(q[k])
  <2>0. k \in Nat /\ k >= 1 /\ k <= N
    BY <1>1
  <2>1. 1 .. k \in SUBSET (1 .. N) /\ k \in 1 .. k
    BY <1>1, <2>0
  <2>2. SumOver(v, 1 .. k) = v[k] + SumOver(v, 1 .. k - 1)
    <3>1. SumOver(v, 1 .. k) = v[k] + SumOver(v, Without(1 .. k, k))
      <4>1. Part(1 .. k, 1 .. N) /\ Summable(v, 1 .. N)
        BY <2>1, <1>2, <1>3 DEF Part, Summable
      <4> QED
        BY <2>1, <4>1, SumOverTakesAny
    <3>2. \A i \in Int : i \in (1 .. k) \ {k} <=> i \in 1 .. k - 1
      BY <2>0
    <3>3. Without(1 .. k, k) = 1 .. k - 1
      BY <2>0, <3>2 DEF Without
    <3> QED
      BY <3>1, <3>3
  <2>3. SumOver(v, 1 .. k - 1) \in Int
    <3>1. 1 .. k - 1 \in SUBSET (1 .. N)
      BY <1>1
    <3> QED
      BY <3>1, <1>2, <1>3, SumOverType DEF Summable, Part
  <2>4. SumOver(v, 1 .. k) = Normalized(q[k]) + SumOver(v, 1 .. k - 1)
    BY <2>2, <1>2
  <2> QED
    BY <2>3, <2>4, <1>1
<1>7. G = D(G)
  <2>1. \A k \in 0 .. N : G[k] = SumOver(v, 1 .. k)
    OBVIOUS
  <2>2. G = [k \in 0 .. N |-> G[k]]
    OBVIOUS
  <2> HIDE DEF G
  <2>3. ASSUME NEW k \in 0 .. N PROVE G[k] = IF k = 0 THEN 0 ELSE G[k - 1] + Normalized(q[k])
    <3>1. CASE k = 0
      BY <3>1, <2>1, <1>5
    <3>2. CASE k # 0
      <4>1. k \in 1 .. N /\ k - 1 \in 0 .. N
        BY <3>2, <1>1
      <4> QED
        BY <3>2, <4>1, <2>1, <1>6
    <3> QED
      BY <3>1, <3>2
  <2> QED
    BY <2>2, <2>3
<1>8. S = D(S)
  <2> HIDE DEF G, D
  <2> QED
    BY <1>7
<1>9. \A k \in 0 .. N : S[k] = IF k = 0 THEN 0 ELSE S[k - 1] + Normalized(q[k])
  <2> HIDE DEF S
  <2> QED
    BY <1>8
<1> HIDE DEF S, G, D
<1>10. \A k \in Nat : k \in 0 .. N => S[k] = SumOver(v, 1 .. k)
  <2> DEFINE H(k) == k \in 0 .. N => S[k] = SumOver(v, 1 .. k)
             M == {k \in Nat : H(k)}
  <2>1. H(0)
    BY <1>5, <1>9
  <2>2. ASSUME NEW k \in Nat, H(k) PROVE H(k + 1)
    <3> SUFFICES ASSUME k + 1 \in 0 .. N PROVE S[k + 1] = SumOver(v, 1 .. k + 1)
      OBVIOUS
    <3>1. k \in 0 .. N /\ k + 1 \in 1 .. N /\ (k + 1) - 1 = k /\ k + 1 # 0
      BY <1>1
    <3>2. S[k + 1] = S[k] + Normalized(q[k + 1])
      BY <3>1, <1>9
    <3>3. SumOver(v, 1 .. k + 1) = SumOver(v, 1 .. k) + Normalized(q[k + 1])
      BY <3>1, <1>6
    <3> QED
      BY <2>2, <3>1, <3>2, <3>3
  <2> HIDE DEF H
  <2>3. 0 \in M /\ \A k \in Nat : k \in M => k + 1 \in M
    BY <2>1, <2>2
  <2>4. Nat \subseteq M
    <3> HIDE DEF M
    <3> QED
      BY <2>3, NatSetInduction
  <2> QED
    BY <2>4 DEF H
<1>11. n \in Nat /\ n \in 0 .. N
  BY <1>1 DEF N
<1> QED
  BY <1>2, <1>3, <1>4, <1>10, <1>11 DEF N, v, Summable

\* The running sums of a list are sums over parts of its set, the last one over all.
LEMMA ListedSums ==
  ASSUME NEW q \in Seq(Admissible), NEW E, NEW b, Listed(q, E, b),
         NEW w \in [E -> Int], \A x \in E : w[x] = Normalized(b[x])
  PROVE  /\ SumWad(q)[Len(q)] = SumOver(w, E)
         /\ \A n \in 1 .. Len(q) : \E part \in SUBSET E : SumWad(q)[n] = SumOver(w, part)
         /\ \A n \in 1 .. Len(q) : \E x \in E : Normalized(q[n]) = w[x]
<1>1. PICK p : Lists(q, E, b, p)
  BY DEF Listed
<1> DEFINE N == Len(q)
           v == Terms(q)
           Image(s) == {p[i] : i \in s}
<1>2. N \in Nat /\ IsFiniteSet(E)
  BY ListedSize
<1>3. ASSUME NEW n \in 0 .. N PROVE SumWad(q)[n] = SumOver(v, 1 .. n)
  BY SumWadRuns
<1>4. Summable(v, 1 .. N)
  <2>1. 0 \in 0 .. N
    BY <1>2
  <2> QED
    BY <2>1, SumWadRuns
<1>5. /\ p \in [1 .. N -> E]
      /\ \A i, j \in 1 .. N : p[i] = p[j] => i = j
      /\ \A x \in E : \E i \in 1 .. N : p[i] = x
      /\ \A i \in 1 .. N : q[i] = b[p[i]]
  BY <1>1 DEF Lists
<1>6. \A i \in 1 .. N : v[i] = Normalized(q[i]) /\ w[p[i]] = v[i]
  BY <1>5 DEF Terms
<1> HIDE DEF v, N
<1>7. ASSUME NEW n \in 0 .. N
      PROVE  SumWad(q)[n] = SumOver(w, Image(1 .. n)) /\ Image(1 .. n) \in SUBSET E
  <2>1. 1 .. n \in SUBSET (1 .. N)
    BY <1>2
  <2>2. SumOver(v, 1 .. n) = SumOver(w, {p[i] : i \in 1 .. n})
    <3> DEFINE D == 1 .. N
    <3>1. /\ p \in [D -> E] /\ Summable(v, D) /\ Summable(w, E) /\ Part(1 .. n, D)
          /\ \A i, j \in D : p[i] = p[j] => i = j
          /\ \A i \in D : w[p[i]] = v[i]
      BY <2>1, <1>2, <1>4, <1>5, <1>6 DEF Summable, Part
    <3> HIDE DEF D
    <3>2. SumOver(v, 1 .. n) = SumOver(w, Renamed(p, 1 .. n))
      BY <3>1, SumOverRenamed
    <3> QED
      BY <3>2 DEF Renamed
  <2>3. {p[i] : i \in 1 .. n} \in SUBSET E
    BY <2>1, <1>5
  <2> QED
    BY <2>2, <2>3, <1>3
<1>8. Image(1 .. N) = E
  BY <1>5
<1>9. N \in 0 .. N /\ \A n \in 1 .. N : n \in 0 .. N
  BY <1>2
<1> HIDE DEF Image
<1> QED
  BY <1>5, <1>6, <1>7, <1>8, <1>9 DEF N

\* The part of a set of pairs at the place n, and up to it.
PairsAt(E, n) == {e \in E : e[1] = n}
PairsUpto(E, n) == {e \in E : e[1] \in 1 .. n}

\* Lists of the pairs at each place, one after the other, list the pairs.
LEMMA FlattenListed ==
  ASSUME NEW B, NEW seqs, NEW E, NEW Y, NEW b, seqs \in Seq(Seq(B)), E \subseteq (1 .. Len(seqs)) \X Y,
         \A n \in 1 .. Len(seqs) : Listed(seqs[n], PairsAt(E, n), b)
  PROVE  FlattenSeq(seqs) \in Seq(B) /\ Listed(FlattenSeq(seqs), E, b)
<1> DEFINE m == Len(seqs)
           X == Seq(B)
           D(f) == [i \in 1 .. m |-> IF i = 1 THEN seqs[i] ELSE f[i - 1] \o seqs[i]]
           L == CHOOSE f : f = D(f)
           st == [i \in 1 .. m |-> [s \in X |-> s \o seqs[i]]]
<1>0. m \in Nat /\ \A i \in 1 .. m : seqs[i] \in X
  OBVIOUS
<1>1. CASE m = 0
  <2>1. seqs = <<>> /\ E = {} /\ FlattenSeq(seqs) = seqs
    <3>1. seqs = <<>> /\ 1 .. m = {}
      BY <1>1
    <3>2. E = {}
      BY <3>1
    <3> QED
      BY <1>1, <3>1, <3>2 DEF FlattenSeq
  <2>2. Listed(<<>>, {}, b)
    BY ListedEmpty
  <2>3. <<>> \in Seq(B)
    OBVIOUS
  <2> QED
    BY <2>1, <2>2, <2>3
<1>2. CASE m # 0
  <2>1. FlattenSeq(seqs) = L[m]
    BY <1>2 DEF FlattenSeq
  <2>2. st \in [1 .. m -> [X -> X]]
    BY <1>0
  <2>3. \A i \in 1 .. m : \A s \in X : st[i][s] = s \o seqs[i]
    OBVIOUS
  <2> HIDE DEF st, m, X
  <2>4. PICK f : f \in [0 .. m -> X] /\ f[0] = <<>> /\ \A i \in 1 .. m : f[i] = st[i][f[i - 1]]
    <3>1. <<>> \in X /\ Steps(st, m, X)
      BY <2>2 DEF Steps, X
    <3>2. \E f : Iterates(f, <<>>, st, m, X)
      BY <1>0, <3>1, IterationExists
    <3> QED
      BY <3>2 DEF Iterates
  <2>5. ASSUME NEW i \in 1 .. m PROVE f[i] = f[i - 1] \o seqs[i] /\ f[i - 1] \in X
    <3>1. i - 1 \in 0 .. m
      BY <1>0
    <3> QED
      BY <2>3, <2>4, <3>1
  <2> DEFINE g == [i \in 1 .. m |-> f[i]]
  <2>6. g = D(g)
    <3>1. ASSUME NEW i \in 1 .. m PROVE g[i] = IF i = 1 THEN seqs[i] ELSE g[i - 1] \o seqs[i]
      <4>1. CASE i = 1
        <5>0. 1 - 1 = 0 /\ 1 \in 1 .. m /\ f[0] = <<>>
          BY <4>1, <2>4
        <5>1. f[1] = <<>> \o seqs[1]
          BY <5>0, <2>5
        <5>2. seqs[1] \in Seq(B)
          BY <4>1, <1>0 DEF X
        <5>3. <<>> \o seqs[1] = seqs[1]
          BY <5>2
        <5> QED
          BY <4>1, <5>1, <5>3
      <4>2. CASE i # 1
        <5>1. i - 1 \in 1 .. m
          BY <4>2, <1>0
        <5> QED
          BY <4>2, <5>1, <2>5
      <4> QED
        BY <4>1, <4>2
    <3> QED
      BY <3>1
  <2>7. L = D(L)
    <3> HIDE DEF D, g
    <3> QED
      BY <2>6
  <2> HIDE DEF L
  <2>8. \A i \in 1 .. m : L[i] = IF i = 1 THEN seqs[i] ELSE L[i - 1] \o seqs[i]
    BY <2>7
  <2> HIDE DEF D
  <2> DEFINE H(i) == i \in 1 .. m => L[i] \in X /\ Listed(L[i], PairsUpto(E, i), b)
             M == {i \in Nat : H(i)}
  <2>9. H(0)
    OBVIOUS
  <2>10. ASSUME NEW i \in Nat, H(i) PROVE H(i + 1)
    <3> SUFFICES ASSUME i + 1 \in 1 .. m
                 PROVE L[i + 1] \in X /\ Listed(L[i + 1], PairsUpto(E, i + 1), b)
      OBVIOUS
    <3>0. Listed(seqs[i + 1], PairsAt(E, i + 1), b) /\ seqs[i + 1] \in X
      BY <1>0 DEF m
    <3>1. CASE i = 0
      <4>1. PairsUpto(E, i + 1) = PairsAt(E, i + 1)
        BY <3>1 DEF PairsUpto, PairsAt
      <4>2. L[i + 1] = seqs[i + 1]
        BY <3>1, <2>8
      <4> QED
        BY <3>0, <4>1, <4>2
    <3>2. CASE i # 0
      <4>1. i \in 1 .. m /\ (i + 1) - 1 = i /\ i + 1 # 1
        BY <3>2, <1>0
      <4>2. L[i + 1] = L[i] \o seqs[i + 1]
        BY <4>1, <2>8
      <4>3. L[i] \in X /\ Listed(L[i], PairsUpto(E, i), b)
        BY <4>1, <2>10
      <4>4. /\ PairsUpto(E, i + 1) = PairsUpto(E, i) \cup PairsAt(E, i + 1)
            /\ PairsUpto(E, i) \cap PairsAt(E, i + 1) = {}
        BY DEF PairsUpto, PairsAt
      <4>5. Listed(L[i] \o seqs[i + 1], PairsUpto(E, i) \cup PairsAt(E, i + 1), b)
        BY <3>0, <4>3, <4>4, ListedConcat DEF X
      <4>6. L[i] \o seqs[i + 1] \in X
        BY <3>0, <4>3 DEF X
      <4> QED
        BY <4>2, <4>4, <4>5, <4>6
    <3> QED
      BY <3>1, <3>2
  <2>11. Nat \subseteq M
    <3> HIDE DEF H
    <3>1. 0 \in M /\ \A i \in Nat : i \in M => i + 1 \in M
      BY <2>9, <2>10
    <3> HIDE DEF M
    <3> QED
      BY <3>1, NatSetInduction
  <2>12. H(m)
    <3> HIDE DEF H
    <3> QED
      BY <1>0, <2>11
  <2>13. PairsUpto(E, m) = E
    BY DEF PairsUpto, m
  <2>14. m \in 1 .. m
    BY <1>0, <1>2
  <2>15. L[m] \in X /\ Listed(L[m], E, b)
    BY <2>12, <2>13, <2>14
  <2> QED
    BY <2>1, <2>15 DEF X
<1> QED
  BY <1>1, <1>2

-----------------------------------------------------------------------------
(* Division of i128 *)

\* The multiple of a divisor next below a natural number.
LEMMA DivBounds ==
  ASSUME NEW x \in Nat, NEW y \in Nat, y # 0
  PROVE  x \div y \in Nat /\ (x \div y) * y <= x /\ x < (x \div y + 1) * y
<1>1. x \div y \in Nat
  OBVIOUS
<1>2. (x \div y) * y <= x
  OBVIOUS
<1>3. x < (x \div y + 1) * y
  OBVIOUS
<1> QED
  BY <1>1, <1>2, <1>3

\* Products of naturals grow with their factors.
LEMMA TimesMonotone ==
  ASSUME NEW x \in Nat, NEW y \in Nat, NEW k \in Nat, x <= y
  PROVE  x * k <= y * k
<1>1. PICK d \in Nat : y = x + d
  <2>1. y - x \in Nat /\ y = x + (y - x)
    OBVIOUS
  <2> QED
    BY <2>1
<1>2. (x + d) * k = x * k + d * k /\ d * k \in Nat /\ x * k \in Nat
  OBVIOUS
<1> QED
  BY <1>1, <1>2

\* Dividing by n and then by u is dividing by their product.
LEMMA NestedBounds ==
  ASSUME NEW s \in Nat, NEW d \in Nat, NEW e \in Nat, NEW n \in Nat, NEW u \in Nat,
         d * n <= s, s < (d + 1) * n, e * u <= d, d < (e + 1) * u
  PROVE  e * (u * n) <= s /\ s < (e + 1) * (u * n)
<1>1. (e * u) * n <= d * n
  BY TimesMonotone
<1>2. (d + 1) * n <= ((e + 1) * u) * n
  <2>1. d + 1 \in Nat /\ (e + 1) * u \in Nat /\ d + 1 <= (e + 1) * u
    OBVIOUS
  <2> QED
    BY <2>1, TimesMonotone
<1>3. (e * u) * n = e * (u * n) /\ ((e + 1) * u) * n = (e + 1) * (u * n)
  OBVIOUS
<1>4. {(e * u) * n, d * n, (d + 1) * n, ((e + 1) * u) * n} \subseteq Int
  OBVIOUS
<1> QED
  BY <1>1, <1>2, <1>3, <1>4

\* Quotient cuts towards zero.
LEMMA QuotientBounds ==
  ASSUME NEW x \in Int, NEW y \in Nat, y # 0
  PROVE  /\ Quotient(x, y) \in Int /\ Abs(Quotient(x, y)) \in Nat /\ Abs(x) \in Nat
         /\ Abs(Quotient(x, y)) * y <= Abs(x) /\ Abs(x) < (Abs(Quotient(x, y)) + 1) * y
         /\ x >= 0 => Quotient(x, y) >= 0
         /\ x <= 0 => Quotient(x, y) <= 0
<1>1. CASE x < 0
  <2>1. -x \in Nat /\ Abs(x) = -x /\ Quotient(x, y) = -((-x) \div y)
    BY <1>1 DEF Abs, Quotient
  <2>2. PICK d \in Nat : d = (-x) \div y /\ d * y <= -x /\ -x < (d + 1) * y
    BY <2>1, DivBounds
  <2>3. Quotient(x, y) = -d /\ Abs(-d) = d
    BY <2>1, <2>2 DEF Abs
  <2> QED
    BY <1>1, <2>1, <2>2, <2>3
<1>2. CASE ~(x < 0)
  <2>1. x \in Nat /\ Abs(x) = x /\ Quotient(x, y) = x \div y
    BY <1>2 DEF Abs, Quotient
  <2>2. PICK d \in Nat : d = x \div y /\ d * y <= x /\ x < (d + 1) * y
    BY <2>1, DivBounds
  <2>3. Quotient(x, y) = d /\ Abs(d) = d /\ (x <= 0 => d <= 0)
    <3>1. x = 0 => d = 0
      <4>1. d # 0 => d * y >= 1
        OBVIOUS
      <4> QED
        BY <2>2, <4>1
    <3> QED
      BY <2>1, <2>2, <3>1 DEF Abs
  <2> QED
    BY <1>2, <2>1, <2>2, <2>3
<1> QED
  BY <1>1, <1>2

\* Cut to WAD and then to fewer decimals, an average is cut towards zero once.
LEMMA NestedQuotients ==
  ASSUME NEW s \in Int, NEW n \in Nat, NEW u \in Nat, n # 0, u # 0,
         NEW v, v = Quotient(Quotient(s, n), u)
  PROVE  /\ v \in Int /\ Abs(v) * (u * n) <= Abs(s) /\ Abs(s) < (Abs(v) + 1) * (u * n)
         /\ v * s >= 0
<1> DEFINE d == Quotient(s, n)
<1>1. /\ d \in Int /\ Abs(d) \in Nat /\ Abs(s) \in Nat
      /\ Abs(d) * n <= Abs(s) /\ Abs(s) < (Abs(d) + 1) * n
      /\ s >= 0 => d >= 0
      /\ s <= 0 => d <= 0
  BY QuotientBounds
<1> HIDE DEF d
<1>2. /\ v \in Int /\ Abs(v) \in Nat
      /\ Abs(v) * u <= Abs(d) /\ Abs(d) < (Abs(v) + 1) * u
      /\ d >= 0 => v >= 0
      /\ d <= 0 => v <= 0
  BY <1>1, QuotientBounds DEF d
<1>3. Abs(v) * (u * n) <= Abs(s) /\ Abs(s) < (Abs(v) + 1) * (u * n)
  BY <1>1, <1>2, NestedBounds
<1>4. v * s >= 0
  <2>1. CASE s >= 0
    <3>1. v >= 0
      BY <2>1, <1>1, <1>2
    <3> QED
      BY <2>1, <3>1, <1>2
  <2>2. CASE s <= 0
    <3>1. v <= 0
      BY <2>2, <1>1, <1>2
    <3>2. \A i, j \in Int : i <= 0 /\ j <= 0 => i * j >= 0
      OBVIOUS
    <3> QED
      BY <2>2, <3>1, <3>2, <1>2
  <2> QED
    BY <2>1, <2>2
<1> QED
  BY <1>2, <1>3, <1>4

\* Rounding to the nearest, halves away from zero, is off by half a unit at most.
LEMMA NearestRounds ==
  ASSUME NEW s \in Int, NEW m \in Nat, m # 0, NEW t,
         t = (IF s < 0 THEN -1 ELSE 1) * ((2 * Abs(s) + m) \div (2 * m))
  PROVE  t \in Int /\ 2 * Abs(t * m - s) <= m
<1> DEFINE x == 2 * Abs(s) + m
           y == 2 * m
           q == x \div y
<1>1. Abs(s) \in Nat /\ x \in Nat /\ y \in Nat /\ y # 0
  BY DEF Abs
<1> HIDE DEF x, y
<1>2. q \in Nat /\ q * y <= x /\ x < (q + 1) * y
  BY <1>1, DivBounds
<1>3. t = (IF s < 0 THEN -1 ELSE 1) * q
  BY DEF x, y
<1> HIDE DEF q
<1>4. q * y = 2 * (q * m) /\ (q + 1) * y = 2 * (q * m) + 2 * m /\ q * m \in Nat
  BY <1>2 DEF y
<1>5. 2 * (q * m) <= 2 * Abs(s) + m /\ 2 * Abs(s) + m < 2 * (q * m) + 2 * m
  BY <1>2, <1>4 DEF x
<1>6. CASE s < 0
  <2>1. t = -q /\ Abs(s) = -s
    BY <1>2, <1>3, <1>6 DEF Abs
  <2>2. t * m = -(q * m)
    BY <1>2, <2>1
  <2> DEFINE z == q * m
  <2> HIDE DEF z
  <2>3. z \in Nat /\ 2 * z <= 2 * (-s) + m /\ 2 * (-s) + m < 2 * z + 2 * m
    BY <1>4, <1>5, <2>1 DEF z
  <2>4. 2 * Abs(-z - s) <= m
    <3>1. -z - s \in Int /\ 2 * (-z - s) <= m /\ -(2 * (-z - s)) <= m
      BY <2>3
    <3> QED
      BY <3>1 DEF Abs
  <2> QED
    BY <1>2, <2>1, <2>2, <2>4 DEF z
<1>7. CASE ~(s < 0)
  <2>1. t = q /\ Abs(s) = s
    BY <1>2, <1>3, <1>7 DEF Abs
  <2> DEFINE z == q * m
  <2> HIDE DEF z
  <2>3. 2 * Abs(z - s) <= m
    BY <1>4, <1>5, <2>1 DEF Abs, z
  <2> QED
    BY <1>2, <2>1, <2>3 DEF z
<1> QED
  BY <1>6, <1>7

\* A bound scales with its unit.
LEMMA ScaledBound ==
  ASSUME NEW t \in Int, NEW m \in Nat, NEW s \in Int, NEW u \in Nat, 2 * Abs(t * m - s) <= m
  PROVE  2 * Abs(t * (m * u) - s * u) <= m * u
<1> DEFINE d == t * m - s
<1>1. d \in Int /\ Abs(d) \in Nat
  BY DEF Abs
<1>2. t * (m * u) - s * u = d * u
  <2>1. t * (m * u) = (t * m) * u
    OBVIOUS
  <2>2. ((t * m) - s) * u = (t * m) * u - s * u
    OBVIOUS
  <2> QED
    BY <2>1, <2>2
<1>3. 2 * Abs(d) <= m
  OBVIOUS
<1> HIDE DEF d
<1>4. Abs(d * u) = Abs(d) * u
  <2>1. CASE d < 0
    <3>1. -d \in Nat /\ (-d) * u \in Nat /\ d * u = -((-d) * u)
      BY <1>1, <2>1
    <3>2. Abs(d) = -d
      BY <1>1, <2>1 DEF Abs
    <3> DEFINE w == (-d) * u
    <3>3. w \in Nat /\ Abs(-w) = w
      BY <3>1 DEF Abs
    <3> QED
      BY <3>1, <3>2, <3>3
  <2>2. CASE ~(d < 0)
    <3>1. d \in Nat /\ d * u \in Nat
      BY <1>1, <2>2
    <3> QED
      BY <3>1 DEF Abs
  <2> QED
    BY <2>1, <2>2
<1>5. (2 * Abs(d)) * u <= m * u
  BY <1>1, <1>3, TimesMonotone
<1>6. (2 * Abs(d)) * u = 2 * (Abs(d) * u)
  BY <1>1
<1> QED
  BY <1>2, <1>4, <1>5, <1>6

-----------------------------------------------------------------------------
(* What get_summary reads *)

Counted(f, tagged) == ~f.is_revoked /\ f.body \in tagged

\* The first i feedback of a client, counted at place n of the list of clients.
CountedUpto(a, c, tagged, n, i) ==
    {e \in {n} \X (1 .. i) : Counted(feedback[a][c][e[2]], tagged)}

\* The loop over the feedback of one client lists what counts.
LEMMA LiveBodiesListed ==
  ASSUME NEW a, NEW c, NEW tagged, NEW n, NEW b, NEW m, m = last_index[a][c], m \in Nat,
         tagged \subseteq Admissible,
         \A i \in 1 .. m : b[<<n, i>>] = feedback[a][c][i].body
  PROVE  /\ LiveBodies(a, c, tagged) \in Seq(Admissible)
         /\ Listed(LiveBodies(a, c, tagged), CountedUpto(a, c, tagged, n, m), b)
<1> DEFINE X == Seq(Admissible)
           T(i) == Counted(feedback[a][c][i], tagged)
           D(f) == [i \in 0 .. m |-> IF i = 0 THEN <<>>
                                     ELSE IF T(i) THEN Append(f[i - 1], feedback[a][c][i].body)
                                                  ELSE f[i - 1]]
           L == CHOOSE f : f = D(f)
           st == [i \in 1 .. m |-> [s \in X |-> IF T(i) THEN Append(s, feedback[a][c][i].body) ELSE s]]
<1>1. LiveBodies(a, c, tagged) = L[m]
  BY DEF LiveBodies, Counted
<1>2. ASSUME NEW i \in 1 .. m, T(i) PROVE feedback[a][c][i].body \in Admissible
  BY <1>2 DEF Counted
<1> HIDE DEF T
<1>3. st \in [1 .. m -> [X -> X]]
  BY <1>2
<1>4. \A i \in 1 .. m : \A s \in X : st[i][s] = IF T(i) THEN Append(s, feedback[a][c][i].body) ELSE s
  OBVIOUS
<1> HIDE DEF st
<1>5. PICK f : f \in [0 .. m -> X] /\ f[0] = <<>> /\ \A i \in 1 .. m : f[i] = st[i][f[i - 1]]
  <2>1. <<>> \in X /\ Steps(st, m, X)
    BY <1>3 DEF Steps
  <2> HIDE DEF X
  <2>2. \E f : Iterates(f, <<>>, st, m, X)
    BY <2>1, IterationExists
  <2> QED
    BY <2>2 DEF Iterates
<1>6. ASSUME NEW i \in 1 .. m
      PROVE  f[i] = IF T(i) THEN Append(f[i - 1], feedback[a][c][i].body) ELSE f[i - 1]
  <2>1. i - 1 \in 0 .. m
    OBVIOUS
  <2>2. f[i - 1] \in X
    BY <2>1, <1>5
  <2> HIDE DEF X
  <2> QED
    BY <2>2, <1>4, <1>5
<1>7. f = D(f)
  <2>1. ASSUME NEW i \in 0 .. m
        PROVE f[i] = IF i = 0 THEN <<>> ELSE IF T(i) THEN Append(f[i - 1], feedback[a][c][i].body)
                                                  ELSE f[i - 1]
    <3>1. CASE i = 0
      BY <3>1, <1>5
    <3>2. CASE i # 0
      <4>1. i \in 1 .. m
        BY <3>2
      <4> QED
        BY <3>2, <4>1, <1>6
    <3> QED
      BY <3>1, <3>2
  <2>2. f = [i \in 0 .. m |-> f[i]]
    BY <1>5
  <2> QED
    BY <2>1, <2>2
<1>8. L = D(L)
  <2> HIDE DEF D
  <2> QED
    BY <1>7
<1> HIDE DEF L
<1>9. \A i \in 0 .. m : L[i] = IF i = 0 THEN <<>>
                               ELSE IF T(i) THEN Append(L[i - 1], feedback[a][c][i].body)
                                            ELSE L[i - 1]
  BY <1>8
<1> HIDE DEF D
<1> DEFINE C(i) == CountedUpto(a, c, tagged, n, i)
           H(i) == i <= m => L[i] \in X /\ Listed(L[i], C(i), b)
           M == {i \in Nat : H(i)}
<1>10. H(0)
  <2>1. C(0) = {}
    BY DEF CountedUpto
  <2>2. L[0] = <<>>
    BY <1>9
  <2>3. Listed(<<>>, {}, b)
    BY ListedEmpty
  <2>4. L[0] \in X /\ Listed(L[0], C(0), b)
    <3>1. <<>> \in X
      OBVIOUS
    <3> HIDE DEF C, X
    <3> QED
      BY <2>1, <2>2, <2>3, <3>1
  <2> HIDE DEF C, X
  <2> QED
    BY <2>4
<1>11. ASSUME NEW i \in Nat, H(i) PROVE H(i + 1)
  <2> SUFFICES ASSUME i + 1 <= m PROVE L[i + 1] \in X /\ Listed(L[i + 1], C(i + 1), b)
    OBVIOUS
  <2>1. L[i] \in X /\ Listed(L[i], C(i), b)
    BY <1>11
  <2>2. i + 1 \in 0 .. m /\ i + 1 \in 1 .. m /\ i + 1 # 0 /\ (i + 1) - 1 = i
    OBVIOUS
  <2>3. L[i + 1] = IF T(i + 1) THEN Append(L[i], feedback[a][c][i + 1].body) ELSE L[i]
    BY <1>9, <2>2
  <2>4. <<n, i + 1>> \notin C(i)
    BY DEF CountedUpto
  <2>5. CASE T(i + 1)
    <3>1. C(i + 1) = C(i) \cup {<<n, i + 1>>}
      <4>1. \A e : e \in {n} \X (1 .. i + 1) <=> e \in {n} \X (1 .. i) \/ e = <<n, i + 1>>
        OBVIOUS
      <4> QED
        BY <2>5, <4>1 DEF CountedUpto, T
    <3>2. b[<<n, i + 1>>] = feedback[a][c][i + 1].body /\ b[<<n, i + 1>>] \in Admissible
      BY <2>2, <2>5, <1>2
    <3> HIDE DEF C
    <3>3. Listed(Append(L[i], b[<<n, i + 1>>]), C(i) \cup {<<n, i + 1>>}, b)
      BY <2>1, <2>4, <3>2, ListedAppend
    <3>4. L[i + 1] = Append(L[i], b[<<n, i + 1>>])
      BY <2>3, <2>5, <3>2
    <3>5. L[i + 1] \in X
      BY <2>1, <3>2, <3>4
    <3> QED
      BY <3>1, <3>3, <3>4, <3>5
  <2>6. CASE ~T(i + 1)
    <3>1. C(i + 1) = C(i)
      <4>1. \A e : e \in {n} \X (1 .. i + 1) <=> e \in {n} \X (1 .. i) \/ e = <<n, i + 1>>
        OBVIOUS
      <4> QED
        BY <2>6, <4>1 DEF CountedUpto, T
    <3> QED
      BY <2>1, <2>3, <2>6, <3>1
  <2> QED
    BY <2>5, <2>6
<1>12. Nat \subseteq M
  <2> HIDE DEF H
  <2>1. 0 \in M /\ \A i \in Nat : i \in M => i + 1 \in M
    BY <1>10, <1>11
  <2> HIDE DEF M
  <2> QED
    BY <2>1, NatSetInduction
<1>13. H(m)
  <2> HIDE DEF H
  <2> QED
    BY <1>12
<1> QED
  BY <1>1, <1>13

\* What a summary counts: the live feedback of the clients it reads, by place.
Entries(a, clients, tagged) ==
    {e \in (DOMAIN clients \cap 1 .. MAX_SUMMARY_CLIENTS) \X Indexes :
        <<clients[e[1]], e[2]>> \in LiveFeedback(a, Addresses, tagged)}
EntryBody(a, clients) == [e \in (DOMAIN clients) \X Indexes |-> feedback[a][clients[e[1]]][e[2]].body]

\* get_summary reads each of them once.
LEMMA SummarisedListed ==
  ASSUME ReputationInv, BodiesAdmissible, NEW a \in Agents, NEW clients \in ClientLists,
         NEW tagged \in TagChoices
  PROVE  /\ Summarised(a, clients, tagged) \in Seq(Admissible)
         /\ Listed(Summarised(a, clients, tagged), Entries(a, clients, tagged), EntryBody(a, clients))
<1> USE ReputationAssumption, SummaryAssumption
<1> DEFINE limit == IF Len(clients) < MAX_SUMMARY_CLIENTS THEN Len(clients) ELSE MAX_SUMMARY_CLIENTS
           seqs == [n \in 1 .. limit |-> LiveBodies(a, clients[n], tagged)]
           es == Entries(a, clients, tagged)
           b == EntryBody(a, clients)
<1>1. PICK k \in Nat : clients \in [1 .. k -> Addresses]
  BY DEF ClientLists
<1>2. Len(clients) = k /\ DOMAIN clients = 1 .. k
  BY <1>1
<1>3. limit \in Nat /\ limit <= k /\ DOMAIN clients \cap 1 .. MAX_SUMMARY_CLIENTS = 1 .. limit
  BY <1>2
<1>4. Summarised(a, clients, tagged) = FlattenSeq(seqs)
  BY DEF Summarised
<1> HIDE DEF limit
<1>5. es \subseteq (1 .. limit) \X Indexes
  BY <1>3 DEF Entries
<1>6. ASSUME NEW n \in 1 .. limit
      PROVE  /\ LiveBodies(a, clients[n], tagged) \in Seq(Admissible)
             /\ Listed(LiveBodies(a, clients[n], tagged), PairsAt(es, n), b)
  <2> DEFINE c == clients[n]
             m == last_index[a][c]
  <2>1. c \in Addresses /\ n \in DOMAIN clients
    BY <1>1, <1>2, <1>3
  <2>2. m \in 0 .. MaxFeedback /\ m \in Nat
    BY <2>1 DEF ReputationInv, TypeOK
  <2>3. tagged \subseteq Admissible
    BY DEF TagChoices
  <2>4. \A i \in 1 .. m : b[<<n, i>>] = feedback[a][c][i].body
    BY <2>1, <2>2 DEF EntryBody, Indexes
  <2>5. PairsAt(es, n) = CountedUpto(a, c, tagged, n, m)
    <3>1. ASSUME NEW i \in Indexes
          PROVE  <<c, i>> \in LiveFeedback(a, Addresses, tagged)
                    <=> i \in 1 .. m /\ Counted(feedback[a][c][i], tagged)
      <4>1. HasFeedback(a, c, i) <=> i <= m
        BY <2>1 DEF ReputationInv, FeedbackContiguous
      <4>2. i \in 1 .. m <=> i <= m
        BY <2>2 DEF Indexes
      <4> QED
        BY <2>1, <4>1, <4>2 DEF LiveFeedback, Counted
    <3>2. ASSUME NEW e, e \in PairsAt(es, n) PROVE e \in CountedUpto(a, c, tagged, n, m)
      <4>1. PICK i \in Indexes : e = <<n, i>>
        BY <3>2 DEF PairsAt, Entries
      <4>2. <<c, i>> \in LiveFeedback(a, Addresses, tagged)
        BY <3>2, <4>1 DEF PairsAt, Entries
      <4> HIDE DEF c, m
      <4> QED
        BY <3>1, <4>1, <4>2 DEF CountedUpto
    <3>3. ASSUME NEW e, e \in CountedUpto(a, c, tagged, n, m) PROVE e \in PairsAt(es, n)
      <4>1. PICK i \in 1 .. m : e = <<n, i>> /\ Counted(feedback[a][c][i], tagged)
        BY <3>3 DEF CountedUpto
      <4>2. i \in Indexes
        BY <2>2 DEF Indexes
      <4>3. <<c, i>> \in LiveFeedback(a, Addresses, tagged)
        BY <3>1, <4>1, <4>2
      <4>4. e[1] = n /\ e[2] = i /\ e \in (DOMAIN clients \cap 1 .. MAX_SUMMARY_CLIENTS) \X Indexes
        BY <4>1, <4>2, <1>3
      <4> QED
        BY <4>3, <4>4 DEF PairsAt, Entries
    <3> QED
      BY <3>2, <3>3
  <2>6. m = last_index[a][c]
    OBVIOUS
  <2>7. /\ LiveBodies(a, c, tagged) \in Seq(Admissible)
        /\ Listed(LiveBodies(a, c, tagged), CountedUpto(a, c, tagged, n, m), b)
    <3> HIDE DEF b, es, c, m
    <3> QED
      BY <2>2, <2>3, <2>4, <2>6, LiveBodiesListed
  <2> QED
    BY <2>5, <2>7
<1> HIDE DEF es, b
<1>7. seqs \in Seq(Seq(Admissible)) /\ Len(seqs) = limit
      /\ \A n \in 1 .. limit : seqs[n] = LiveBodies(a, clients[n], tagged)
  BY <1>3, <1>6
<1> HIDE DEF seqs
<1>8. FlattenSeq(seqs) \in Seq(Admissible) /\ Listed(FlattenSeq(seqs), es, b)
  BY <1>5, <1>6, <1>7, FlattenListed
<1> QED
  BY <1>4, <1>8 DEF es, b

\* The most frequent number of decimals exists and is at most WAD.
LEMMA ModeType ==
  ASSUME NEW q \in Seq(Admissible)
  PROVE  ModeDecimals(q) \in 0 .. WAD
<1> DEFINE F(d) == Cardinality({n \in DOMAIN q : DecimalsOf[q[n]] = d})
           f == [d \in 0 .. WAD |-> F(d)]
<1>1. WAD \in Nat
  BY SummaryAssumption
<1>2. ASSUME NEW d \in 0 .. WAD PROVE F(d) \in Nat
  <2>1. DOMAIN q = 1 .. Len(q) /\ Len(q) \in Nat
    OBVIOUS
  <2>2. IsFiniteSet(DOMAIN q)
    BY <2>1, FS_Interval
  <2>3. IsFiniteSet({n \in DOMAIN q : DecimalsOf[q[n]] = d})
    BY <2>2, FS_Subset
  <2> QED
    BY <2>3, FS_CardinalityType
<1> HIDE DEF F
<1>3. f \in [0 .. WAD -> Nat]
  BY <1>2
<1>4. \E d \in 0 .. WAD : \A e \in 0 .. WAD : F(e) < F(d) \/ (F(e) = F(d) /\ d <= e)
  <2>1. \E d \in 0 .. WAD : \A e \in 0 .. WAD : f[e] < f[d] \/ (f[e] = f[d] /\ d <= e)
    <3> HIDE DEF f
    <3> QED
      BY <1>1, <1>3, BestExists
  <2> QED
    BY <2>1
<1>5. ModeDecimals(q) = CHOOSE d \in 0 .. WAD : \A e \in 0 .. WAD : F(e) < F(d) \/ (F(e) = F(d) /\ d <= e)
  BY DEF ModeDecimals, F
<1> QED
  BY <1>4, <1>5

\* The value of an entry, scaled to WAD.
EntryWad(a, clients, e) == WadOf(a, <<clients[e[1]], e[2]>>)
EntrySum(a, clients, part) == SumFunction([e \in part |-> EntryWad(a, clients, e)])

\* What SummaryIsAverage says of one summary.
IsAverage(s, es, sum) ==
    LET unit == Pow10(WAD - s.summary_value_decimals) * s.count
    IN /\ s.count = Cardinality(es)
       /\ s.count > 0 =>
             /\ Abs(s.summary_value) * unit <= Abs(sum)
             /\ Abs(sum) < (Abs(s.summary_value) + 1) * unit
             /\ s.summary_value * sum >= 0

\* The list get_summary reads has the number and the sum of the entries; if it
\* overflows, the sum of some of them does.
LEMMA EntriesSummed ==
  ASSUME ReputationInv, BodiesAdmissible, NEW a \in Agents, NEW clients \in ClientLists,
         NEW tagged \in TagChoices, NEW es, es = Entries(a, clients, tagged),
         NEW q, q = Summarised(a, clients, tagged)
  PROVE  /\ q \in Seq(Admissible) /\ IsFiniteSet(es) /\ Cardinality(es) = Len(q)
         /\ SumWad(q)[Len(q)] = EntrySum(a, clients, es)
         /\ EntrySum(a, clients, es) \in Int
         /\ AggregateOverflow(q) => \E part \in SUBSET es : ~FitsI128(EntrySum(a, clients, part))
<1> DEFINE b == EntryBody(a, clients)
           w == [e \in es |-> EntryWad(a, clients, e)]
<1>1. q \in Seq(Admissible) /\ Listed(q, es, b)
  BY SummarisedListed
<1>2. IsFiniteSet(es) /\ Cardinality(es) = Len(q)
  BY <1>1, ListedSize
<1>3. ASSUME NEW e \in es PROVE EntryWad(a, clients, e) = Normalized(b[e]) /\ b[e] \in Admissible
  <2>1. PICK n \in DOMAIN clients, i \in Indexes :
           e = <<n, i>> /\ <<clients[n], i>> \in LiveFeedback(a, Addresses, tagged)
    BY DEF Entries
  <2>2. b[e] = feedback[a][clients[n]][i].body
    BY <2>1 DEF EntryBody
  <2>3. b[e] \in tagged
    BY <2>1, <2>2 DEF LiveFeedback
  <2>4. tagged \subseteq Admissible
    BY DEF TagChoices
  <2>5. e[1] = n /\ e[2] = i
    BY <2>1
  <2>6. EntryWad(a, clients, e) = Normalized(feedback[a][clients[n]][i].body)
    BY <2>5 DEF EntryWad, WadOf
  <2> QED
    BY <2>2, <2>3, <2>4, <2>6
<1> HIDE DEF b
<1>4. /\ w \in [es -> Int] /\ \A e \in es : w[e] = Normalized(b[e])
  BY <1>3, NormalizedType
<1>5. Summable(w, es) /\ \A e \in es : w[e] = EntryWad(a, clients, e)
  BY <1>2, <1>4 DEF Summable
<1> HIDE DEF w
<1>6. ASSUME NEW part \in SUBSET es PROVE EntrySum(a, clients, part) = SumOver(w, part)
  <2> DEFINE h == [e \in part |-> w[e]]
  <2>1. h = [e \in part |-> EntryWad(a, clients, e)]
    BY <1>5
  <2>2. Part(part, es)
    BY DEF Part
  <2>3. SumFunction(h) = SumOver(w, part)
    <3> HIDE DEF h
    <3> QED
      BY <1>5, <2>2, SumOfPart DEF h
  <2> HIDE DEF h
  <2> QED
    BY <2>1, <2>3 DEF EntrySum
<1>7. /\ SumWad(q)[Len(q)] = SumOver(w, es)
      /\ \A n \in 1 .. Len(q) : \E part \in SUBSET es : SumWad(q)[n] = SumOver(w, part)
      /\ \A n \in 1 .. Len(q) : \E x \in es : Normalized(q[n]) = w[x]
  BY <1>1, <1>4, ListedSums
<1>8. SumOver(w, es) \in Int
  BY <1>5, SumOverType DEF Part
<1>9. EntrySum(a, clients, es) = SumOver(w, es)
  BY <1>6
<1>10. ASSUME NEW x \in es PROVE SumOver(w, {x}) = w[x]
  <2>1. Part({x}, es) /\ Part({}, es) /\ x \in {x}
    BY DEF Part
  <2>2. SumOver(w, {x}) = w[x] + SumOver(w, Without({x}, x))
    BY <1>5, <2>1, SumOverTakesAny
  <2>3. Without({x}, x) = {}
    BY DEF Without
  <2>4. SumOver(w, {}) = 0
    BY <1>5, <2>1, SumOverUnfolds
  <2>5. w[x] \in Int
    BY <1>4
  <2> QED
    BY <2>2, <2>3, <2>4, <2>5
<1>11. ASSUME AggregateOverflow(q)
       PROVE  \E part \in SUBSET es : ~FitsI128(EntrySum(a, clients, part))
  <2>1. PICK n \in 1 .. Len(q) : ~FitsI128(Normalized(q[n])) \/ ~FitsI128(SumWad(q)[n])
    BY <1>1, <1>11 DEF AggregateOverflow
  <2>2. CASE ~FitsI128(Normalized(q[n]))
    <3>1. PICK x \in es : Normalized(q[n]) = w[x]
      BY <1>7
    <3>2. ~FitsI128(EntrySum(a, clients, {x})) /\ {x} \in SUBSET es
      BY <2>2, <3>1, <1>6, <1>10
    <3> QED
      BY <3>2
  <2>3. CASE ~FitsI128(SumWad(q)[n])
    <3>1. PICK part \in SUBSET es : SumWad(q)[n] = SumOver(w, part)
      BY <1>7
    <3> QED
      BY <2>3, <3>1, <1>6
  <2> QED
    BY <2>1, <2>2, <2>3
<1> QED
  BY <1>1, <1>2, <1>7, <1>8, <1>9, <1>11

\* What SummaryIsAverage says, of one summary.
LEMMA SummaryAverages ==
  ASSUME ReputationInv, BodiesAdmissible, NEW a \in Agents, NEW clients \in ClientLists,
         NEW tagged \in TagChoices, NEW es, es = Entries(a, clients, tagged),
         NEW s, s = GetSummary(a, clients, tagged)
  PROVE  IF s = None THEN \E part \in SUBSET es : ~FitsI128(EntrySum(a, clients, part))
         ELSE IsAverage(s, es, EntrySum(a, clients, es))
<1> DEFINE q == Summarised(a, clients, tagged)
           sum == EntrySum(a, clients, es)
           count == Len(q)
           mode == ModeDecimals(q)
           value == Quotient(Quotient(SumWad(q)[count], count), Pow10(WAD - mode))
           Record(c, v, d) == [count |-> c, summary_value |-> v, summary_value_decimals |-> d]
<1>1. /\ q \in Seq(Admissible) /\ Cardinality(es) = count
      /\ SumWad(q)[count] = sum /\ sum \in Int
      /\ AggregateOverflow(q) => \E part \in SUBSET es : ~FitsI128(EntrySum(a, clients, part))
  <2> HIDE DEF q
  <2>1. q = Summarised(a, clients, tagged)
    BY DEF q
  <2> QED
    BY <2>1, EntriesSummed
<1>2. s = IF AggregateOverflow(q) THEN None
          ELSE IF count = 0 THEN Record(0, 0, 0) ELSE Record(count, value, mode)
  BY DEF GetSummary
<1>3. mode \in 0 .. WAD /\ mode \in Nat /\ WAD - mode \in Nat
  <2>1. mode \in 0 .. WAD
    BY <1>1, ModeType
  <2> QED
    BY <2>1, SummaryAssumption
<1>4. count \in Nat
  BY <1>1
<1> HIDE DEF q, sum, count, mode
<1>5. CASE AggregateOverflow(q)
  BY <1>1, <1>2, <1>5
<1>6. CASE ~AggregateOverflow(q) /\ count = 0
  <2>1. s = Record(0, 0, 0) /\ s \in [count : Nat, summary_value : Int, summary_value_decimals : Nat]
    BY <1>2, <1>6
  <2>2. s # None
    BY <2>1, SummaryAssumption
  <2>3. s.count = 0 /\ s.count = Cardinality(es) /\ ~(s.count > 0)
    BY <2>1, <1>1, <1>6
  <2> QED
    BY <2>2, <2>3 DEF IsAverage, sum
<1>7. CASE ~AggregateOverflow(q) /\ count # 0
  <2> DEFINE u == Pow10(WAD - mode)
  <2>1. u \in Nat /\ u # 0
    BY <1>3, Pow10Unfolds
  <2>2. value = Quotient(Quotient(sum, count), u)
    BY <1>1
  <2> HIDE DEF u, value
  <2>3. /\ value \in Int /\ Abs(value) * (u * count) <= Abs(sum)
        /\ Abs(sum) < (Abs(value) + 1) * (u * count)
        /\ value * sum >= 0
    BY <1>1, <1>4, <1>7, <2>1, <2>2, NestedQuotients
  <2>4. s = Record(count, value, mode)
    BY <1>2, <1>7
  <2>5. s \in [count : Nat, summary_value : Int, summary_value_decimals : Nat]
    BY <1>3, <1>4, <2>3, <2>4
  <2>6. s # None
    BY <2>5, SummaryAssumption
  <2>7. s.count = count /\ s.summary_value = value /\ s.summary_value_decimals = mode
    BY <2>4
  <2>8. IsAverage(s, es, sum)
    BY <1>1, <2>3, <2>7 DEF IsAverage, u
  <2> QED
    BY <2>6, <2>8 DEF sum
<1> QED
  BY <1>5, <1>6, <1>7

\* Every summary is the exact average.
LEMMA SummaryInvariant == ReputationInv /\ BodiesAdmissible => SummaryIsAverage
<1> SUFFICES ASSUME ReputationInv, BodiesAdmissible, NEW a \in Agents, NEW tagged \in TagChoices,
                    NEW live \in {LiveFeedback(a, Addresses, tagged)}, NEW clients \in ClientLists
             PROVE LET s == GetSummary(a, clients, tagged)
                       es == {e \in (DOMAIN clients \cap 1 .. MAX_SUMMARY_CLIENTS) \X Indexes :
                                 <<clients[e[1]], e[2]>> \in live}
                       sumOf(part) == SumFunction([e \in part |-> WadOf(a, <<clients[e[1]], e[2]>>)])
                       sum == sumOf(es)
                       unit == Pow10(WAD - s.summary_value_decimals) * s.count
                   IN IF s = None
                      THEN \E part \in SUBSET es : ~FitsI128(sumOf(part))
                      ELSE /\ s.count = Cardinality(es)
                           /\ s.count > 0 =>
                                 /\ Abs(s.summary_value) * unit <= Abs(sum)
                                 /\ Abs(sum) < (Abs(s.summary_value) + 1) * unit
                                 /\ s.summary_value * sum >= 0
  BY Zenon DEF SummaryIsAverage
<1> DEFINE es == Entries(a, clients, tagged)
           s == GetSummary(a, clients, tagged)
<1>1. IF s = None THEN \E part \in SUBSET es : ~FitsI128(EntrySum(a, clients, part))
      ELSE IsAverage(s, es, EntrySum(a, clients, es))
  <2>1. es = Entries(a, clients, tagged) /\ s = GetSummary(a, clients, tagged)
    OBVIOUS
  <2> HIDE DEF es, s
  <2> QED
    BY <2>1, SummaryAverages
<1>2. live = LiveFeedback(a, Addresses, tagged)
  OBVIOUS
<1> QED
  BY <1>1, <1>2, Zenon DEF Entries, EntrySum, EntryWad, IsAverage

\* Whatever was given and revoked, every summary of get_summary that does not
\* overflow counts each live feedback it reads once for each time its client is
\* named, and is their exact average, cut towards zero once to the decimals it
\* states; one that overflows has feedback whose exact sum does not fit an i128.
THEOREM SummariesAverage == Spec => []SummaryIsAverage
BY ReputationInvariant, AdmissibleBodies, SummaryInvariant, PTL

-----------------------------------------------------------------------------
(* The rows the page and the API read *)

\* The feedback of an agent under a tag, by key, its row and its answers.
KeysOf(a, tag) ==
    {k \in GivenIn(feedback) : k[1] = a /\ tag \in {None, Decode(At(feedback, k).body)}}
RowAt(k) == RowOf(k, At(feedback, k))
Answers(k) == {q \in Tables.responses : q.key = k}

\* The value of a row in units of WAD.
Scaled(r) == r.value * Pow10(WAD - r.value_decimals)

\* The fields of a row.
LEMMA RowFields ==
  ASSUME NEW k
  PROVE  /\ RowAt(k).key = k /\ RowAt(k).value = ValueOf[At(feedback, k).body]
         /\ RowAt(k).value_decimals = DecimalsOf[At(feedback, k).body]
         /\ RowAt(k).is_revoked = At(feedback, k).is_revoked
         /\ RowAt(k).tag1 = Decode(At(feedback, k).body)
         /\ Scaled(RowAt(k)) = Normalized(At(feedback, k).body)
BY DEF RowAt, RowOf, Scaled, Normalized

\* FeedbackRows are the rows of those keys.
LEMMA RowsOfKeys ==
  ASSUME NEW a, NEW tag
  PROVE  FeedbackRows(Tables, a, tag) = {RowAt(k) : k \in KeysOf(a, tag)}
<1>1. Tables.feedback = {RowAt(k) : k \in GivenIn(feedback)}
  BY TablesShowStorage DEF TablesOf, Pair, RowsOf, RowAt
<1>2. FeedbackRows(Tables, a, tag)
        = {r \in {RowAt(k) : k \in GivenIn(feedback)} : r.key[1] = a /\ tag \in {None, r.tag1}}
  BY <1>1 DEF FeedbackRows
<1>3. \A k : RowAt(k).key = k /\ RowAt(k).tag1 = Decode(At(feedback, k).body)
  BY RowFields
<1> QED
  BY <1>2, <1>3 DEF KeysOf

\* A feedback has as many answers in the tables as the contract counted.
LEMMA AnswersCounted ==
  ASSUME ReputationInv, NEW k \in GivenIn(feedback)
  PROVE  /\ IsFiniteSet(Answers(k)) /\ At(response_count, k) \in Nat
         /\ Cardinality(Answers(k)) = At(response_count, k)
<1> USE ReputationAssumption
<1> DEFINE n == At(response_count, k)
           row(i) == ResponseRow(k, ResponseId(k, i), i)
           f == [i \in 1 .. n |-> row(i)]
<1>1. n \in Nat
  BY DEF ReputationInv, TypeOK, At, GivenIn, FeedbackKeys
<1>2. Tables.responses = AnswersOf(feedback, response_count)
  BY TablesShowStorage DEF TablesOf, Pair
<1>3. \A q, i : ResponseRow(q, ResponseId(q, i), i).key = q
                /\ ResponseRow(q, ResponseId(q, i), i).response_index = i
  BY DEF ResponseRow
<1>4. Answers(k) = {row(i) : i \in 1 .. n}
  <2>1. ASSUME NEW q \in Answers(k) PROVE \E i \in 1 .. n : q = row(i)
    <3>1. q \in AnswersOf(feedback, response_count) /\ q.key = k
      BY <1>2 DEF Answers
    <3>2. PICK j \in GivenIn(feedback) : q \in AnswersTo(j, At(response_count, j))
      BY <3>1 DEF AnswersOf
    <3>3. PICK i \in 1 .. At(response_count, j) : q = ResponseRow(j, ResponseId(j, i), i)
      BY <3>2 DEF AnswersTo
    <3> QED
      BY <1>3, <3>1, <3>3
  <2>2. ASSUME NEW i \in 1 .. n PROVE row(i) \in Answers(k)
    <3>1. row(i) \in AnswersOf(feedback, response_count)
      BY DEF AnswersOf, AnswersTo
    <3> QED
      BY <1>2, <1>3, <3>1 DEF Answers
  <2> HIDE DEF n, row
  <2> QED
    BY <2>1, <2>2
<1>5. f \in Surjection(1 .. n, Answers(k)) /\ f \in Injection(1 .. n, Answers(k))
  <2>1. \A i : row(i).response_index = i
    BY <1>3
  <2> HIDE DEF n, row
  <2> QED
    BY <1>4, <2>1 DEF Surjection, Injection, IsInjective
<1> HIDE DEF n, f
<1>6. IsFiniteSet(1 .. n) /\ Cardinality(1 .. n) = n
  BY <1>1, FS_Interval
<1>7. IsFiniteSet(Answers(k)) /\ Cardinality(Answers(k)) = n
  BY <1>5, <1>6, FS_Surjection
<1> QED
  BY <1>1, <1>7 DEF n

\* The keys of the live feedback of some clients, and their entries.
LiveKeys(a, clients, tag) ==
    {k \in KeysOf(a, tag) : k[2] \in clients /\ ~At(feedback, k).is_revoked}
EntryAt(k) == <<k[2], k[3]>>

\* The clients an agent's list names: all that gave it feedback, and finitely many.
LEMMA ClientsListed ==
  ASSUME ReputationInv, NEW a \in Agents
  PROVE  /\ IsFiniteSet({client_at[a][s] : s \in Slots})
         /\ \A c \in Addresses, i \in Indexes :
               HasFeedback(a, c, i) => c \in {client_at[a][s] : s \in Slots}
<1> USE ReputationAssumption
<1> DEFINE m == [s \in Slots |-> client_at[a][s]]
<1>1. IsFiniteSet(Slots)
  BY FS_Interval DEF Slots
<1>2. m \in Surjection(Slots, {client_at[a][s] : s \in Slots})
  BY DEF Surjection
<1>3. IsFiniteSet({client_at[a][s] : s \in Slots})
  BY <1>1, <1>2, FS_Surjection
<1>4. ASSUME NEW c \in Addresses, NEW i \in Indexes, HasFeedback(a, c, i)
      PROVE  \E s \in Slots : client_at[a][s] = c
  <2>1. last_index[a][c] > 0 /\ ClientsIndexed
    BY <1>4 DEF ReputationInv, FeedbackContiguous, TypeOK, Indexes
  <2>2. client_exists[a][c]
    BY <2>1, Zenon DEF ClientsIndexed
  <2> QED
    BY <2>1, <2>2, Zenon DEF ClientsIndexed
<1> QED
  BY <1>3, <1>4

\* An agent has live feedback of clients in its list only: finitely many.
LEMMA LiveFinite ==
  ASSUME ReputationInv, NEW a \in Agents, NEW clients \in SUBSET Addresses, NEW tagged
  PROVE  IsFiniteSet(LiveFeedback(a, clients, tagged))
<1> DEFINE L == {client_at[a][s] : s \in Slots}
<1>1. IsFiniteSet(Indexes)
  BY ReputationAssumption, FS_Interval DEF Indexes
<1>2. IsFiniteSet(L) /\ \A c \in Addresses, i \in Indexes : HasFeedback(a, c, i) => c \in L
  BY ClientsListed
<1> HIDE DEF L
<1>3. IsFiniteSet(L \X Indexes)
  BY <1>1, <1>2, FS_Product
<1>4. LiveFeedback(a, clients, tagged) \subseteq L \X Indexes
  BY <1>2 DEF LiveFeedback
<1> QED
  BY <1>3, <1>4, FS_Subset

\* An entry of live feedback and its key.
LEMMA LiveEntry ==
  ASSUME BodiesAdmissible, NEW a \in Agents, NEW clients \in SUBSET Addresses,
         NEW tag \in VALID_TAGS \cup {None}, NEW c, NEW i
  PROVE  /\ <<c, i>> \in LiveFeedback(a, clients, Matching(tag)) <=> <<a, c, i>> \in LiveKeys(a, clients, tag)
         /\ <<c, i>> \in LiveFeedback(a, clients, Matching(tag)) =>
               /\ c \in clients /\ i \in Indexes
               /\ feedback[a][c][i].body \in Admissible
               /\ WadOf(a, <<c, i>>) = Normalized(feedback[a][c][i].body)
               /\ WadOf(a, <<c, i>>) \in Int
<1> USE ReputationAssumption
<1> DEFINE b == feedback[a][c][i].body
           rv == feedback[a][c][i].is_revoked
<1>1. At(feedback, <<a, c, i>>) = feedback[a][c][i]
  BY DEF At
<1>2. <<a, c, i>> \in LiveKeys(a, clients, tag)
        <=> c \in Addresses /\ i \in Indexes /\ b # None /\ tag \in {None, Decode(b)} /\ c \in clients /\ ~rv
  BY <1>1, Zenon DEF LiveKeys, KeysOf, GivenIn, FeedbackKeys
<1>3. <<c, i>> \in LiveFeedback(a, clients, Matching(tag))
        <=> c \in clients /\ i \in Indexes /\ b # None /\ ~rv /\ b \in Matching(tag)
  BY Zenon DEF LiveFeedback, HasFeedback
<1>4. c \in clients /\ i \in Indexes => b \in Admissible \cup {None}
  BY DEF BodiesAdmissible
<1>5. WadOf(a, <<c, i>>) = Normalized(b)
  BY DEF WadOf
<1>6. b \in Admissible => Normalized(b) \in Int
  BY NormalizedType
<1> HIDE DEF b, rv
<1>7. b # None /\ b \in Admissible \cup {None} => (b \in Matching(tag) <=> tag \in {None, Decode(b)})
  BY WireAssumption DEF Matching, Decode
<1>8. None \notin Admissible
  BY Zenon
<1> QED
  BY <1>2, <1>3, <1>4, <1>5, <1>6, <1>7 DEF b, rv

\* A key of an agent's feedback is the agent, a client and an index.
LEMMA KeyShape ==
  ASSUME NEW a, NEW tag, NEW k, k \in KeysOf(a, tag)
  PROVE  /\ k = <<a, k[2], k[3]>> /\ k[2] \in Addresses /\ k[3] \in Indexes /\ k[1] = a
         /\ a \in Agents
BY DEF KeysOf, GivenIn, FeedbackKeys

\* The entries of the live keys are the live feedback.
LEMMA LiveEntries ==
  ASSUME BodiesAdmissible, NEW a \in Agents, NEW clients \in SUBSET Addresses,
         NEW tag \in VALID_TAGS \cup {None}
  PROVE  LiveFeedback(a, clients, Matching(tag)) = {EntryAt(k) : k \in LiveKeys(a, clients, tag)}
<1> DEFINE live == LiveFeedback(a, clients, Matching(tag))
<1>1. ASSUME NEW e \in live PROVE \E k \in LiveKeys(a, clients, tag) : e = EntryAt(k)
  <2>1. e = <<e[1], e[2]>>
    BY DEF LiveFeedback
  <2>2. <<e[1], e[2]>> \in live
    BY <2>1
  <2>3. <<a, e[1], e[2]>> \in LiveKeys(a, clients, tag)
    BY <2>2, LiveEntry
  <2>4. EntryAt(<<a, e[1], e[2]>>) = <<e[1], e[2]>>
    BY DEF EntryAt
  <2> HIDE DEF live
  <2> QED
    BY <2>1, <2>3, <2>4
<1>2. ASSUME NEW k \in LiveKeys(a, clients, tag) PROVE EntryAt(k) \in live
  <2>1. k = <<a, k[2], k[3]>>
    BY KeyShape DEF LiveKeys
  <2>2. <<k[2], k[3]>> \in live
    BY <2>1, LiveEntry
  <2> QED
    BY <2>2 DEF EntryAt
<1> HIDE DEF live
<1>3. live = {EntryAt(k) : k \in LiveKeys(a, clients, tag)}
  BY <1>1, <1>2
<1> QED
  BY <1>3 DEF live

\* The score of a live key.
LEMMA LiveWad ==
  ASSUME BodiesAdmissible, NEW a \in Agents, NEW clients \in SUBSET Addresses,
         NEW tag \in VALID_TAGS \cup {None}, NEW k, k \in LiveKeys(a, clients, tag)
  PROVE  /\ EntryAt(k) \in LiveFeedback(a, clients, Matching(tag))
         /\ At(feedback, k).body \in Admissible
         /\ WadOf(a, EntryAt(k)) = Normalized(At(feedback, k).body)
         /\ WadOf(a, EntryAt(k)) \in Int
<1> DEFINE c == k[2]
           i == k[3]
<1>1. k = <<a, c, i>>
  BY KeyShape DEF LiveKeys
<1>2. EntryAt(k) = <<c, i>>
  BY DEF EntryAt
<1>3. At(feedback, k) = feedback[a][c][i]
  BY <1>1 DEF At
<1> HIDE DEF c, i
<1>4. <<c, i>> \in LiveFeedback(a, clients, Matching(tag))
  BY <1>1, LiveEntry
<1>5. feedback[a][c][i].body \in Admissible
  BY <1>4, LiveEntry
<1>6. WadOf(a, <<c, i>>) = Normalized(feedback[a][c][i].body)
  BY DEF WadOf
<1>7. WadOf(a, <<c, i>>) \in Int
  BY <1>5, <1>6, NormalizedType
<1> QED
  BY <1>2, <1>3, <1>4, <1>5, <1>6, <1>7

\* Keys with the same entry are the same.
LEMMA EntryOnce ==
  ASSUME NEW a, NEW clients, NEW tag, NEW j, NEW k, j \in LiveKeys(a, clients, tag),
         k \in LiveKeys(a, clients, tag), EntryAt(j) = EntryAt(k)
  PROVE  j = k
<1>1. /\ j = <<a, j[2], j[3]>> /\ k = <<a, k[2], k[3]>>
  BY KeyShape DEF LiveKeys
<1>2. j[2] = k[2] /\ j[3] = k[3]
  BY DEF EntryAt
<1> QED
  BY <1>1, <1>2

\* S has an element of[k] for each key of K and no other, with entry p and score g.
EntryMap(K, live, S, of, p, g) ==
    /\ p \in [S -> live]
    /\ \A k \in K : of[k] \in S /\ p[of[k]] = EntryAt(k)
    /\ \A x \in S : \E k \in K : x = of[k]
    /\ g = [x \in S |-> g[x]]
    /\ \A k \in K : g[of[k]] = Normalized(At(feedback, k).body)

\* Whatever has an entry for each live feedback, once, has their number and sum.
LEMMA SameEntries ==
  ASSUME ReputationInv, BodiesAdmissible, NEW a, NEW clients, NEW tag, NEW S, NEW of, NEW p, NEW g,
         a \in Agents, Part(clients, Addresses), tag \in VALID_TAGS \cup {None},
         EntryMap(LiveKeys(a, clients, tag), LiveFeedback(a, clients, Matching(tag)), S, of, p, g),
         NEW live, live = LiveFeedback(a, clients, Matching(tag))
  PROVE  /\ IsFiniteSet(S) /\ IsFiniteSet(live) /\ Cardinality(S) = Cardinality(live)
         /\ Summable(g, S) /\ SumFunction(g) = ExactSum(a, live) /\ ExactSum(a, live) \in Int
<1> DEFINE K == LiveKeys(a, clients, tag)
           h == [e \in live |-> WadOf(a, e)]
<1>0. /\ p \in [S -> live] /\ \A k \in K : of[k] \in S /\ p[of[k]] = EntryAt(k)
      /\ \A x \in S : \E k \in K : x = of[k]
      /\ g = [x \in S |-> g[x]] /\ DOMAIN g = S
      /\ \A k \in K : g[of[k]] = Normalized(At(feedback, k).body)
      /\ clients \in SUBSET Addresses
  BY DEF EntryMap, Part
<1>1. IsFiniteSet(live)
  BY <1>0, LiveFinite
<1>2. ASSUME NEW k \in K
      PROVE  EntryAt(k) \in live /\ WadOf(a, EntryAt(k)) = Normalized(At(feedback, k).body)
             /\ WadOf(a, EntryAt(k)) \in Int
  BY <1>0, LiveWad
<1>3. live = {EntryAt(k) : k \in K}
  BY <1>0, LiveEntries
<1>4. h \in [live -> Int] /\ \A e \in live : h[e] = WadOf(a, e)
  BY <1>2, <1>3
<1> HIDE DEF h
<1>5. \A z \in live : \E x \in S : p[x] = z
  BY <1>0, <1>3
<1>6. ASSUME NEW x \in S, NEW y \in S, p[x] = p[y] PROVE x = y
  <2>1. PICK j \in K : x = of[j]
    BY <1>0
  <2>2. PICK k \in K : y = of[k]
    BY <1>0
  <2>3. EntryAt(j) = EntryAt(k)
    BY <1>0, <1>6, <2>1, <2>2
  <2>4. j = k
    BY <2>3, EntryOnce
  <2> QED
    BY <2>1, <2>2, <2>4
<1>7. ASSUME NEW x \in S PROVE g[x] = h[p[x]]
  <2>1. PICK k \in K : x = of[k]
    BY <1>0
  <2> QED
    BY <1>0, <1>2, <1>4, <2>1
<1>8. DOMAIN g = S
  BY <1>0
<1>9. /\ IsFiniteSet(S) /\ Cardinality(S) = Cardinality(live)
      /\ Summable(g, S) /\ SumFunction(g) = SumFunction(h)
  <2>1. p \in [S -> live] /\ h \in [live -> Int] /\ g = [x \in S |-> g[x]]
    BY <1>0, <1>4
  <2>2. \A x, y \in S : p[x] = p[y] => x = y
    BY <1>6
  <2>3. \A x \in S : g[x] = h[p[x]]
    BY <1>7
  <2> QED
    BY <1>1, <1>5, <1>8, <2>1, <2>2, <2>3, SameTotal
<1>10. SumFunction(h) = ExactSum(a, live)
  BY DEF h, ExactSum
<1>11. SumFunction(g) \in Int
  <2>1. SumFunction(g) = SumOver(g, S)
    BY <1>8, SumFunctionIsFold
  <2>2. Part(S, S)
    BY DEF Part
  <2> QED
    BY <1>9, <2>1, <2>2, SumOverType
<1> QED
  BY <1>1, <1>9, <1>10, <1>11

\* The summary of one client counts its live feedback.
LEMMA SummaryOfOne ==
  ASSUME ReputationInv, BodiesAdmissible, NEW a \in Agents, NEW c \in Addresses,
         NEW tagged \in TagChoices, GetSummary(a, <<c>>, tagged) # None
  PROVE  GetSummary(a, <<c>>, tagged).count = Cardinality(LiveFeedback(a, {c}, tagged))
<1> USE ReputationAssumption, SummaryAssumption
<1> DEFINE s == GetSummary(a, <<c>>, tagged)
           es == Entries(a, <<c>>, tagged)
           live == LiveFeedback(a, {c}, tagged)
           p == [e \in es |-> <<c, e[2]>>]
<1>1. <<c>> \in ClientLists
  <2>1. <<c>> \in [1 .. 1 -> Addresses] /\ 1 \in 1 .. MAX_SUMMARY_CLIENTS + 1
    OBVIOUS
  <2> QED
    BY <2>1 DEF ClientLists
<1>2. s.count = Cardinality(es)
  <2>1. es = Entries(a, <<c>>, tagged) /\ s = GetSummary(a, <<c>>, tagged) /\ s # None
    OBVIOUS
  <2> HIDE DEF es, s
  <2>2. IsAverage(s, es, EntrySum(a, <<c>>, es))
    BY <1>1, <2>1, SummaryAverages
  <2> QED
    BY <2>2 DEF IsAverage
<1>3. \A e : e \in es <=> \E i \in Indexes : e = <<1, i>> /\ <<c, i>> \in live
  <2>1. DOMAIN <<c>> \cap 1 .. MAX_SUMMARY_CLIENTS = {1} /\ <<c>>[1] = c
    OBVIOUS
  <2>2. es = {e \in {1} \X Indexes : <<<<c>>[e[1]], e[2]>> \in LiveFeedback(a, Addresses, tagged)}
    BY <2>1 DEF Entries
  <2>3. \A i \in Indexes : <<c, i>> \in LiveFeedback(a, Addresses, tagged) <=> <<c, i>> \in live
    BY DEF LiveFeedback
  <2>4. ASSUME NEW e \in es PROVE \E i \in Indexes : e = <<1, i>> /\ <<c, i>> \in live
    <3>1. /\ e \in {1} \X Indexes
          /\ <<<<c>>[e[1]], e[2]>> \in LiveFeedback(a, Addresses, tagged)
      BY <2>2
    <3>2. e = <<1, e[2]>> /\ e[2] \in Indexes /\ <<c>>[e[1]] = c
      BY <2>1, <3>1
    <3> HIDE DEF live, es
    <3> QED
      BY <2>3, <3>1, <3>2
  <2>5. ASSUME NEW i \in Indexes, <<c, i>> \in live PROVE <<1, i>> \in es
    <3>1. <<1, i>> \in {1} \X Indexes /\ <<1, i>>[1] = 1 /\ <<1, i>>[2] = i
      OBVIOUS
    <3>2. <<<<c>>[<<1, i>>[1]], <<1, i>>[2]>> = <<c, i>>
      BY <2>1, <3>1
    <3> HIDE DEF live, es
    <3> QED
      BY <2>2, <2>3, <2>5, <3>1, <3>2
  <2> HIDE DEF es, live
  <2> QED
    BY <2>4, <2>5
<1>4. IsFiniteSet(live) /\ \A e \in live : \E i \in Indexes : e = <<c, i>>
  <2>1. {c} \in SUBSET Addresses
    OBVIOUS
  <2>2. IsFiniteSet(live)
    BY <2>1, LiveFinite
  <2> QED
    BY <2>2 DEF LiveFeedback
<1> HIDE DEF es, live, s
<1>5. p \in Injection(es, live) /\ p \in Surjection(es, live)
  <2>0. \A e \in es : e = <<1, e[2]>> /\ <<c, e[2]>> \in live
    <3> SUFFICES ASSUME NEW e \in es PROVE e = <<1, e[2]>> /\ <<c, e[2]>> \in live
      OBVIOUS
    <3>1. PICK i \in Indexes : e = <<1, i>> /\ <<c, i>> \in live
      BY <1>3
    <3>2. e[2] = i
      BY <3>1
    <3> QED
      BY <3>1, <3>2
  <2>1. p \in [es -> live]
    BY <2>0
  <2>2. \A x, y \in es : p[x] = p[y] => x = y
    <3> SUFFICES ASSUME NEW x \in es, NEW y \in es, p[x] = p[y] PROVE x = y
      OBVIOUS
    <3>1. <<c, x[2]>> = <<c, y[2]>>
      OBVIOUS
    <3>2. x[2] = y[2]
      BY <3>1
    <3> QED
      BY <2>0, <3>2
  <2>3. \A z \in live : \E x \in es : p[x] = z
    <3> SUFFICES ASSUME NEW z \in live PROVE \E x \in es : p[x] = z
      OBVIOUS
    <3>1. PICK i \in Indexes : z = <<c, i>>
      BY <1>4
    <3>2. <<1, i>> \in es
      BY <1>3, <3>1
    <3>3. p[<<1, i>>] = z
      BY <3>1, <3>2
    <3> QED
      BY <3>2, <3>3
  <2> HIDE DEF p
  <2> QED
    BY <2>1, <2>2, <2>3 DEF Injection, Surjection, IsInjective
<1>6. Cardinality(es) = Cardinality(live)
  BY <1>4, <1>5, FS_Injection
<1> QED
  BY <1>2, <1>6 DEF s, live

\* The rows of the live feedback of some clients, and their values.
LiveRowsOf(a, clients, tag) ==
    {r \in FeedbackRows(Tables, a, tag) : ~r.is_revoked /\ r.key[2] \in clients}
ScoresOf(fb) == [r \in fb |-> Scaled(r)]
EntryOf(r) == <<r.key[2], r.key[3]>>
EntriesIn(rows) == {EntryOf(r) : r \in rows}

\* They are those of the live feedback, once each.
LEMMA LiveRows ==
  ASSUME ReputationInv, BodiesAdmissible, NEW a \in Agents, NEW clients, NEW tag,
         Part(clients, Addresses), tag \in VALID_TAGS \cup {None},
         NEW live, live = LiveFeedback(a, clients, Matching(tag)),
         NEW fb, fb = LiveRowsOf(a, clients, tag), NEW g, g = ScoresOf(fb)
  PROVE  /\ IsFiniteSet(fb) /\ IsFiniteSet(live) /\ Cardinality(fb) = Cardinality(live)
         /\ EntriesIn(fb) = live
         /\ Summable(g, fb) /\ SumFunction(g) = ExactSum(a, live) /\ ExactSum(a, live) \in Int
         /\ \A r \in fb : \E b \in Admissible : r.value = ValueOf[b] /\ r.value_decimals = DecimalsOf[b]
<1> DEFINE K == LiveKeys(a, clients, tag)
           of == [k \in K |-> RowAt(k)]
           p == [r \in fb |-> EntryOf(r)]
<1> USE DEF ScoresOf
<1>0. clients \in SUBSET Addresses
  BY DEF Part
<1>1. fb = {RowAt(k) : k \in K}
  <2>1. FeedbackRows(Tables, a, tag) = {RowAt(k) : k \in KeysOf(a, tag)}
    BY RowsOfKeys
  <2>2. \A k : RowAt(k).key = k /\ RowAt(k).is_revoked = At(feedback, k).is_revoked
    BY RowFields
  <2>3. ASSUME NEW r \in fb PROVE \E k \in K : r = RowAt(k)
    <3>1. r \in FeedbackRows(Tables, a, tag) /\ ~r.is_revoked /\ r.key[2] \in clients
      BY Zenon DEF LiveRowsOf
    <3>2. PICK k \in KeysOf(a, tag) : r = RowAt(k)
      BY <2>1, <3>1
    <3>3. ~At(feedback, k).is_revoked /\ k[2] \in clients
      BY <2>2, <3>1, <3>2
    <3> QED
      BY <3>2, <3>3 DEF LiveKeys
  <2>4. ASSUME NEW k \in K PROVE RowAt(k) \in fb
    <3>1. k \in KeysOf(a, tag) /\ k[2] \in clients /\ ~At(feedback, k).is_revoked
      BY DEF LiveKeys
    <3>2. RowAt(k) \in FeedbackRows(Tables, a, tag)
      BY <2>1, <3>1
    <3>3. ~RowAt(k).is_revoked /\ RowAt(k).key[2] \in clients
      BY <2>2, <3>1
    <3> QED
      BY <3>2, <3>3, Zenon DEF LiveRowsOf
  <2> HIDE DEF K
  <2> QED
    BY <2>3, <2>4
<1>2. live = {EntryAt(k) : k \in K}
  BY <1>0, LiveEntries
<1>3. \A k \in K : of[k] = RowAt(k) /\ of[k] \in fb
  <2> HIDE DEF K
  <2> QED
    BY <1>1
<1>4. \A r \in fb : \E k \in K : r = of[k]
  <2> HIDE DEF K
  <2> QED
    BY <1>1, <1>3
<1> HIDE DEF of
<1>5. \A k : EntryOf(RowAt(k)) = EntryAt(k)
  BY RowFields DEF EntryOf, EntryAt
<1>6. \A k \in K : p[of[k]] = EntryAt(k) /\ g[of[k]] = Normalized(At(feedback, k).body)
  <2> HIDE DEF K
  <2> QED
    BY <1>3, <1>5, RowFields
<1>7. EntriesIn(fb) = live
  <2> HIDE DEF K
  <2> QED
    BY <1>1, <1>2, <1>5 DEF EntriesIn
<1>8. p \in [fb -> live]
  BY <1>7 DEF EntriesIn
<1>9. g = [r \in fb |-> g[r]] /\ K = LiveKeys(a, clients, tag)
  OBVIOUS
<1> HIDE DEF K, p
<1>10. EntryMap(K, live, fb, of, p, g)
  BY <1>3, <1>4, <1>6, <1>8, <1>9 DEF EntryMap
<1>11. /\ IsFiniteSet(fb) /\ IsFiniteSet(live) /\ Cardinality(fb) = Cardinality(live)
       /\ Summable(g, fb) /\ SumFunction(g) = ExactSum(a, live) /\ ExactSum(a, live) \in Int
  BY <1>9, <1>10, SameEntries
<1>12. ASSUME NEW r \in fb
       PROVE  \E b \in Admissible : r.value = ValueOf[b] /\ r.value_decimals = DecimalsOf[b]
  <2>1. PICK k \in K : r = RowAt(k)
    BY <1>1
  <2>2. At(feedback, k).body \in Admissible
    BY <1>0, <1>9, <2>1, LiveWad
  <2> QED
    BY <2>1, <2>2, RowFields
<1> QED
  BY <1>7, <1>11, <1>12

-----------------------------------------------------------------------------
(* The leaderboard *)

\* The rows the leaderboard counts, and the live feedback of everyone else.
ScoredRows(a, owner) ==
    {r \in FeedbackRows(Tables, a, None) : ~r.is_revoked /\ r.key[2] # owner}
Others(owner) == Addresses \ {owner}
LiveOfOthers(a, owner) == LiveFeedback(a, Addresses \ {owner}, Admissible)

\* The first are the rows of the second.
LEMMA ScoredAreLive ==
  ASSUME NEW a, NEW owner
  PROVE  ScoredRows(a, owner) = LiveRowsOf(a, Others(owner), None)
<1>1. ASSUME NEW r \in FeedbackRows(Tables, a, None) PROVE r.key[2] \in Addresses
  <2>1. PICK k \in KeysOf(a, None) : r = RowAt(k)
    BY RowsOfKeys
  <2> QED
    BY <2>1, RowFields, KeyShape
<1> QED
  BY <1>1 DEF ScoredRows, LiveRowsOf, Others

\* The score of an agent is the average of that feedback to the nearest hundredth.
LEMMA LeaderboardLive ==
  ASSUME ReputationInv, BodiesAdmissible, NEW a \in Agents, NEW owner, NEW score,
         score = LeaderboardScores(Tables, a, owner),
         NEW live, live = LiveOfOthers(a, owner),
         NEW unit, unit = Cardinality(live) * Pow10(WAD - 2)
  PROVE  /\ score.feedback_count = Cardinality(live)
         /\ score.score_exact => 2 * Abs(score.total_score * unit - ExactSum(a, live)) <= unit
<1> USE ReputationAssumption, SummaryAssumption
<1> DEFINE fb == ScoredRows(a, owner)
           D == {r.value_decimals : r \in fb} \cup {2}
           k == Max(D)
           n == Cardinality(fb)
           h == [r \in fb |-> r.value * Pow10(k - r.value_decimals)]
           g == [r \in fb |-> Scaled(r)]
           exact == /\ k <= ExactDecimals /\ n <= ExactCount
                    /\ \A r \in fb : Abs(r.value) < Pow10(ExactDigits + r.value_decimals)
           s == SumFunction(h)
           m == n * Pow10(k - 2)
           u == Pow10(WAD - k)
           t == IF fb = {} THEN 0 ELSE (IF s < 0 THEN -1 ELSE 1) * ((2 * Abs(s) + m) \div (2 * m))
<1>1. score.feedback_count = n /\ (score.score_exact => score.total_score = t)
  <2>1. score = [feedback_count |-> n, unique_clients |-> Cardinality({r.key[2] : r \in fb}),
                 score_exact |-> fb = {} \/ exact,
                 total_score |-> IF fb = {} THEN 0 ELSE IF exact
                   THEN (IF s < 0 THEN -1 ELSE 1) * ((2 * Abs(s) + m) \div (2 * m)) ELSE None]
    BY Zenon DEF LeaderboardScores, ScoredRows
  <2>2. fb # {} => t = (IF s < 0 THEN -1 ELSE 1) * ((2 * Abs(s) + m) \div (2 * m))
    OBVIOUS
  <2>3. fb = {} => t = 0
    OBVIOUS
  <2> DEFINE w == (IF s < 0 THEN -1 ELSE 1) * ((2 * Abs(s) + m) \div (2 * m))
             y == Cardinality({r.key[2] : r \in fb})
             x == fb = {} \/ exact
             z == IF fb = {} THEN 0 ELSE IF exact THEN w ELSE None
  <2>4. score = [feedback_count |-> n, unique_clients |-> y, score_exact |-> x, total_score |-> z]
    BY <2>1
  <2>5. x => z = t
    <3> HIDE DEF n, t, fb, exact, s, m, w
    <3> QED
      BY <2>2, <2>3 DEF w
  <2> HIDE DEF n, x, y, z, t
  <2>6. score.feedback_count = n /\ (score.score_exact <=> x) /\ score.total_score = z
    BY <2>4
  <2> QED
    BY <2>5, <2>6
<1> HIDE DEF exact
<1>2. /\ IsFiniteSet(fb) /\ n = Cardinality(live)
      /\ Summable(g, fb) /\ SumFunction(g) = ExactSum(a, live) /\ ExactSum(a, live) \in Int
      /\ \A r \in fb : \E b \in Admissible : r.value = ValueOf[b] /\ r.value_decimals = DecimalsOf[b]
  <2>1. g = ScoresOf(fb) /\ fb = ScoredRows(a, owner)
    BY DEF ScoresOf
  <2> HIDE DEF g, fb
  <2>2. live = LiveFeedback(a, Others(owner), Matching(None)) /\ Part(Others(owner), Addresses)
    BY DEF LiveOfOthers, Others, Matching, Part
  <2>3. fb = LiveRowsOf(a, Others(owner), None) /\ None \in VALID_TAGS \cup {None}
    BY <2>1, ScoredAreLive
  <2> QED
    BY <2>1, <2>2, <2>3, LiveRows
<1> HIDE DEF fb
<1>3. \A r \in fb : r.value \in Int /\ r.value_decimals \in Nat /\ r.value_decimals <= WAD
  BY <1>2
<1>4. /\ k \in Nat /\ 2 <= k /\ k <= WAD /\ \A r \in fb : r.value_decimals <= k
  <2>1. D \subseteq 0 .. WAD /\ D # {} /\ 2 \in D /\ \A r \in fb : r.value_decimals \in D
    BY <1>3
  <2> HIDE DEF D
  <2>2. k \in D /\ \A y \in D : y <= k
    BY <2>1, MaxBounded
  <2> HIDE DEF k
  <2>3. k \in 0 .. WAD /\ 2 <= k /\ \A r \in fb : r.value_decimals <= k
    BY <2>1, <2>2
  <2> QED
    BY <2>3
<1> HIDE DEF k
<1>5. /\ k - 2 \in Nat /\ WAD - k \in Nat /\ WAD - 2 = (k - 2) + (WAD - k)
      /\ u \in Nat /\ u # 0 /\ Pow10(k - 2) \in Nat /\ Pow10(k - 2) # 0
      /\ Pow10(WAD - 2) = Pow10(k - 2) * u
  <2>1. k - 2 \in Nat /\ WAD - k \in Nat /\ WAD - 2 = (k - 2) + (WAD - k)
    BY <1>4
  <2>2. u \in Nat /\ u # 0 /\ Pow10(k - 2) \in Nat /\ Pow10(k - 2) # 0
    BY <2>1, Pow10Unfolds
  <2>3. Pow10((k - 2) + (WAD - k)) = Pow10(k - 2) * u
    BY <2>1, Pow10Adds
  <2> QED
    BY <2>1, <2>2, <2>3
<1>6. ASSUME NEW r \in fb
      PROVE  /\ r.value * Pow10(k - r.value_decimals) \in Int
             /\ Scaled(r) = (r.value * Pow10(k - r.value_decimals)) * u
  <2> DEFINE d == r.value_decimals
             v == r.value
  <2>1. v \in Int /\ k - d \in Nat /\ WAD - d = (k - d) + (WAD - k)
    BY <1>3, <1>4
  <2>2. Pow10((k - d) + (WAD - k)) = Pow10(k - d) * u
    BY <1>5, <2>1, Pow10Adds
  <2>3. Pow10(k - d) \in Nat
    BY <2>1, Pow10Unfolds
  <2>4. Scaled(r) = v * Pow10(WAD - d)
    BY DEF Scaled
  <2> HIDE DEF d, v, u
  <2>5. v * (Pow10(k - d) * u) = (v * Pow10(k - d)) * u /\ v * Pow10(k - d) \in Int
    BY <1>5, <2>1, <2>3
  <2>6. Scaled(r) = (v * Pow10(k - d)) * u
    BY <2>1, <2>2, <2>4, <2>5
  <2> QED
    BY <2>5, <2>6 DEF d, v
<1>7. Summable(h, fb) /\ \A r \in fb : g[r] = h[r] * u
  BY <1>2, <1>6 DEF Summable
<1>8. SumFunction(g) = s * u /\ s \in Int
  <2>1. DOMAIN g = fb /\ DOMAIN h = fb /\ Part(fb, fb) /\ u \in Int
    BY <1>5 DEF Part
  <2> HIDE DEF g, h, u
  <2>2. SumFunction(g) = SumOver(g, fb) /\ s = SumOver(h, fb)
    BY <2>1, SumFunctionIsFold
  <2>3. SumOver(g, fb) = SumOver(h, fb) * u
    BY <1>2, <1>7, <2>1, SumOverScaled
  <2>4. SumOver(h, fb) \in Int
    BY <1>7, <2>1, SumOverType
  <2> QED
    BY <2>2, <2>3, <2>4
<1>9. n \in Nat /\ (n = 0 <=> fb = {})
  BY <1>2, FS_CardinalityType, FS_EmptySet
<1> HIDE DEF n, u, g
<1>10. m \in Nat /\ (m = 0 <=> n = 0) /\ unit = m * u
  <2> DEFINE w == Pow10(k - 2)
  <2>1. w \in Nat /\ w # 0 /\ unit = n * (w * u)
    BY <1>2, <1>5
  <2> HIDE DEF w
  <2>2. n * (w * u) = (n * w) * u /\ n * w \in Nat /\ (n * w = 0 <=> n = 0)
    BY <1>5, <1>9, <2>1
  <2> QED
    BY <2>1, <2>2 DEF w
<1>11. fb = {} => s = 0
  <2> SUFFICES ASSUME fb = {} PROVE s = 0
    OBVIOUS
  <2>1. DOMAIN h = fb /\ Part(fb, fb)
    BY DEF Part
  <2> HIDE DEF h
  <2>2. s = SumOver(h, fb)
    BY <2>1, SumFunctionIsFold
  <2> QED
    BY <1>7, <2>1, <2>2, SumOverUnfolds
<1> HIDE DEF s, m
<1>12. t \in Int /\ 2 * Abs(t * m - s) <= m
  <2>1. CASE fb = {}
    BY <2>1, <1>9, <1>10, <1>11 DEF Abs
  <2>2. CASE fb # {}
    <3>1. t = (IF s < 0 THEN -1 ELSE 1) * ((2 * Abs(s) + m) \div (2 * m)) /\ m # 0
      BY <2>2, <1>9, <1>10
    <3> HIDE DEF t
    <3> QED
      BY <3>1, <1>8, <1>10, NearestRounds
  <2> QED
    BY <2>1, <2>2
<1> HIDE DEF t
<1>13. 2 * Abs(t * (m * u) - s * u) <= m * u
  BY <1>5, <1>8, <1>10, <1>12, ScaledBound
<1> QED
  BY <1>1, <1>2, <1>8, <1>10, <1>13

-----------------------------------------------------------------------------
(* The clients of the page *)

\* Rows a page may have, and all of them when they fit.
LEMMA NewestRows ==
  ASSUME NEW rows, NEW limit, NEW offset, NEW S, S \in Newest(rows, limit, offset)
  PROVE  /\ S \subseteq rows
         /\ offset = 0 /\ Cardinality(rows) <= limit => S = rows
         /\ offset = 0 /\ Cardinality(rows) \in Nat /\ limit \in Nat /\ S # rows => Cardinality(S) = limit
<1>1. CASE offset = 0 /\ Cardinality(rows) <= limit
  BY <1>1 DEF Newest
<1>2. CASE ~(offset = 0 /\ Cardinality(rows) <= limit)
  <2> DEFINE left == Cardinality(rows) - offset
  <2>1. S \in {Z \in SUBSET rows : Cardinality(Z) = IF left < limit THEN Max({left, 0}) ELSE limit}
    BY <1>2 DEF Newest
  <2>2. S \subseteq rows /\ Cardinality(S) = IF left < limit THEN Max({left, 0}) ELSE limit
    BY <2>1
  <2>3. offset = 0 /\ Cardinality(rows) \in Nat /\ limit \in Nat => ~(left < limit)
    BY <1>2
  <2> HIDE DEF left
  <2> QED
    BY <1>2, <2>2, <2>3
<1> QED
  BY <1>1, <1>2

\* The rows of a client that are not revoked.
ClientRows(rows, c) == {r \in rows : ~r.is_revoked /\ r.key[2] = c}
ClientsIn(rows) == {r.key[2] : r \in {q \in rows : ~q.is_revoked}}

\* They are live feedback, all of it if no row of the agent was left out.
LEMMA ClientRowsLive ==
  ASSUME ReputationInv, BodiesAdmissible, NEW a \in Agents, NEW c \in Addresses, NEW tag, NEW rows,
         tag \in VALID_TAGS \cup {None}, Part(rows, FeedbackRows(Tables, a, tag)),
         NEW live, live = LiveFeedback(a, {c}, Matching(tag))
  PROVE  /\ IsFiniteSet(live) /\ EntriesIn(ClientRows(rows, c)) \subseteq live
         /\ Cardinality(ClientRows(rows, c)) \in Nat /\ Cardinality(live) \in Nat
         /\ Cardinality(ClientRows(rows, c)) <= Cardinality(live)
         /\ rows = FeedbackRows(Tables, a, tag) =>
               /\ EntriesIn(ClientRows(rows, c)) = live
               /\ Cardinality(ClientRows(rows, c)) = Cardinality(live)
<1> DEFINE fb == LiveRowsOf(a, {c}, tag)
           cr == ClientRows(rows, c)
<1>1. Part({c}, Addresses) /\ fb = LiveRowsOf(a, {c}, tag)
  BY DEF Part
<1>2. cr \subseteq fb /\ (rows = FeedbackRows(Tables, a, tag) => cr = fb)
  BY DEF ClientRows, LiveRowsOf, Part
<1>3. /\ IsFiniteSet(fb) /\ IsFiniteSet(live) /\ Cardinality(fb) = Cardinality(live)
      /\ EntriesIn(fb) = live
  <2> DEFINE g == ScoresOf(fb)
  <2>1. g = ScoresOf(fb)
    OBVIOUS
  <2> HIDE DEF fb, g
  <2> QED
    BY <1>1, <2>1, LiveRows
<1> HIDE DEF fb, cr
<1>4. IsFiniteSet(cr) /\ Cardinality(cr) <= Cardinality(fb)
  BY <1>2, <1>3, FS_Subset
<1>5. Cardinality(cr) \in Nat /\ Cardinality(live) \in Nat
  BY <1>3, <1>4, FS_CardinalityType
<1>6. EntriesIn(cr) \subseteq live /\ (cr = fb => EntriesIn(cr) = live)
  BY <1>2, <1>3 DEF EntriesIn
<1>7. /\ IsFiniteSet(live) /\ EntriesIn(cr) \subseteq live
      /\ Cardinality(cr) \in Nat /\ Cardinality(live) \in Nat
      /\ Cardinality(cr) <= Cardinality(live)
      /\ rows = FeedbackRows(Tables, a, tag) => EntriesIn(cr) = live /\ Cardinality(cr) = Cardinality(live)
  BY <1>2, <1>3, <1>4, <1>5, <1>6
<1> QED
  BY <1>7, Zenon DEF cr

\* An agent has finitely many clients with such rows.
LEMMA ClientsFinite ==
  ASSUME ReputationInv, BodiesAdmissible, NEW a \in Agents, NEW tag \in VALID_TAGS \cup {None}
  PROVE  IsFiniteSet(ClientsIn(FeedbackRows(Tables, a, tag)))
<1> DEFINE rows == FeedbackRows(Tables, a, tag)
           fb == LiveRowsOf(a, Addresses, tag)
           p == [r \in fb |-> r.key[2]]
<1>1. Part(Addresses, Addresses) /\ fb = LiveRowsOf(a, Addresses, tag)
  BY DEF Part
<1>2. IsFiniteSet(fb)
  <2> HIDE DEF fb
  <2> QED
    BY <1>1, LiveRows
<1>3. ASSUME NEW r \in rows PROVE r.key[2] \in Addresses
  <2>1. PICK k \in KeysOf(a, tag) : r = RowAt(k)
    BY RowsOfKeys
  <2> QED
    BY <2>1, RowFields, KeyShape
<1>4. fb = {q \in rows : ~q.is_revoked}
  BY <1>3 DEF LiveRowsOf
<1>5. ClientsIn(rows) = {r.key[2] : r \in fb}
  BY <1>4 DEF ClientsIn
<1> HIDE DEF rows, fb
<1>6. p \in Surjection(fb, ClientsIn(rows))
  BY <1>5 DEF Surjection
<1> HIDE DEF p
<1>7. IsFiniteSet(ClientsIn(rows))
  BY <1>2, <1>6, FS_Surjection
<1> QED
  BY <1>7 DEF rows

\* What the page shows of its clients.
LEMMA Breakdown ==
  ASSUME NEW rows, NEW shown, shown \in ClientBreakdown(rows)
  PROVE  \E S \in Newest(ClientsIn(rows), PAGE_CLIENTS, 0) :
            /\ DOMAIN shown = S
            /\ \A c \in S : /\ shown[c].feedbackCount = Cardinality(ClientRows(rows, c))
                            /\ shown[c].scored = EntriesIn(ClientRows(rows, c))
            /\ \A c \in S, d \in ClientsIn(rows) \ S :
                  Cardinality(ClientRows(rows, d)) <= Cardinality(ClientRows(rows, c))
<1> DEFINE map == ClientMap(rows)
           entry(c) == [feedbackCount |-> Cardinality(ClientRows(rows, c)),
                        scored |-> EntriesIn(ClientRows(rows, c))]
<1>1. \A c : ClientRows(rows, c) = {r \in {q \in rows : ~q.is_revoked} : r.key[2] = c}
  BY DEF ClientRows
<1>2. map = [c \in ClientsIn(rows) |-> entry(c)]
  <2> DEFINE live == {q \in rows : ~q.is_revoked}
             of(c) == {r \in live : r.key[2] = c}
  <2>1. map = [c \in {r.key[2] : r \in live} |->
                 [feedbackCount |-> Cardinality(of(c)), scored |-> {<<r.key[2], r.key[3]>> : r \in of(c)}]]
    BY Zenon DEF ClientMap
  <2>2. \A c : of(c) = ClientRows(rows, c)
    BY <1>1
  <2>3. {r.key[2] : r \in live} = ClientsIn(rows)
    BY DEF ClientsIn
  <2>4. \A c : EntriesIn(ClientRows(rows, c)) = {<<r.key[2], r.key[3]>> : r \in ClientRows(rows, c)}
    BY DEF EntriesIn, EntryOf
  <2> HIDE DEF map, live, of
  <2> QED
    BY <2>1, <2>2, <2>3, <2>4
<1>3. DOMAIN map = ClientsIn(rows)
      /\ \A c \in ClientsIn(rows) : /\ map[c].feedbackCount = Cardinality(ClientRows(rows, c))
                                    /\ map[c].scored = EntriesIn(ClientRows(rows, c))
  <2> HIDE DEF map
  <2> QED
    BY <1>2
<1>4. shown \in {[c \in S |-> map[c]] :
                    S \in {Z \in Newest(DOMAIN map, PAGE_CLIENTS, 0) :
                             \A c \in Z, d \in DOMAIN map \ Z : map[d].feedbackCount <= map[c].feedbackCount}}
  BY Zenon DEF ClientBreakdown
<1> HIDE DEF map
<1>5. PICK S \in Newest(DOMAIN map, PAGE_CLIENTS, 0) :
         /\ \A c \in S, d \in DOMAIN map \ S : map[d].feedbackCount <= map[c].feedbackCount
         /\ shown = [c \in S |-> map[c]]
  BY <1>4
<1>6. S \subseteq ClientsIn(rows)
  BY <1>3, <1>5, NewestRows
<1>7. DOMAIN shown = S /\ \A c \in S : shown[c] = map[c]
  BY <1>5
<1> QED
  BY <1>3, <1>5, <1>6, <1>7

\* The clients of the page agree with get_summary.
LEMMA ClientsOfPage ==
  ASSUME ReputationInv, BodiesAdmissible, NEW a \in Agents, NEW tag \in VALID_TAGS \cup {None},
         NEW rows \in PageRows(Tables, a, tag)
  PROVE  ClientsAgree(a, tag, rows, Cardinality(FeedbackRows(Tables, a, tag)) <= PAGE_FEEDBACK)
<1> DEFINE tagged == Matching(tag)
           all == Cardinality(FeedbackRows(Tables, a, tag)) <= PAGE_FEEDBACK
<1>1. Part(rows, FeedbackRows(Tables, a, tag)) /\ (all => rows = FeedbackRows(Tables, a, tag))
  BY NewestRows DEF PageRows, Part
<1> HIDE DEF all
<1> SUFFICES ASSUME NEW shown \in ClientBreakdown(rows), NEW c \in Addresses
             PROVE  LET live == LiveFeedback(a, {c}, tagged)
                        summary == GetSummary(a, <<c>>, tagged)
                    IN IF c \in DOMAIN shown
                       THEN /\ shown[c].scored \subseteq live
                            /\ all => shown[c].scored = live
                            /\ summary # None =>
                                  /\ shown[c].feedbackCount <= summary.count
                                  /\ all => shown[c].feedbackCount = summary.count
                       ELSE all /\ live # {} =>
                               /\ Cardinality(DOMAIN shown) = PAGE_CLIENTS
                               /\ \A d \in DOMAIN shown : Cardinality(live) <= shown[d].feedbackCount
  BY Zenon DEF ClientsAgree, all
<1> DEFINE live == LiveFeedback(a, {c}, tagged)
           summary == GetSummary(a, <<c>>, tagged)
<1>2. PICK S \in Newest(ClientsIn(rows), PAGE_CLIENTS, 0) :
         /\ DOMAIN shown = S
         /\ \A d \in S : /\ shown[d].feedbackCount = Cardinality(ClientRows(rows, d))
                         /\ shown[d].scored = EntriesIn(ClientRows(rows, d))
         /\ \A d \in S, e \in ClientsIn(rows) \ S :
               Cardinality(ClientRows(rows, e)) <= Cardinality(ClientRows(rows, d))
  BY Breakdown
<1>3. S \subseteq ClientsIn(rows)
  BY NewestRows
<1>4. /\ IsFiniteSet(live) /\ EntriesIn(ClientRows(rows, c)) \subseteq live
      /\ Cardinality(ClientRows(rows, c)) \in Nat /\ Cardinality(live) \in Nat
      /\ Cardinality(ClientRows(rows, c)) <= Cardinality(live)
      /\ all => /\ EntriesIn(ClientRows(rows, c)) = live
                /\ Cardinality(ClientRows(rows, c)) = Cardinality(live)
  <2>1. live = LiveFeedback(a, {c}, Matching(tag))
    OBVIOUS
  <2> HIDE DEF live
  <2> QED
    BY <1>1, <2>1, ClientRowsLive
<1>5. live # {} /\ summary # None => summary.count = Cardinality(live)
  <2>1. live # {} => tagged \in TagChoices
    <3>1. tagged \subseteq Admissible
      BY WireAssumption DEF Matching
    <3>2. live # {} => tagged # {}
      BY DEF LiveFeedback
    <3> QED
      BY <3>1, <3>2 DEF TagChoices
  <2> QED
    BY <2>1, SummaryOfOne
<1>6. c \in ClientsIn(rows) <=> EntriesIn(ClientRows(rows, c)) # {}
  BY DEF ClientsIn, ClientRows, EntriesIn
<1> HIDE DEF live, summary
<1>7. CASE c \in S
  <2>1. live # {}
    BY <1>3, <1>4, <1>6, <1>7
  <2>2. summary # None => summary.count = Cardinality(live)
    BY <1>5, <2>1
  <2>3. /\ shown[c].scored \subseteq live /\ (all => shown[c].scored = live)
        /\ shown[c].feedbackCount <= Cardinality(live)
        /\ all => shown[c].feedbackCount = Cardinality(live)
    BY <1>2, <1>4, <1>7
  <2>4. /\ shown[c].scored \subseteq live
        /\ all => shown[c].scored = live
        /\ summary # None => /\ shown[c].feedbackCount <= summary.count
                             /\ all => shown[c].feedbackCount = summary.count
    BY <2>2, <2>3
  <2> QED
    BY <1>2, <1>7, <2>4, Zenon DEF live, summary
<1>8. CASE c \notin S
  <2>1. ASSUME all, live # {}
        PROVE  /\ Cardinality(DOMAIN shown) = PAGE_CLIENTS
               /\ \A d \in DOMAIN shown : Cardinality(live) <= shown[d].feedbackCount
    <3>1. c \in ClientsIn(rows) /\ S # ClientsIn(rows)
      BY <1>4, <1>6, <1>8, <2>1
    <3>2. Cardinality(ClientsIn(rows)) \in Nat
      BY <1>1, <2>1, ClientsFinite, FS_CardinalityType
    <3>3. Cardinality(S) = PAGE_CLIENTS
      BY <3>1, <3>2, PageAssumption, NewestRows
    <3> QED
      BY <1>2, <1>4, <1>8, <2>1, <3>1, <3>3
  <2> QED
    BY <1>2, <1>8, <2>1, Zenon DEF live
<1> QED
  BY <1>7, <1>8

-----------------------------------------------------------------------------
(* The cards of the page and the items of the API *)

\* A row is a feedback of the agent.
LEMMA RowAgrees ==
  ASSUME NEW a, NEW tag, NEW r, r \in FeedbackRows(Tables, a, tag)
  PROVE  /\ r.key \in GivenIn(feedback) /\ r.key = <<a, r.key[2], r.key[3]>>
         /\ At(response_count, r.key) = response_count[a][r.key[2]][r.key[3]]
         /\ FeedbackAgrees(a, r.key[2], r.key[3], r.is_revoked, NumberOf(r.value), r.value_decimals)
<1>1. PICK k \in KeysOf(a, tag) : r = RowAt(k)
  BY RowsOfKeys
<1>2. /\ r.key = k /\ r.value = ValueOf[At(feedback, k).body]
      /\ r.value_decimals = DecimalsOf[At(feedback, k).body]
      /\ r.is_revoked = At(feedback, k).is_revoked
  BY <1>1, RowFields
<1>3. /\ k = <<a, k[2], k[3]>> /\ k[2] \in Addresses /\ k[3] \in Indexes
  BY KeyShape
<1>4. k \in GivenIn(feedback) /\ At(feedback, k).body # None
  BY DEF KeysOf, GivenIn
<1>5. At(feedback, k) = feedback[a][k[2]][k[3]] /\ At(response_count, k) = response_count[a][k[2]][k[3]]
  BY <1>3 DEF At
<1> QED
  BY <1>2, <1>3, <1>4, <1>5 DEF FeedbackAgrees, HasFeedback

\* An agent has finitely many rows.
LEMMA RowsFinite ==
  ASSUME ReputationInv, NEW a \in Agents, NEW tag
  PROVE  IsFiniteSet(FeedbackRows(Tables, a, tag))
<1> USE ReputationAssumption
<1> DEFINE L == {client_at[a][s] : s \in Slots}
           E == {e \in L \X Indexes : <<a, e[1], e[2]>> \in KeysOf(a, tag)}
           p == [e \in E |-> RowAt(<<a, e[1], e[2]>>)]
           rows == FeedbackRows(Tables, a, tag)
<1>1. IsFiniteSet(L) /\ \A c \in Addresses, i \in Indexes : HasFeedback(a, c, i) => c \in L
  BY ClientsListed
<1>2. IsFiniteSet(Indexes)
  BY FS_Interval DEF Indexes
<1> HIDE DEF L
<1>3. IsFiniteSet(E)
  <2>1. IsFiniteSet(L \X Indexes)
    BY <1>1, <1>2, FS_Product
  <2> QED
    BY <2>1, FS_Subset
<1>4. rows = {RowAt(k) : k \in KeysOf(a, tag)}
  BY RowsOfKeys
<1> HIDE DEF rows
<1>5. ASSUME NEW r \in rows PROVE \E e \in E : p[e] = r
  <2>1. PICK k \in KeysOf(a, tag) : r = RowAt(k)
    BY <1>4
  <2>2. k = <<a, k[2], k[3]>> /\ k[2] \in Addresses /\ k[3] \in Indexes
    BY KeyShape
  <2>3. HasFeedback(a, k[2], k[3])
    <3>1. At(feedback, k).body # None
      BY DEF KeysOf, GivenIn
    <3>2. At(feedback, k) = feedback[a][k[2]][k[3]]
      BY <2>2 DEF At
    <3> QED
      BY <3>1, <3>2 DEF HasFeedback
  <2>4. <<k[2], k[3]>> \in L \X Indexes /\ <<k[2], k[3]>>[1] = k[2] /\ <<k[2], k[3]>>[2] = k[3]
    BY <1>1, <2>2, <2>3
  <2>5. <<k[2], k[3]>> \in E /\ p[<<k[2], k[3]>>] = RowAt(k)
    BY <2>2, <2>4
  <2> QED
    BY <2>1, <2>5
<1>6. ASSUME NEW e \in E PROVE p[e] \in rows
  BY <1>4
<1>7. p \in Surjection(E, rows)
  <2>1. p \in [E -> rows]
    BY <1>6
  <2> HIDE DEF p, E
  <2> QED
    BY <1>5, <2>1 DEF Surjection
<1> HIDE DEF E, p
<1>8. IsFiniteSet(rows)
  BY <1>3, <1>7, FS_Surjection
<1> QED
  BY <1>8 DEF rows

\* A card of the page.
LEMMA CardAgrees ==
  ASSUME ReputationInv, NEW a \in Agents, NEW tag,
         NEW rows \in PageRows(Tables, a, tag), NEW answers \in PageResponses(Tables, a),
         NEW card \in FeedbackCards(LoadFeedback(rows, answers))
  PROVE  LET c == card.of[1]
             i == card.of[2]
         IN /\ FeedbackAgrees(a, c, i, card.revoked, card.score.value, card.score.tens)
            /\ card.answers <= response_count[a][c][i]
            /\ Cardinality(ResponseRows(Tables, a)) <= PAGE_RESPONSES =>
                  card.answers = response_count[a][c][i]
<1> DEFINE mine(r) == {q \in answers : q.key = r.key}
<1>1. PICK r \in rows : /\ card.of = <<r.key[2], r.key[3]>> /\ card.score = ToDisplayScore(r)
                        /\ card.revoked = r.is_revoked /\ card.answers = Cardinality(mine(r))
  <2>1. PICK f \in LoadFeedback(rows, answers) :
           card = [of |-> <<f.clientAddress, f.feedbackIndex>>, score |-> f.score, revoked |-> f.isRevoked,
                   answers |-> Cardinality(f.responses)]
    BY DEF FeedbackCards
  <2>2. PICK r \in rows :
           f = [feedbackIndex |-> r.key[3], clientAddress |-> r.key[2], score |-> ToDisplayScore(r),
                isRevoked |-> r.is_revoked, responses |-> mine(r)]
    BY DEF LoadFeedback
  <2>3. /\ f.feedbackIndex = r.key[3] /\ f.clientAddress = r.key[2] /\ f.score = ToDisplayScore(r)
        /\ f.isRevoked = r.is_revoked /\ f.responses = mine(r)
    <3> HIDE DEF mine
    <3> QED
      BY <2>2
  <2> HIDE DEF mine
  <2> QED
    BY <2>1, <2>3
<1> DEFINE k == r.key
           c == k[2]
           i == k[3]
           n == response_count[a][c][i]
<1>2. r \in FeedbackRows(Tables, a, tag)
  BY NewestRows DEF PageRows
<1>3. /\ k \in GivenIn(feedback) /\ k = <<a, c, i>> /\ At(response_count, k) = n
      /\ FeedbackAgrees(a, c, i, r.is_revoked, NumberOf(r.value), r.value_decimals)
  BY <1>2, RowAgrees
<1>4. card.of[1] = c /\ card.of[2] = i
      /\ card.score.value = NumberOf(r.value) /\ card.score.tens = r.value_decimals
  BY <1>1 DEF ToDisplayScore
<1>5. IsFiniteSet(Answers(k)) /\ n \in Nat /\ Cardinality(Answers(k)) = n
  <2> HIDE DEF k, n
  <2> QED
    BY <1>3, AnswersCounted
<1>6. answers \subseteq ResponseRows(Tables, a)
      /\ (Cardinality(ResponseRows(Tables, a)) <= PAGE_RESPONSES => answers = ResponseRows(Tables, a))
  BY NewestRows DEF PageResponses
<1>7. mine(r) \subseteq Answers(k) /\ (answers = ResponseRows(Tables, a) => mine(r) = Answers(k))
  BY <1>3, <1>6 DEF ResponseRows, Answers
<1> HIDE DEF mine, k, c, i, n
<1>8. Cardinality(mine(r)) <= n
  BY <1>5, <1>7, FS_Subset
<1>9. /\ FeedbackAgrees(a, c, i, card.revoked, card.score.value, card.score.tens)
      /\ card.answers <= n
      /\ Cardinality(ResponseRows(Tables, a)) <= PAGE_RESPONSES => card.answers = n
  BY <1>1, <1>3, <1>4, <1>5, <1>6, <1>7, <1>8
<1> QED
  BY <1>4, <1>9, Zenon DEF n

\* What an answer of the API says of the feedback of a.
AnswerAgrees(a, tag, page, answer) ==
    /\ \A f \in answer.items :
          LET c == f.clientAddress
              i == f.feedbackIndex
          IN /\ FeedbackAgrees(a, c, i, f.isRevoked, f.value, f.valueDecimals)
             /\ Cardinality(f.responses) = response_count[a][c][i]
    /\ page = 1 /\ ~answer.hasMore =>
          \A c \in Addresses, i \in Indexes :
             HasFeedback(a, c, i) /\ tag \in {None, Decode(feedback[a][c][i].body)} =>
                \E f \in answer.items : f.clientAddress = c /\ f.feedbackIndex = i

\* It is right, and the first page is complete unless it has more.
LEMMA ApiAgrees ==
  ASSUME ReputationInv, NEW a \in Agents, NEW tag, NEW page \in 1 .. MAX_PAGE,
         NEW limit \in 1 .. MAX_LIMIT, NEW answer,
         answer \in HandleAgentFeedback(Tables, a, tag, page, limit)
  PROVE  AnswerAgrees(a, tag, page, answer)
<1> DEFINE all == FeedbackRows(Tables, a, tag)
           joined(rows) == {q \in Tables.responses : \E r \in rows : r.key = q.key}
           mine(r, rows) == {q \in joined(rows) : q.key[2] = r.key[2] /\ q.key[3] = r.key[3]}
           item(r, rows) ==
              [feedbackIndex |-> r.key[3], clientAddress |-> r.key[2], value |-> NumberOf(r.value),
               valueDecimals |-> r.value_decimals, isRevoked |-> r.is_revoked,
               responses |-> mine(r, rows)]
           more == page * limit < Cardinality(all)
<1>1. PICK rows \in Newest(all, limit, (page - 1) * limit) :
         answer = [items |-> {item(r, rows) : r \in rows}, hasMore |-> more]
  <2>1. answer \in {[items |-> {item(r, rows) : r \in rows}, hasMore |-> more] :
                       rows \in Newest(all, limit, (page - 1) * limit)}
    BY Zenon DEF HandleAgentFeedback
  <2> HIDE DEF all, item, more
  <2> QED
    BY <2>1
<1>2. answer.items = {item(r, rows) : r \in rows} /\ (answer.hasMore <=> more)
  <2> HIDE DEF item, more, all
  <2> QED
    BY <1>1
<1>3. rows \subseteq all
  BY NewestRows
<1>4. ASSUME NEW f \in answer.items
      PROVE  LET c == f.clientAddress
                 i == f.feedbackIndex
             IN /\ FeedbackAgrees(a, c, i, f.isRevoked, f.value, f.valueDecimals)
                /\ Cardinality(f.responses) = response_count[a][c][i]
  <2>1. PICK r \in rows : f = item(r, rows)
    <3> HIDE DEF item
    <3> QED
      BY <1>2
  <2>2. /\ f.clientAddress = r.key[2] /\ f.feedbackIndex = r.key[3] /\ f.isRevoked = r.is_revoked
        /\ f.value = NumberOf(r.value) /\ f.valueDecimals = r.value_decimals
        /\ f.responses = mine(r, rows)
    <3> HIDE DEF mine
    <3> QED
      BY <2>1
  <2>3. \A s \in rows : s.key \in GivenIn(feedback) /\ s.key = <<a, s.key[2], s.key[3]>>
    BY <1>3, RowAgrees
  <2>4. mine(r, rows) = Answers(r.key)
    <3>1. ASSUME NEW q \in mine(r, rows) PROVE q \in Answers(r.key)
      <4>1. PICK s \in rows : s.key = q.key
        OBVIOUS
      <4>2. q.key = <<a, q.key[2], q.key[3]>> /\ q.key[2] = r.key[2] /\ q.key[3] = r.key[3]
        BY <2>3, <4>1
      <4>3. q.key = r.key /\ q \in Tables.responses
        BY <2>3, <4>2
      <4> QED
        BY <4>3 DEF Answers
    <3>2. ASSUME NEW q \in Answers(r.key) PROVE q \in mine(r, rows)
      BY DEF Answers
    <3> HIDE DEF mine
    <3> QED
      BY <3>1, <3>2
  <2>5. /\ At(response_count, r.key) = response_count[a][r.key[2]][r.key[3]]
        /\ FeedbackAgrees(a, r.key[2], r.key[3], r.is_revoked, NumberOf(r.value), r.value_decimals)
    BY <1>3, RowAgrees
  <2>6. Cardinality(Answers(r.key)) = At(response_count, r.key)
    BY <2>3, AnswersCounted
  <2> HIDE DEF mine
  <2>7. /\ FeedbackAgrees(a, f.clientAddress, f.feedbackIndex, f.isRevoked, f.value, f.valueDecimals)
        /\ Cardinality(f.responses) = response_count[a][f.clientAddress][f.feedbackIndex]
    BY <2>2, <2>4, <2>5, <2>6
  <2> QED
    BY <2>7, Zenon
<1>5. ASSUME page = 1, ~answer.hasMore, NEW c \in Addresses, NEW i \in Indexes,
             HasFeedback(a, c, i), tag \in {None, Decode(feedback[a][c][i].body)}
      PROVE  \E f \in answer.items : f.clientAddress = c /\ f.feedbackIndex = i
  <2> DEFINE k == <<a, c, i>>
  <2>1. (page - 1) * limit = 0 /\ Cardinality(all) <= limit
    <3>1. Cardinality(all) \in Nat
      BY RowsFinite, FS_CardinalityType
    <3>2. limit \in Nat /\ page * limit = limit /\ (page - 1) * limit = 0
      BY <1>5, PageAssumption
    <3>3. ~(limit < Cardinality(all))
      BY <1>2, <1>5, <3>2
    <3> HIDE DEF all
    <3> QED
      BY <3>1, <3>2, <3>3
  <2>2. rows = all
    BY <2>1, NewestRows
  <2>3. k \in KeysOf(a, tag)
    BY <1>5 DEF KeysOf, GivenIn, FeedbackKeys, At, HasFeedback
  <2>4. RowAt(k) \in all
    BY <2>3, RowsOfKeys
  <2>5. item(RowAt(k), rows) \in answer.items
    <3> HIDE DEF item, all
    <3> QED
      BY <1>2, <2>2, <2>4
  <2>6. item(RowAt(k), rows).clientAddress = c /\ item(RowAt(k), rows).feedbackIndex = i
    <3>1. RowAt(k).key = k
      BY RowFields
    <3> HIDE DEF mine
    <3> QED
      BY <3>1
  <2> HIDE DEF item
  <2> QED
    BY <2>5, <2>6
<1> QED
  BY <1>4, <1>5, Zenon DEF AnswerAgrees

-----------------------------------------------------------------------------

\* The page, the API and the leaderboard agree with the contract.
LEMMA PageInvariant == ReputationInv /\ BodiesAdmissible => PageAgreesWithSummary
<1> SUFFICES ASSUME ReputationInv, BodiesAdmissible, NEW T \in {Tables}, NEW a \in Agents
             PROVE
       /\ \A tag \in VALID_TAGS \cup {None} : \A rows \in PageRows(T, a, tag) :
             ClientsAgree(a, tag, rows, Cardinality(FeedbackRows(T, a, tag)) <= PAGE_FEEDBACK)
       /\ \A tag \in VALID_TAGS \cup {None} : \A rows \in PageRows(T, a, tag) :
             \A answers \in PageResponses(T, a) :
                \A card \in FeedbackCards(LoadFeedback(rows, answers)) :
                   LET c == card.of[1]
                       i == card.of[2]
                   IN /\ FeedbackAgrees(a, c, i, card.revoked, card.score.value, card.score.tens)
                      /\ card.answers <= response_count[a][c][i]
                      /\ Cardinality(ResponseRows(T, a)) <= PAGE_RESPONSES =>
                            card.answers = response_count[a][c][i]
       /\ \A tag \in {Decode(b) : b \in Admissible} \cup {None} :
             \A page \in 1 .. MAX_PAGE, limit \in 1 .. MAX_LIMIT :
                \A answer \in HandleAgentFeedback(T, a, tag, page, limit) :
                   /\ \A f \in answer.items :
                         LET c == f.clientAddress
                             i == f.feedbackIndex
                         IN /\ FeedbackAgrees(a, c, i, f.isRevoked, f.value, f.valueDecimals)
                            /\ Cardinality(f.responses) = response_count[a][c][i]
                   /\ page = 1 /\ ~answer.hasMore =>
                         \A c \in Addresses, i \in Indexes :
                            HasFeedback(a, c, i) /\ tag \in {None, Decode(feedback[a][c][i].body)} =>
                               \E f \in answer.items : f.clientAddress = c /\ f.feedbackIndex = i
       /\ \A owner \in Addresses \cup {None} :
             LET score == LeaderboardScores(T, a, owner)
                 live == LiveFeedback(a, Addresses \ {owner}, Admissible)
                 unit == Cardinality(live) * Pow10(WAD - 2)
             IN /\ score.feedback_count = Cardinality(live)
                /\ score.score_exact =>
                      2 * Abs(score.total_score * unit - ExactSum(a, live)) <= unit
  BY Zenon DEF PageAgreesWithSummary
<1>1. T = Tables
  OBVIOUS
<1>2. ASSUME NEW tag \in VALID_TAGS \cup {None}, NEW rows \in PageRows(T, a, tag)
      PROVE  ClientsAgree(a, tag, rows, Cardinality(FeedbackRows(T, a, tag)) <= PAGE_FEEDBACK)
  BY <1>1, ClientsOfPage, Zenon
<1>3. ASSUME NEW tag \in VALID_TAGS \cup {None}, NEW rows \in PageRows(T, a, tag),
             NEW answers \in PageResponses(T, a), NEW card \in FeedbackCards(LoadFeedback(rows, answers))
      PROVE  LET c == card.of[1]
                 i == card.of[2]
             IN /\ FeedbackAgrees(a, c, i, card.revoked, card.score.value, card.score.tens)
                /\ card.answers <= response_count[a][c][i]
                /\ Cardinality(ResponseRows(T, a)) <= PAGE_RESPONSES =>
                      card.answers = response_count[a][c][i]
  BY <1>1, CardAgrees, Zenon
<1>4. ASSUME NEW tag \in {Decode(b) : b \in Admissible} \cup {None}, NEW page \in 1 .. MAX_PAGE,
             NEW limit \in 1 .. MAX_LIMIT, NEW answer \in HandleAgentFeedback(T, a, tag, page, limit)
      PROVE  AnswerAgrees(a, tag, page, answer)
  <2>1. answer \in HandleAgentFeedback(Tables, a, tag, page, limit)
    BY <1>1
  <2> QED
    BY <2>1, ApiAgrees
<1>5. ASSUME NEW owner \in Addresses \cup {None}
      PROVE  LET score == LeaderboardScores(T, a, owner)
                 live == LiveFeedback(a, Addresses \ {owner}, Admissible)
                 unit == Cardinality(live) * Pow10(WAD - 2)
             IN /\ score.feedback_count = Cardinality(live)
                /\ score.score_exact =>
                      2 * Abs(score.total_score * unit - ExactSum(a, live)) <= unit
  <2> DEFINE score == LeaderboardScores(T, a, owner)
             live == LiveFeedback(a, Addresses \ {owner}, Admissible)
             unit == Cardinality(live) * Pow10(WAD - 2)
  <2>1. /\ score = LeaderboardScores(Tables, a, owner) /\ live = LiveOfOthers(a, owner)
        /\ unit = Cardinality(live) * Pow10(WAD - 2)
    BY <1>1 DEF LiveOfOthers
  <2> HIDE DEF score, live, unit
  <2>2. /\ score.feedback_count = Cardinality(live)
        /\ score.score_exact => 2 * Abs(score.total_score * unit - ExactSum(a, live)) <= unit
    BY <2>1, LeaderboardLive
  <2> QED
    BY <2>2, Zenon DEF score, live, unit
<1> QED
  <2>1. \A tag \in VALID_TAGS \cup {None} : \A rows \in PageRows(T, a, tag) :
           ClientsAgree(a, tag, rows, Cardinality(FeedbackRows(T, a, tag)) <= PAGE_FEEDBACK)
    BY <1>2, Zenon
  <2>2. \A tag \in VALID_TAGS \cup {None} : \A rows \in PageRows(T, a, tag) :
           \A answers \in PageResponses(T, a) :
              \A card \in FeedbackCards(LoadFeedback(rows, answers)) :
                 LET c == card.of[1]
                     i == card.of[2]
                 IN /\ FeedbackAgrees(a, c, i, card.revoked, card.score.value, card.score.tens)
                    /\ card.answers <= response_count[a][c][i]
                    /\ Cardinality(ResponseRows(T, a)) <= PAGE_RESPONSES =>
                          card.answers = response_count[a][c][i]
    BY <1>3, Zenon
  <2>3. \A tag \in {Decode(b) : b \in Admissible} \cup {None} :
           \A page \in 1 .. MAX_PAGE, limit \in 1 .. MAX_LIMIT :
              \A answer \in HandleAgentFeedback(T, a, tag, page, limit) :
                 /\ \A f \in answer.items :
                       LET c == f.clientAddress
                           i == f.feedbackIndex
                       IN /\ FeedbackAgrees(a, c, i, f.isRevoked, f.value, f.valueDecimals)
                          /\ Cardinality(f.responses) = response_count[a][c][i]
                 /\ page = 1 /\ ~answer.hasMore =>
                       \A c \in Addresses, i \in Indexes :
                          HasFeedback(a, c, i) /\ tag \in {None, Decode(feedback[a][c][i].body)} =>
                             \E f \in answer.items : f.clientAddress = c /\ f.feedbackIndex = i
    BY <1>4, Zenon DEF AnswerAgrees
  <2> QED
    BY <1>5, <2>1, <2>2, <2>3, Zenon

\* What the web application says of an agent is what the contract says, as far as it
\* reads, whatever the limits of its pages: every card of the page and every item of
\* the API is a feedback of the contract with its value (rounded beyond MaxSafe),
\* revocation and answers; the page counts for a client what get_summary counts, if
\* the agent's rows fit on it; and an exact score of the leaderboard is the average
\* over the clients other than the present owner, to the nearest hundredth.
THEOREM PageAgrees == Spec => []PageAgreesWithSummary
BY ReputationInvariant, AdmissibleBodies, PageInvariant, PTL
=============================================================================
