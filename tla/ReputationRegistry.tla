-------------------------- MODULE ReputationRegistry --------------------------
(***************************************************************************)
(* The reputation registry contract.  Each client of an agent owns a list  *)
(* of feedback numbered from 1; an indexed list (count, slot, flag) keeps  *)
(* the clients of an agent enumerable.                                     *)
(*                                                                         *)
(* The contract asks the identity registry who controls an agent.  Here    *)
(* that registry is its interface: authority[a] is the set of addresses    *)
(* is_authorized_or_owner accepts, empty while the agent does not exist.   *)
(* Module Registries replaces it by the identity registry itself.          *)
(*                                                                         *)
(* Bug_... are broken variants of the definitions they precede.            *)
(***************************************************************************)
EXTENDS Naturals, Sequences

CONSTANTS
    Addresses, Agents,
    Bodies,         \* value, decimals and tags of a feedback
    Admissible,     \* bodies with decimals <= 18 and |value| <= 1e38
    Uris, EmptyUri, \* response URIs
    None,
    MaxFeedback,    \* bound on the feedback of one client for one agent
    MaxClients,     \* the u32 client counter of an agent overflows here
    MaxResponses    \* the u32 response counter of a feedback overflows here

Indexes == 1 .. MaxFeedback
Slots == 0 .. MaxClients - 1

ASSUME ReputationAssumption ==
    /\ MaxFeedback \in Nat /\ MaxClients \in Nat /\ MaxResponses \in Nat
    /\ Admissible \subseteq Bodies
    /\ None \notin Addresses /\ None \notin Bodies
    /\ EmptyUri \in Uris

VARIABLES
    authority,      \* identity registry: who controls each agent
    feedback,       \* DataKey::Feedback
    last_index,     \* DataKey::LastIndex
    client_count,   \* DataKey::ClientCount
    client_at,      \* DataKey::ClientAtIndex
    client_exists,  \* DataKey::ClientExists
    response_count, \* DataKey::ResponseCount
    published       \* the event of the last invocation

storage == <<feedback, last_index, client_count, client_at, client_exists,
             response_count>>
vars == <<authority, storage, published>>

\* body None: no entry under that index
FeedbackData == [body : Bodies \cup {None}, is_revoked : BOOLEAN]
NoFeedback == [body |-> None, is_revoked |-> FALSE]

Event == [type : {"new_feedback", "feedback_revoked", "response_appended", "none"},
          agent : Agents \cup {None}, client : Addresses \cup {None},
          index : 0 .. MaxFeedback]

Publish(type, a, c, i) ==
    published' = [type |-> type, agent |-> a, client |-> c, index |-> i]

Init ==
    /\ authority = [a \in Agents |-> {}]
    /\ feedback = [a \in Agents |-> [c \in Addresses |-> [i \in Indexes |-> NoFeedback]]]
    /\ last_index = [a \in Agents |-> [c \in Addresses |-> 0]]
    /\ client_count = [a \in Agents |-> 0]
    /\ client_at = [a \in Agents |-> [s \in Slots |-> None]]
    /\ client_exists = [a \in Agents |-> [c \in Addresses |-> FALSE]]
    /\ response_count = [a \in Agents |-> [c \in Addresses |-> [i \in Indexes |-> 0]]]
    /\ published = [type |-> "none", agent |-> None, client |-> None, index |-> 0]

-----------------------------------------------------------------------------

AgentExists(a) == authority[a] # {}

HasFeedback(a, c, i) == feedback[a][c][i].body # None

AddClient(a, c) ==
    /\ client_count[a] < MaxClients
    /\ client_at' = [client_at EXCEPT ![a][client_count[a]] = c]
    /\ client_exists' = [client_exists EXCEPT ![a][c] = TRUE]
    /\ client_count' = [client_count EXCEPT ![a] = @ + 1]

\* A client is listed with its first feedback.
ListClient(a, c) ==
    IF client_exists[a][c] THEN UNCHANGED <<client_count, client_at, client_exists>>
    ELSE AddClient(a, c)

NextIndex(a, c) == last_index[a][c] + 1

MayRate(caller, a) == AgentExists(a) /\ caller \notin authority[a]

GiveFeedback(caller, a, body) ==
    /\ body \in Admissible
    /\ MayRate(caller, a)
    /\ ListClient(a, caller)
    /\ LET i == NextIndex(a, caller) IN
       /\ i <= MaxFeedback
       /\ last_index' = [last_index EXCEPT ![a][caller] = i]
       /\ feedback' = [feedback EXCEPT
                         ![a][caller][i] = [body |-> body, is_revoked |-> FALSE]]
       /\ Publish("new_feedback", a, caller, i)
    /\ UNCHANGED <<authority, response_count>>

Bug_RevokedRemoved(caller, a, i) ==
    /\ HasFeedback(a, caller, i)
    /\ feedback' = [feedback EXCEPT ![a][caller][i] = NoFeedback]
    /\ Publish("feedback_revoked", a, caller, i)
    /\ UNCHANGED <<authority, last_index, client_count, client_at, client_exists,
                   response_count>>

\* A client revokes its own feedback, once.
RevokeFeedback(caller, a, i) ==
    /\ HasFeedback(a, caller, i)
    /\ ~feedback[a][caller][i].is_revoked
    /\ feedback' = [feedback EXCEPT ![a][caller][i].is_revoked = TRUE]
    /\ Publish("feedback_revoked", a, caller, i)
    /\ UNCHANGED <<authority, last_index, client_count, client_at, client_exists,
                   response_count>>

CanCount(a, c, i) == response_count[a][c][i] < MaxResponses

\* Anyone may respond, to revoked feedback too.
AppendResponse(caller, a, c, i, u) ==
    /\ u # EmptyUri
    /\ HasFeedback(a, c, i)
    /\ CanCount(a, c, i)
    /\ response_count' = [response_count EXCEPT ![a][c][i] = @ + 1]
    /\ Publish("response_appended", a, c, i)
    /\ UNCHANGED <<authority, feedback, last_index, client_count, client_at,
                   client_exists>>

\* The identity registry moves on: agents appear, change hands and operators;
\* none disappears.
IdentityMoves ==
    /\ authority' \in [Agents -> SUBSET Addresses]
    /\ \A a \in Agents : AgentExists(a) => authority'[a] # {}
    /\ UNCHANGED <<storage, published>>

Next ==
    \/ \E x \in Addresses, a \in Agents, b \in Bodies : GiveFeedback(x, a, b)
    \/ \E x \in Addresses, a \in Agents, i \in Indexes : RevokeFeedback(x, a, i)
    \/ \E x \in Addresses, a \in Agents, c \in Addresses, i \in Indexes, u \in Uris :
          AppendResponse(x, a, c, i, u)
    \/ IdentityMoves

Spec == Init /\ [][Next]_vars

-----------------------------------------------------------------------------
(* get_clients_paginated: the slots start .. min(start + limit, count) - 1;
   start + limit saturates, which the minimum hides. *)

Bug_PageEndsEarly(a, start, limit) ==
    IF start + limit < client_count[a] THEN start + limit - 1 ELSE client_count[a]
PageEnd(a, start, limit) ==
    IF start + limit < client_count[a] THEN start + limit ELSE client_count[a]

ClientsPaginated(a, start, limit) ==
    LET end == PageEnd(a, start, limit)
    IN [n \in 1 .. (IF end > start THEN end - start ELSE 0)
           |-> client_at[a][start + n - 1]]

-----------------------------------------------------------------------------
(* Properties *)

\* The storage entries keep their types.
TypeOK ==
    /\ authority \in [Agents -> SUBSET Addresses]
    /\ feedback \in [Agents -> [Addresses -> [Indexes -> FeedbackData]]]
    /\ last_index \in [Agents -> [Addresses -> 0 .. MaxFeedback]]
    /\ client_count \in [Agents -> 0 .. MaxClients]
    /\ client_at \in [Agents -> [Slots -> Addresses \cup {None}]]
    /\ client_exists \in [Agents -> [Addresses -> BOOLEAN]]
    /\ response_count \in [Agents -> [Addresses -> [Indexes -> 0 .. MaxResponses]]]
    /\ published \in Event

\* The feedback of a client is numbered 1 .. last_index without holes and only
\* agents that exist have any: get_summary reads exactly that range, and the
\* indexer keys its rows by the number.
FeedbackContiguous ==
    \A a \in Agents, c \in Addresses, i \in Indexes :
       /\ HasFeedback(a, c, i) <=> i <= last_index[a][c]
       /\ HasFeedback(a, c, i) => AgentExists(a)

\* The three entries of the client list agree with each other and with the
\* feedback: the slots below the count hold distinct clients, the slots above
\* are empty, and the flagged clients, the listed clients and the clients with
\* feedback are the same (add_client writes three keys, give_feedback a fourth).
ClientsIndexed ==
    \A a \in Agents :
       /\ \A s \in Slots : client_at[a][s] # None <=> s < client_count[a]
       /\ \A s, t \in Slots :
             s < t /\ t < client_count[a] => client_at[a][s] # client_at[a][t]
       /\ \A c \in Addresses :
             /\ client_exists[a][c] <=> \E s \in Slots : client_at[a][s] = c
             /\ client_exists[a][c] <=> last_index[a][c] > 0

\* Paging through the clients of an agent with any page size lists each client
\* with feedback exactly once.
PagesListEveryClient ==
    \A a \in Agents, limit \in 1 .. MaxClients + 1 :
       LET pages == [p \in 0 .. MaxClients |-> ClientsPaginated(a, p * limit, limit)]
           hits(c) == {h \in (0 .. MaxClients) \X (1 .. MaxClients) :
                          h[2] \in DOMAIN pages[h[1]] /\ pages[h[1]][h[2]] = c}
       IN \A c \in Addresses :
             IF last_index[a][c] > 0 THEN \E h \in hits(c) : hits(c) = {h}
             ELSE hits(c) = {}

\* Feedback is append-only: no later call of anyone removes an entry, changes
\* its body or brings a revoked one back.
FeedbackImmutable ==
    [][\A a \in Agents, c \in Addresses, i \in Indexes :
          HasFeedback(a, c, i) =>
             /\ feedback'[a][c][i].body = feedback[a][c][i].body
             /\ feedback[a][c][i].is_revoked => feedback'[a][c][i].is_revoked]_vars

\* Only feedback has responses, and they are never uncounted: the indexer
\* numbers its response rows against a foreign key to the feedback.
ResponsesHaveFeedback ==
    \A a \in Agents, c \in Addresses, i \in Indexes :
       response_count[a][c][i] > 0 => HasFeedback(a, c, i)
=============================================================================
