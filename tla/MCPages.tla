------------------------------- MODULE MCPages -------------------------------
(* AgentPages on a small instance: a document on IPFS, one on a web server whose
   name has a private address and which redirects to the gateway of IPFS, and a
   data URI that does not parse. *)
EXTENDS AgentPages, TLC
CONSTANTS g1, w1, private, t1

MCRedirects == (g1 :> Null) @@ (w1 :> g1)
MCRecords == (g1 :> {}) @@ (w1 :> {private})
OnIpfs == [kind |-> "ipfs", host |-> Null, doc |-> t1, faults |-> {}]
OnTheWeb == [kind |-> "web", host |-> w1, doc |-> t1, faults |-> {}]
Malformed == [kind |-> "data", host |-> Null, doc |-> t1, faults |-> {"bad payload"}]
MCPublished == {OnTheWeb, Malformed}
MCTypedUris == {OnIpfs}

\* The count of the badge and the forms share nothing but the address.
FewOut ==
    /\ badge.fetching = {} \/ Out = {}
    /\ badge.count = Null \/ page.at = "elsewhere"

\* One form at a time is worked on, and the timers it sets run out before the next
\* transaction is sent.
OneForm ==
    /\ Cardinality({f \in Forms : form[f] # "idle"}) <= 1
    /\ timers = {} \/ Out = {}

\* Other people's agents are met on the other pages, which are the same component.
OwnAgent == agent.owner \notin Strangers
=============================================================================
