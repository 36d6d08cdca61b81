------------------------------- MODULE UriFetch -------------------------------
(***************************************************************************)
(* resolveUri of the indexer: the document behind an agent URI, as far as  *)
(* one try gets.  A document is a model value; a URI says where it is.     *)
(* up is the set of hosts that answer this try in time, with JSON below    *)
(* the size limit.                                                         *)
(***************************************************************************)
CONSTANTS
    Gateways,      \* IPFS_GATEWAYS, in any order: the first answer is taken
    Redirects,     \* host -> the host its answer redirects to, or Null
    PrivateHosts,  \* names and addresses of loopback, private and special networks
    BareAddresses, \* hosts written as an address
    Records,       \* host -> the addresses its name has
    HasDns,        \* whether the runtime resolves names: a Worker does not
    Null

ASSUME UriFetchAssumption ==
    /\ Gateways \subseteq DOMAIN Redirects
    /\ DOMAIN Records = DOMAIN Redirects
    /\ HasDns \in BOOLEAN
    /\ Null \notin DOMAIN Redirects

\* A data URI carries its document.  faults: what is wrong with one that was
\* written by hand ("too long", "no comma", "not json", "bad payload").
DataUri(doc) == [kind |-> "data", host |-> Null, doc |-> doc, faults |-> {}]

ParseDataUri(uri) == IF uri.faults = {} THEN uri.doc ELSE Null

IsPrivateOrLoopbackHost(host) == host \in PrivateHosts

\* Without DNS, and for a name without records, the answer is no.
HostnameResolvesToPrivate(host) ==
    HasDns /\ \E address \in Records[host] : IsPrivateOrLoopbackHost(address)

MayContact(host) ==
    /\ ~IsPrivateOrLoopbackHost(host) /\ host \notin BareAddresses
    /\ ~HostnameResolvesToPrivate(host)

\* Each hop is checked, and one redirect is followed.
FetchJson(host, up) ==
    /\ MayContact(host) /\ host \in up
    /\ LET hop == Redirects[host]
       IN hop # Null => MayContact(hop) /\ hop \in up /\ Redirects[hop] = Null

ResolveUri(uri, up) ==
    CASE uri = Null -> Null
      [] uri # Null /\ uri.kind = "data" -> ParseDataUri(uri)
      [] uri # Null /\ uri.kind = "web" -> IF FetchJson(uri.host, up) THEN uri.doc ELSE Null
      [] uri # Null /\ uri.kind = "ipfs" ->
            IF \E g \in Gateways : FetchJson(g, up) THEN uri.doc ELSE Null
=============================================================================
