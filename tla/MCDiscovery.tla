----------------------------- MODULE MCDiscovery -----------------------------
(* Discovery on a small instance. *)
EXTENDS Discovery

\* The second and third agent share a ledger.
MCCreated == [id \in Agents |-> IF id = 3 THEN 2 ELSE id]

\* Scores below and above the range of the discovery score.
MCStandings == {Unrated, [score |-> -1, feedback |-> 2], [score |-> 101, feedback |-> 1]}

\* A second walk differs from a first one by the answers it finds in the cache.
SecondWalkReads == walks < 2 \/ \E e \in cache : e.at.of = walk.listing
=============================================================================
