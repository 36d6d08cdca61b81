-------------------------------- MODULE MCTry --------------------------------
(* TryAgent on a small instance. *)
EXTENDS TryAgent, TLC
CONSTANTS app, other, p1, p2, MaxOut

Quote(s, n, p) == [scheme |-> s, networks |-> n, price |-> p]
MCQuotes == {Quote("mpp", {app}, p1), Quote("mpp", {app}, p2),
             Quote("x402", {other, app}, p1), Quote("x402", {other}, p1)}

\* Of the wallet and the panel, MaxOut calls are out at once.
FewOut ==
    Cardinality({k \in Connects \cup {Restore} : asked[k] # "nothing"})
      + Cardinality({c \in Calls : ~At(c, "free")}) <= MaxOut
=============================================================================
