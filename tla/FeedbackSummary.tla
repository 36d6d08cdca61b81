--------------------------- MODULE FeedbackSummary ---------------------------
(* get_summary of the reputation registry: the average of the feedback of
   some clients, in fixed-point numbers of WAD decimals that an i128 holds. *)
EXTENDS ReputationRegistry, Integers, FiniteSets, SequencesExt

CONSTANTS
    ValueOf, DecimalsOf,   \* of the bodies
    WAD,                   \* 18
    MaxI128,               \* largest i128
    MAX_SUMMARY_CLIENTS

ASSUME SummaryAssumption ==
    /\ WAD \in Nat /\ WAD >= 2 /\ MaxI128 \in Nat /\ MAX_SUMMARY_CLIENTS \in Nat \ {0}
    /\ \A b \in Bodies : ValueOf[b] \in Int /\ DecimalsOf[b] \in Nat
    /\ \A b \in Admissible : DecimalsOf[b] <= WAD
    /\ None \notin [count : Nat, summary_value : Int, summary_value_decimals : Nat]

Pow10(n) ==
    LET pow[k \in Nat] == IF k = 0 THEN 1 ELSE 10 * pow[k - 1]
    IN pow[n]
Abs(x) == IF x < 0 THEN -x ELSE x
FitsI128(x) == -MaxI128 - 1 <= x /\ x <= MaxI128

Bug_Floored(x, y) == x \div y

\* Division of i128: towards zero.
Quotient(x, y) == IF x < 0 THEN -((-x) \div y) ELSE x \div y

\* The bodies of a client's feedback that count: not revoked, and tagged as asked.
LiveBodies(a, c, tagged) ==
    LET live[i \in 0 .. last_index[a][c]] ==
          IF i = 0 THEN <<>>
          ELSE IF ~feedback[a][c][i].is_revoked /\ feedback[a][c][i].body \in tagged
               THEN Append(live[i - 1], feedback[a][c][i].body) ELSE live[i - 1]
    IN live[last_index[a][c]]

\* Only the first MAX_SUMMARY_CLIENTS clients of the list are read.
Summarised(a, clients, tagged) ==
    LET limit == IF Len(clients) < MAX_SUMMARY_CLIENTS THEN Len(clients) ELSE MAX_SUMMARY_CLIENTS
    IN FlattenSeq([n \in 1 .. limit |-> LiveBodies(a, clients[n], tagged)])

Normalized(b) == ValueOf[b] * Pow10(WAD - DecimalsOf[b])

SumWad(bodies) ==
    LET sum[n \in 0 .. Len(bodies)] == IF n = 0 THEN 0 ELSE sum[n - 1] + Normalized(bodies[n])
    IN sum

\* checked_mul and checked_add, entry by entry.
AggregateOverflow(bodies) ==
    LET sum == SumWad(bodies) IN
    \E n \in DOMAIN bodies : ~FitsI128(Normalized(bodies[n])) \/ ~FitsI128(sum[n])

\* The most frequent number of decimals, the lowest of them on a tie.
ModeDecimals(bodies) ==
    LET freq(d) == Cardinality({n \in DOMAIN bodies : DecimalsOf[bodies[n]] = d})
    IN CHOOSE d \in 0 .. WAD :
          \A e \in 0 .. WAD : freq(e) < freq(d) \/ (freq(e) = freq(d) /\ d <= e)

GetSummary(a, clients, tagged) ==
    LET bodies == Summarised(a, clients, tagged)
        count == Len(bodies)
        mode == ModeDecimals(bodies)
        avg_wad == Quotient(SumWad(bodies)[count], count)
    IN IF AggregateOverflow(bodies) THEN None
       ELSE IF count = 0 THEN [count |-> 0, summary_value |-> 0, summary_value_decimals |-> 0]
       ELSE [count |-> count, summary_value_decimals |-> mode,
             summary_value |-> Quotient(avg_wad, Pow10(WAD - mode))]

\* The average over a set of feedback, without rounding: count and sum.
LiveFeedback(a, clients, tagged) ==
    {e \in clients \X Indexes :
        /\ HasFeedback(a, e[1], e[2]) /\ ~feedback[a][e[1]][e[2]].is_revoked
        /\ feedback[a][e[1]][e[2]].body \in tagged}
WadOf(a, e) == Normalized(feedback[a][e[1]][e[2]].body)
ExactSum(a, es) == SumFunction([e \in es |-> WadOf(a, e)])

\* The lists of clients, long enough to be cut, that may name a client twice; and
\* the bodies that a choice of tags matches.
ClientLists == UNION {[1 .. n -> Addresses] : n \in 1 .. MAX_SUMMARY_CLIENTS + 1}
TagChoices == (SUBSET Admissible) \ {{}}

\* Whatever was given and revoked, a summary that does not overflow counts each
\* live feedback of the clients it reads once, and again for a client named again;
\* its value is their exact average cut towards zero to the decimals it states:
\* rounding to WAD first loses nothing more.  It overflows only if some part of
\* that sum does, so small values never block it.
SummaryIsAverage ==
    \A a \in Agents, tagged \in TagChoices :
       \A live \in {LiveFeedback(a, Addresses, tagged)}, clients \in ClientLists :
          LET s == GetSummary(a, clients, tagged)
              es == {e \in (DOMAIN clients \cap 1 .. MAX_SUMMARY_CLIENTS) \X Indexes :
                        <<clients[e[1]], e[2]>> \in live}
              sumOf(part) == SumFunction([e \in part |-> WadOf(a, <<clients[e[1]], e[2]>>)])
              sum == sumOf(es)
              unit == Pow10(WAD - s.summary_value_decimals) * s.count
          IN IF s = None
             THEN \E part \in SUBSET es : ~FitsI128(sumOf(part))
             ELSE /\ s.count = Cardinality(es)
                  /\ s.count > 0 =>
                        /\ Abs(s.summary_value) * unit <= Abs(sum)
                        /\ Abs(sum) < (Abs(s.summary_value) + 1) * unit
                        /\ s.summary_value * sum >= 0
=============================================================================
