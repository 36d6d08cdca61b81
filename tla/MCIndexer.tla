------------------------------- MODULE MCIndexer -------------------------------
(* Chains and constants for model checking Indexer. *)
EXTENDS Indexer, TLC

Scan == <<"identity", "reputation">>

Blank == [ledger |-> 1, status |-> "parsed", registered |-> FALSE, bad |-> FALSE,
          creates |-> None, needs |-> None, updates |-> None]
Ev0(ledger) == [Blank EXCEPT !.ledger = ledger]
Reg(l, agent) == [Ev0(l) EXCEPT !.registered = TRUE, !.creates = agent]
Meta(l, agent) == [Ev0(l) EXCEPT !.needs = agent]
Update(l, row) == [Ev0(l) EXCEPT !.updates = row]
Feedback(l, agent, row) == [Ev0(l) EXCEPT !.needs = agent, !.creates = row]
Invalid(e) == [e EXCEPT !.status = "invalid"]

\* A registration whose three events a page of two cuts apart, a registration
\* nobody can parse with a child in each contract, and updates of lost rows.
Chain ==
    [identity |-> <<Meta(1, "a1"), Meta(1, "a1"), Reg(1, "a1"),
                    Invalid(Reg(2, "a2")), Update(3, "a1")>>,
     reputation |-> <<Feedback(1, "a1", "f1"), Feedback(2, "a2", "f2"),
                      Update(3, "f2")>>]

\* Two events of one page that both fail.
TwoFailures ==
    [identity |-> <<Invalid(Reg(1, "a1")), Meta(2, "a1"), Meta(2, "a1")>>,
     reputation |-> <<>>]

\* deferrals is a history variable that only SkippedAfterOwnDeferrals reads.
WithoutDeferrals == <<head, oldest, lock, cp, rows, applied, reported, run, faults>>

Symmetry == Permutations(Runs)
=============================================================================
