----------------------------- MODULE UpgradeProofs -----------------------------
(***************************************************************************)
(* Proofs about TimelockedUpgrade, for every set of addresses and hashes   *)
(* and every timelock.  The invariants are conjoined: that an execution    *)
(* follows enough notice needs NoticeIsElapsed, which needs the types.     *)
(***************************************************************************)
EXTENDS TimelockedUpgrade, TLAPS

\* Proposed and settled proposals differ by the pending one.  The bound on
\* settled in TypeOK is a consequence, so the two are proved together.
UpgradeInv == TypeOK /\ NoticeIsElapsed /\ EachProposalSettledOnce

\* A deployed contract has no proposal, so none is settled.
LEMMA UpgradeInit == Init => UpgradeInv
  BY UpgradeAssumption
  DEF Init, UpgradeInv, TypeOK, NoticeIsElapsed, EachProposalSettledOnce, IsPending,
      NoProposal, NoHeir, Ledgers

\* Every call of the upgrade and ownership interfaces, and every closing
\* ledger, preserves the invariant.
LEMMA UpgradeStep == UpgradeInv /\ [Next]_vars => UpgradeInv'
<1> SUFFICES ASSUME UpgradeInv, [Next]_vars PROVE UpgradeInv'
  OBVIOUS
<1> USE UpgradeAssumption
    DEF UpgradeInv, TypeOK, NoticeIsElapsed, EachProposalSettledOnce, IsPending, Ledgers
<1>1. ASSUME NEW x \in Addresses, NEW h \in Hashes, ProposeUpgrade(x, h)
      PROVE UpgradeInv'
  BY <1>1 DEF ProposeUpgrade
<1>2. ASSUME NEW x \in Addresses, CancelUpgrade(x) PROVE UpgradeInv'
  BY <1>2 DEF CancelUpgrade, NoProposal
<1>3. ASSUME NEW x \in Addresses, ExecuteUpgrade(x) PROVE UpgradeInv'
  BY <1>3 DEF ExecuteUpgrade, NoProposal
<1>4. ASSUME NEW x \in Addresses, NEW t \in Addresses, NEW n \in Ledgers,
             TransferOwnership(x, t, n)
      PROVE UpgradeInv'
  BY <1>4 DEF TransferOwnership, NoHeir
<1>5. ASSUME NEW x \in Addresses, AcceptOwnership(x) PROVE UpgradeInv'
  BY <1>5 DEF AcceptOwnership, NoHeir
<1>6. ASSUME NEW x \in Addresses, RenounceOwnership(x) PROVE UpgradeInv'
  BY <1>6 DEF RenounceOwnership
<1>7. CASE CloseLedger
  BY <1>7 DEF CloseLedger
<1>8. CASE UNCHANGED vars
  BY <1>8 DEF vars
<1> QED
  BY <1>1, <1>2, <1>3, <1>4, <1>5, <1>6, <1>7, <1>8 DEF Next

\* The invariant holds in every reachable state.
LEMMA UpgradeInvariant == Spec => []UpgradeInv
  BY UpgradeInit, UpgradeStep, PTL DEF Spec

\* The entries of the upgrade and ownership interfaces keep their types.
THEOREM UpgradeTypes == Spec => []TypeOK
<1>1. UpgradeInv => TypeOK
  BY DEF UpgradeInv
<1> QED
  BY <1>1, UpgradeInvariant, PTL

\* Every proposal is executed or cancelled at most once.
THEOREM ProposalsSettleOnce == Spec => []EachProposalSettledOnce
<1>1. UpgradeInv => EachProposalSettledOnce
  BY DEF UpgradeInv
<1> QED
  BY <1>1, UpgradeInvariant, PTL

\* No call changes the code without TIMELOCK_LEDGERS ledgers of uninterrupted
\* notice of exactly the new hash: execute_upgrade compares ledger numbers, and
\* the invariant identifies their difference with the notice given.
THEOREM UpgradeNeedsNotice == Spec => NoticeGiven
<1>1. ASSUME UpgradeInv, [Next]_vars
      PROVE [wasm' # wasm
                => wasm' = pending.wasm_hash /\ visible >= TIMELOCK_LEDGERS]_vars
  <2> USE <1>1 DEF UpgradeInv
  <2>1. ASSUME NEW x \in Addresses, ExecuteUpgrade(x)
        PROVE wasm' = pending.wasm_hash /\ visible >= TIMELOCK_LEDGERS
    BY <2>1, UpgradeAssumption
    DEF ExecuteUpgrade, TimelockPassed, Elapsed, NoticeIsElapsed, TypeOK, Ledgers
  <2>2. (\E x \in Addresses : ExecuteUpgrade(x)) \/ wasm' = wasm
    BY DEF Next, ProposeUpgrade, CancelUpgrade, TransferOwnership, AcceptOwnership,
           RenounceOwnership, CloseLedger, vars
  <2> QED
    BY <2>1, <2>2
<1> QED
  BY <1>1, UpgradeInvariant, PTL DEF Spec, NoticeGiven

\* Once ownership is renounced no call changes the owner or the code, a pending
\* upgrade past its timelock included: each of them is only_owner.
THEOREM RenouncedIsFrozen == Spec => RenounceFreezesCode
<1>1. ASSUME [Next]_vars
      PROVE [admin = None => admin' = None /\ wasm' = wasm]_vars
  BY <1>1 DEF Next, OnlyOwner, ProposeUpgrade, CancelUpgrade, ExecuteUpgrade,
     TransferOwnership, AcceptOwnership, RenounceOwnership, CloseLedger, vars
<1> QED
  BY <1>1, PTL DEF Spec, RenounceFreezesCode
=============================================================================
