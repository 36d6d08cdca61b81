--------------------------- MODULE TimelockedUpgrade ---------------------------
(***************************************************************************)
(* Ownership and code upgrades of a registry contract.  The identity,      *)
(* reputation and validation registries carry the same code; the lines     *)
(* mapped are the identity registry's.  The owner proposes a WASM hash and *)
(* may execute it TIMELOCK_LEDGERS later, or cancel it.                    *)
(*                                                                         *)
(* Ownership is OpenZeppelin's two-step Ownable, modelled from how the     *)
(* contract uses it: a pending owner accepts before a ledger, and an owner *)
(* cannot renounce while a live transfer is pending.                       *)
(*                                                                         *)
(* visible, proposals and settled are history variables: how many ledgers  *)
(* the current proposal has been readable through pending_upgrade, how     *)
(* many proposals were made, how many were executed or cancelled.  Bug_... *)
(* are broken variants of the definitions they precede.                    *)
(***************************************************************************)
EXTENDS Naturals

CONSTANTS
    Addresses, Hashes, None,
    Genesis,          \* the WASM the contract was deployed with
    TIMELOCK_LEDGERS,
    MaxLedger,        \* bound on the ledger sequence
    MaxProposals      \* bound on the proposals made

Ledgers == 0 .. MaxLedger

ASSUME UpgradeAssumption ==
    /\ TIMELOCK_LEDGERS \in Nat /\ MaxLedger \in Nat /\ MaxProposals \in Nat
    /\ None \notin Addresses /\ None \notin Hashes
    /\ Genesis \notin Hashes

VARIABLES
    ledger,    \* current ledger sequence
    admin,     \* Ownable owner, None once renounced
    heir,      \* Ownable pending owner, [to, until]
    pending,   \* DataKey::PendingUpgrade
    wasm,      \* the code the contract runs
    visible, proposals, settled

vars == <<ledger, admin, heir, pending, wasm, visible, proposals, settled>>

NoProposal == [wasm_hash |-> None, proposed_at |-> 0]
NoHeir == [to |-> None, until |-> 0]

Init ==
    /\ ledger = 0
    /\ admin \in Addresses
    /\ heir = NoHeir
    /\ pending = NoProposal
    /\ wasm = Genesis
    /\ visible = 0 /\ proposals = 0 /\ settled = 0

IsPending == pending.wasm_hash # None

Bug_UnownedIsOpen(caller) == admin \in {None, caller}

\* only_owner
OnlyOwner(caller) == admin # None /\ caller = admin

ProposeUpgrade(caller, h) ==
    /\ OnlyOwner(caller)
    /\ ~IsPending
    /\ proposals < MaxProposals
    /\ pending' = [wasm_hash |-> h, proposed_at |-> ledger]
    /\ visible' = 0
    /\ proposals' = proposals + 1
    /\ UNCHANGED <<ledger, admin, heir, wasm, settled>>

CancelUpgrade(caller) ==
    /\ OnlyOwner(caller)
    /\ IsPending
    /\ pending' = NoProposal
    /\ visible' = 0
    /\ settled' = settled + 1
    /\ UNCHANGED <<ledger, admin, heir, wasm, proposals>>

\* saturating_sub
Elapsed == IF ledger >= pending.proposed_at THEN ledger - pending.proposed_at ELSE 0

Bug_OneLedgerEarly == Elapsed + 1 >= TIMELOCK_LEDGERS
TimelockPassed == Elapsed >= TIMELOCK_LEDGERS

ExecuteUpgrade(caller) ==
    /\ OnlyOwner(caller)
    /\ IsPending
    /\ TimelockPassed
    /\ pending' = NoProposal
    /\ wasm' = pending.wasm_hash
    /\ visible' = 0
    /\ settled' = settled + 1
    /\ UNCHANGED <<ledger, admin, heir, proposals>>

-----------------------------------------------------------------------------
(* Ownable *)

HeirLive == heir.to # None /\ heir.until >= ledger

\* live_until 0 withdraws the pending transfer
TransferOwnership(caller, to, until) ==
    /\ OnlyOwner(caller)
    /\ IF until = 0 THEN HeirLive /\ heir.to = to ELSE until >= ledger
    /\ heir' = IF until = 0 THEN NoHeir ELSE [to |-> to, until |-> until]
    /\ UNCHANGED <<ledger, admin, pending, wasm, visible, proposals, settled>>

AcceptOwnership(caller) ==
    /\ admin # None
    /\ HeirLive /\ caller = heir.to
    /\ admin' = caller
    /\ heir' = NoHeir
    /\ UNCHANGED <<ledger, pending, wasm, visible, proposals, settled>>

RenounceOwnership(caller) ==
    /\ OnlyOwner(caller)
    /\ ~HeirLive
    /\ admin' = None
    /\ UNCHANGED <<ledger, heir, pending, wasm, visible, proposals, settled>>

CloseLedger ==
    /\ ledger < MaxLedger
    /\ ledger' = ledger + 1
    /\ visible' = IF IsPending THEN visible + 1 ELSE 0
    /\ UNCHANGED <<admin, heir, pending, wasm, proposals, settled>>

Next ==
    \/ \E x \in Addresses, h \in Hashes : ProposeUpgrade(x, h)
    \/ \E x \in Addresses : CancelUpgrade(x)
    \/ \E x \in Addresses : ExecuteUpgrade(x)
    \/ \E x \in Addresses, t \in Addresses, n \in Ledgers : TransferOwnership(x, t, n)
    \/ \E x \in Addresses : AcceptOwnership(x)
    \/ \E x \in Addresses : RenounceOwnership(x)
    \/ CloseLedger

Spec == Init /\ [][Next]_vars

-----------------------------------------------------------------------------
(* Properties *)

\* The entries keep their types.
TypeOK ==
    /\ ledger \in Ledgers
    /\ admin \in Addresses \cup {None}
    /\ heir \in [to : Addresses \cup {None}, until : Ledgers]
    /\ pending \in [wasm_hash : Hashes \cup {None}, proposed_at : Ledgers]
    /\ wasm \in Hashes \cup {Genesis}
    /\ visible \in Ledgers
    /\ proposals \in 0 .. MaxProposals
    /\ settled \in 0 .. MaxProposals

\* Code changes only to a hash that everyone could read as the pending upgrade
\* for at least TIMELOCK_LEDGERS ledgers without a break: cancelling,
\* proposing again or changing the owner never shortens the notice.
NoticeGiven ==
    [][wasm' # wasm => wasm' = pending.wasm_hash /\ visible >= TIMELOCK_LEDGERS]_vars

\* A proposal is settled at most once: executed or cancelled, it is gone, so
\* one proposal never changes the code twice.
EachProposalSettledOnce == proposals = settled + (IF IsPending THEN 1 ELSE 0)

\* Renouncing ownership freezes the code for good, a proposal that is already
\* past its timelock included.
RenounceFreezesCode ==
    [][admin = None => admin' = None /\ wasm' = wasm]_vars

\* The notice of a pending proposal is the time since it was proposed (what
\* execute_upgrade computes from proposed_at is the notice really given).
NoticeIsElapsed ==
    IsPending => pending.proposed_at <= ledger /\ visible = ledger - pending.proposed_at
=============================================================================
