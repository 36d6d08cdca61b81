# Stellar-8004: specifications, model checks and proofs

TLA+ models of the Stellar-8004 trust layer, from the chain to the screen: the three
Soroban contracts (`contracts/`), the indexer that projects their events into a
database (`webapp/apps/indexer`), and the web application and SDK that read the
database and send transactions and payments (`webapp/apps/web`,
`webapp/packages/sdk`). TLC checks the models on small instances; TLAPS proves most
of their safety properties for every instance.

    tlc -workers 2 -config Identity.cfg MCIdentity      # one run
    tlapm IdentityProofs.tla                            # one proof module

`PROJECT.json` lists the runs with their properties, the source lines behind every
definition (`map`), the hazards the properties answer to, and, for every property,
a mutation of the model that the property catches (`Bug_...` operators).

## The system

| component | state | operations | interaction |
|---|---|---|---|
| identity registry | per agent: NFT owner, approval, URI, wallet, metadata entries and the list of their keys; operators | `register`, `register_with_uri`, `register_full`, `set_agent_uri`, `set_metadata`, `set_agent_wallet`, `unset_agent_wallet`, `transfer(_from)`, `approve(_for_all)` | called by the other two; publishes events |
| reputation registry | numbered feedback per (agent, client), last index, client list (count, slots, flags), response counts | `give_feedback`, `revoke_feedback`, `append_response`, `get_summary`, `get_clients_paginated` | asks identity who controls the agent |
| validation registry | requests by hash, one list per agent and one per validator | `validation_request`, `validation_response`, `get_summary` | repeats identity's authority check by three calls |
| ownership and upgrades (in each contract) | owner, pending owner, pending WASM hash with its ledger | propose, cancel, execute, two-step ownership transfer, renounce | |
| indexer | in D1: lock, checkpoint per contract, tables, dead letters; in memory: a run's scan | cron run: lock, read checkpoints, scan windows, write batches, replay, defer or skip, save, release | polls RPC nodes for events; runs may overlap, die and be replaced |
| event parsers | none | topics and data to typed events | between the contracts' `#[contractevent]`s and the indexer's SQL |
| URI resolver | per agent: pending flag, try count, document | select, record the try, fetch (`uri.ts`), store | shares the `agents` rows with the event writer |
| leaderboard, cards, API | none (SQL views and queries) | scores, breakdowns, listings, pages | read the live tables, may be cached |
| explorer client (SDK) | a walk: query, cursor or page, retries | `discover`, `getAgents`, `search` | calls the API, retries |
| wallet session | address and network in the store, key in the signer | restore, connect, disconnect, read the network | asks the Freighter extension, whose account and network change by themselves |
| payment panel | phase, quote, challenge, calls under way | open, submit, confirm, sign, cancel, time out | services that answer 402, Freighter |
| register, agent and edit pages | form texts, draft in `sessionStorage`, statuses, timers, polls | type, submit, reload, navigate, poll | send transactions, read what the indexer and the resolver wrote |

What is hard here, and so what the properties are about:

* the contracts keep multi-key indexes by hand (metadata keys, client list, two
  request lists), and correctness is about all their entries agreeing after any
  sequence of calls of several parties;
* authority over an agent comes from three sources (owner, token approval,
  operator) that expire or are dropped by a transfer, and two contracts ask for it
  in different ways;
* the same numbers are computed five times (contract, view, API, page, cards), and
  every event has its schema in two languages;
* the indexer is a distributed reader: overlapping runs, a lock that goes stale
  under a living run, nodes that lag behind each other, pages that end inside a
  transaction, crashes between a write and the checkpoint that covers it, events
  that can never be written, ledgers that leave the RPC's retention window;
* events are delivered more than once, and a fetched document arrives after the
  URI it belongs to has changed;
* in the browser nothing stops a call: a signature, a transaction or a fetch goes on
  when its panel is closed or its page left, and answers onto whatever is there then;
* clients page through tables that change between two pages.

## Modules

Each action is one successful contract invocation (Soroban invocations are atomic;
an error or a panic is a disabled action), or, for the indexer and the web
application, what runs between two awaits.

| module | models | composed of |
|---|---|---|
| `IdentityRegistry` | `identity-registry/src/{contract,storage,events}.rs` | |
| `TimelockedUpgrade` | the upgrade code and Ownable of all three contracts | |
| `ReputationRegistry` | `reputation-registry/src/{contract,storage}.rs` against the interface of identity | |
| `FeedbackSummary` | `get_summary` of the reputation registry | extends `ReputationRegistry` |
| `ValidationRegistry` | `validation-registry/src/{contract,storage}.rs` against the interface of identity | |
| `Registries` | the three contracts on one ledger | extends `IdentityRegistry`, instantiates the other two with state functions of it |
| `EventWire` | ScVals on the wire and `chain/helpers.ts` | |
| `IdentityEvents` | `events.rs` and `parsers/identity.ts` | extends `IdentityRegistry`, instantiates `EventWire` |
| `ReputationEvents` | `events.rs`, `parsers/reputation.ts`, the feedback statements of `db.ts`, the leaderboard view, the page's and the API's queries | extends `FeedbackSummary`, instantiates `EventWire` |
| `ValidationEvents` | `events.rs`, `parsers/validation.ts`, the validation statements, the page's query | extends `ValidationRegistry`, instantiates `EventWire` |
| `Indexer` | `indexer.ts`, `index.ts`, lock, checkpoints and dead letters of `db.ts` | |
| `EventProjection` | the identity statements of `db.ts`, the transfer trigger, `resolve.ts` | extends `IdentityRegistry` |
| `UriFetch` | `resolveUri` of `uri.ts` | |
| `WalletSession` | `wallet.svelte.ts` and the Freighter signer | |
| `TryAgent` | `TryAgentPanel.svelte`, `mpp-client.ts`, `x402-client.ts` | extends `WalletSession` |
| `AgentPages` | the register, agent and edit pages, their forms, `ProfileBadge` | extends `UriFetch` |
| `Discovery` | `/api/v1` and `/api/v2` listings, `ExplorerClient`, the agents list and the leaderboard page | |
| `*Proofs` | theorems | each extends its component |
| `MC*` | symmetry sets, views, chains and small values for TLC | |

**IdentityRegistry.** The variables are the storage keys (`DataKey`), plus
OpenZeppelin's owner, approval and operator entries, which are external code modelled
from how the contract uses it. `Mint` is the common body of the three registrations:
it publishes the wallet's `metadata_set` and the metadata before `registered`, as the
code does. `Handover` is both transfer overrides. `keys` is a set because the code
keeps a list without repetitions whose order nothing reads. `tx` records signers and
events of the last invocation. Archival and TTL bumps are left out: an entry never
disappears.

**TimelockedUpgrade.** `visible`, `proposals` and `settled` are history variables
that make the notice a statement about what observers could see, not about the
stored `proposed_at`.

**ReputationRegistry, ValidationRegistry.** The identity registry appears through the
answers the contract asks for (`authority`; `find_owner`, `get_approved`,
`operator_of`), which `IdentityMoves` changes at will except that agents never
disappear. That makes each module the specification of what the contract promises
next to any such registry. `u32` counters overflow at `MaxClients`, `MaxRequests` and
`MaxResponses`, where the code's `checked_add` fails.

**FeedbackSummary.** `get_summary` step by step: which clients are read, the
normalisation to WAD decimals, the checked sum, the most frequent decimals, the two
divisions towards zero. The reference is the exact sum over the set of live feedback.
The word (`MaxI128`) and the WAD are constants, small in the run, so that overflow
happens.

**Registries.** The interface variables become state functions of the identity
registry (`Authority`, `LiveApproval`, `LiveOperators`); `Rep!Spec` and `Val!Spec`
are then properties of the composition: the abstract registry is implemented by the
real one, in which authority changes with every approval, expiry and transfer.

**EventWire, IdentityEvents, ReputationEvents, ValidationEvents.** A value on the wire
keeps its ScVal type, so that reading an address where a number is, or a topic where a
field is, fails as it does in the parsers. The properties follow one event from the
contract's state before the call, over wire, parser and statement, to the table; the
tables are state functions of the contract's storage (`Tables`, `Table`), and what is
delivered again is any event of the `History`. `ReputationEvents` goes on to the
screen: the cards, the breakdown per client, the API's records and the leaderboard's
score against `get_summary`.

The contracts take any bytes for a text. `Decode` is the `TextDecoder` of `helpers.ts`,
which is not fatal: bytes that are not valid UTF-8 (`NotUtf8`) come through as the text
with U+FFFD for what is invalid (`Replaced`), so that two different ones may become one
text. `EventsUnderstood` says that such an event is read, and as which text.

What the page reads is cut: the last 50 feedback, the last 200 responses, the last 100
validations, and 20 clients of the feedback read. `Newest` gives every set of rows the
query may have returned, because the storage does not keep the order in which the rows
were inserted and an event that was held back is inserted late. So the
properties have two halves: whatever was cut, what is shown is what the contract has; and
where nothing was cut, everything the contract counts is shown. The API's list is taken
page by page (`page`, `limit`, `hasMore`). `NumberOf` is JavaScript's `Number`, exact up
to 2^53. A displayed score is one division of numbers, known by its operands; averages
added in floating point (the breakdown's) are compared by what is added. The leaderboard's
score is compared where the view says `score_exact`; where it falls back on REAL, the
model has no value (`None`).

**Indexer.** `run[r].pc` is the await a run is at: `read` and `health`
(`indexContracts`), `begin` and `clamp` (start of `indexContract`), `loop`
(`getEvents`), `write` and `missing` (`writeEvents`, `recordMissingParents`), `end`,
`release`. An event is reduced to what steers the control flow: its ledger, whether
it parses, the row it creates, needs (foreign key) or updates, and whether it breaks
a constraint regardless. The chain of events is a constant. Everything that fails
outside the code (crash, error, deadline, lagging node, lock aging under a living
run) uses one of `MaxFaults` faults. A dead letter counts as reported when the code
tries to record it, because it logs the event if the insert fails.
The initial state is the one after cutover: checkpoint rows present, copy fence gone.

**EventProjection.** `log` is what the identity registry published; `row` is a row of
`agents` with its `agent_metadata`. `Written` is `eventStatement`. A run may be taken
over at any time and may end after any event, so a page is written, abandoned and
written again with other cuts. A page is a set of places in the log, written in the
order of `ParentsFirst`. The empty string the contract announces where it
stores no URI is modelled; that the parser reads the events as the contract meant
them is `EventsUnderstood` of `IdentityEvents`. Keys and URIs are valid UTF-8 here: two
keys that are not may decode to one text, and then share a row.

**UriFetch.** One try of `resolveUri`. A data URI has its document, or something wrong
with it (too long, no comma, not JSON, a payload that does not decode). A host is refused
when it is private by name or a bare address, or when one of its DNS records is private;
without DNS (`HasDns`, a Worker has none) and for a name without records that last check
lets the host pass, as in the code. Which hosts are private is a constant: the
lists of prefixes are data.

**WalletSession, TryAgent.** A session call (`asked`) goes through the extension's
two answers, access and network, while other calls and a disconnect happen. The panel
has one screen (`panel`) and any number of calls (`call`) that write to it; a call
keeps the price that was on screen when it was confirmed (`shown`), to compare with
what is signed. Request bodies and headers are left out; a quote is a scheme, the
networks its `accepts` list, and a price. The x402 guard (`X402Accepts`) refuses only when
networks are listed and none is the application's; which of the accepts is then paid is
the choice of the x402 library, which is not modelled.

**AgentPages.** One person, one tab, one agent that is followed; the chain, the
indexer (`Index`) and the resolver (`ResolvePending`) act in between. `page` is
the page on screen with what `load` returned to it, `form` the status each form
shows, `sent` the transaction of each form, which outlives the form (`live`). The page of
any other agent is the same component (`at = "other"`): going from one to the other keeps
it, with its polls, timer and editor, and `onMount` does not run (`Stays`, `Arrived`);
`kept` marks a component that waits for an agent it was not mounted for. Of the states of
another agent there are one that waits and one that does not. `registered=true` is a
parameter of the address, which any link may carry (`Visit(AgentPage(TRUE))`). A document
is the text the forms edit. What happens when the URI changes during a fetch is in
`EventProjection`.

**Discovery.** `walk` is a client in the middle of a listing: by cursor
(`/api/v2/discovery`), by page number (`/api/v1/agents`, accounts, the agents list,
the leaderboard) or in one page (search). A `Listing` is an endpoint with a sort and a
direction: date, id, score, number of feedback, and the relevance of a text search.
`relevance` is `agents_fts.rank`, which SQLite computes from the whole corpus: any
document that is written moves it for every agent. `/api/v1` takes a page number beyond
10000 for 10000 (`Clamped`). `touched` and `sank` are history variables: the agents that
changed during the walk, and whether one left its place downwards or the search was
ranked anew. The pager's way back to the previous page is left out.

## Runs

| run | config | instance | shows |
|---|---|---|---|
| `identity` | `Identity.cfg` | 1 agent, 3 addresses, 2 keys with room for 1, approvals that expire | metadata index, authority, inheritance; every event is understood by the parser, in UTF-8 or not |
| `upgrade` | `Upgrade.cfg` | 2 addresses, 2 hashes, timelock 2, 6 ledgers, 3 proposals | notice of upgrades, renouncing |
| `reputation` | `Reputation.cfg` | 1 agent, 2 addresses, 2 clients with 2 feedback each, lists of up to 3 clients of which 2 are read, values below zero, near the word's limit, beyond the exact numbers and not in UTF-8, pages that read 3 feedback and 3 responses and list 1 client | feedback lists, client pages, summary arithmetic, tables and screens |
| `validation` | `Validation.cfg` | 2 addresses, 3 hashes, lists of 2 (both fill up), answers 0, 100 and 101, a page of 1 | request lists, summary, table |
| `registries` | `Registries.cfg` | 1 agent, 2 addresses, 3 ledgers | the composition implements the parts |
| `indexer_safety` | `IndexerSafety.cfg` | 2 runs, 2 faults, 2 contracts, 3 ledgers, pages and batches of 2, one ledger leaves retention | checkpoints, no silent loss |
| `indexer_liveness` | `IndexerLiveness.cfg` | 2 runs, 1 fault | the indexer catches up |
| `indexer_skip` | `IndexerSkip.cfg` | 1 run, two failing events in a page | the finding below |
| `projection` | `Projection.cfg` | 2 runs, 3 invocations over 2 ledgers, 2 URIs | replays converge; owner and URI never go back to an older ledger; documents match |
| `try_agent` | `Try.cfg` | 2 accounts, 2 networks, 2 connects and the restore, 1 service, quotes by MPP (two prices) and x402 (a mixed list and a foreign network), 2 calls, 2 of all these calls out at once | session, signed prices, spinners |
| `pages` | `Pages.cfg` | 1 account and a stranger, 1 agent and the pages of others, URIs as data (one malformed), on IPFS and on the web, 2 polls, 1 resolver try, 1 transaction out | drafts, forms that submit, waiting |
| `discovery` | `Discovery.cfg` | 2 agents and a third that registers, pages of 1 and 2 rows, a last page 2, 2 relevances, 2 changes, 2 walks, 1 retry, 1 cached page | pagination and retries |

Why the bounds are enough to meet the cases: three addresses are an owner, an approved
third party and a buyer; a limit of one metadata entry with two keys reaches the limit,
a refusal and a rewrite at the limit; two feedback per client make a revoked one precede
a live one, two addresses both become clients when the agent changes hands, lists of
three clients are cut and name one twice, and a word of 1000 with a WAD of 2 overflows
with three large values and rounds negative averages; of four feedback the page reads
three, of more answers three, and of two clients it lists one; validation lists of two
with three hashes overflow, and the page shows one of two. The indexer's chain has a
registration whose three events a page of two cuts apart, a registration nobody can
parse with a child in each contract, and updates of rows that were lost; two faults
allow, say, a lagging node and a takeover. Two ledgers and three invocations of the
projection contain two transfers, or a write on each side of a transfer, in one ledger
or two; they leave approvals out, which write no row. Two calls of the payment panel are
one that was cancelled and the one that replaced it; two prices by MPP are what is shown
and what is signed; two accounts and two connects are the account shown and the one the
extension switched to in between. On the pages two polls are one that reloads and one
that gives up, and a single account meets the late count through a disconnect; that the
count is right for any number of accounts is a theorem. A third agent that registers or
is rescored while pages of one and two rows are walked shifts rows across every page
boundary; scores of -1, 0 and 101 are clamped at both ends by discovery's `SCORE` and
make ties; three agents on pages of one row reach past the last page of two.

Three runs cut their states with a constraint. `Try.cfg` (`FewOut`): of the session's
and the panel's calls two are out at once; the fair actions end calls and start none, so
that no fair step leads out of the states kept. `Pages.cfg` (`FewOut`, `OneForm`,
`OwnAgent`): the badge fetches while no transaction is out and keeps a count off the
forms' pages, one form at a time is worked on, its timers run out before the next
transaction is sent, and the followed agent is no stranger's; the fair action, the poll,
changes none of these. `Discovery.cfg` (`SecondWalkReads`): a second walk is followed
where the cache holds a page of its listing, because it is like a first one otherwise.
`SubmittingIsReal`, `CountIsOwn`, `SessionAgrees`, `ShownIsSigned`, `BusyIsReal`,
`UnmovedSeenOnce` and `OffsetSkipsOnlyOnDeparture` are theorems without any of these
bounds.

Symmetry sets are permutations of addresses, hashes, URIs or runs, which the models use
only through equality; no liveness property is checked under symmetry. The views drop
variables that every step overwrites and none reads (`tx`, `published`) or history
variables that no property of the run reads. Deadlock is checked except in `upgrade`,
where a renounced contract may stop for good, and in `discovery`, where the walks and
changes of the instance are finitely many.

**Fairness.**

* `indexer_liveness`: weak fairness of ledgers closing, a lock going stale (time
  passes), the cron starting a run when the lock is free or stale, and the next step
  of a started run. The cron schedule, the timeouts on every RPC call and Workers'
  execution of a promise to its end justify them; a run that does not go on is a
  crash, which is a fault. Faults are finitely many: no liveness can be expected of an
  indexer that fails for ever.
* `try_agent`: weak fairness of the answers to fetches, which carry an
  `AbortSignal.timeout`, and of the 60 s timer of a signature. None of Freighter and
  none of the person: a popup may stay open for ever.
* `pages`: weak fairness of the poll, a `setInterval`. None of the chain, the indexer
  or the resolver: `WaitEnds` holds though the agent may never be indexed.
* `discovery`: weak fairness of the answer to a request (a page, an error or the
  client's own timeout).

### Finding

`indexer_skip`: `indexer.ts:42` and `indexer.ts:221` say that an event is skipped
after runs deferred at that same event and that a later failure gets its own
deferrals. The flag is computed once per page, so when the stuck event is finally
skipped, every other failing event of the page is skipped with it.

### Other divergences

Places where a comment, a text or a document says more than the code does, met while
modelling; the models follow the code.

* `db.ts:246` says that mutations are guarded by their ledger, so that a replayed
  older event never undoes a newer one. `walletSet` and `metadataSet` have no guard,
  and a transfer is compared with transfers only. A replay puts an older wallet or
  metadata entry back until it reaches the newer event; `ProjectionConverges` says
  that it always does while runs do not overlap. With two writers (a run that lost its
  lock) the older value may stay. The guards there are (`db.ts:216`, `db.ts:223`) compare
  with `<=`: within one ledger an older owner or URI written late undoes the newer one, and
  `OwnerAndUriNeverUndone` is about older ledgers only.
* The SDK's README says of `discover()` that "pages never skip or repeat an agent".
  That is so for agents that keep their place (`UnmovedSeenOnce`); one that is rescored
  between two pages may be skipped or repeated.
* `agents/+page.svelte:22` says that `goto()` remounts the page. Navigation on the
  same route keeps the component, so the filter chips keep their state while the search
  and sort forms leave those filters out of the query.
* `WalletBinding.svelte:182` asks for two signatures to bind another address; the code
  collects the caller's only, and the contract refuses the transaction.
* `metadata.ts:72` says that unknown fields survive an edit. Unknown fields of the
  document do; unknown fields of a service do not, because the edit page takes over five
  fields of each (`edit/+page.svelte:67`). No property is stated of it: the models do not
  follow the fields of a document.
* `TryAgentPanel.svelte:370` says that the panel refuses to sign for another network
  than the application's. A list of accepts with the application's network and
  another passes, and so does one without networks; the x402 client, registered for
  `stellar:*`, then chooses.
* `agents/[id]/+page.svelte:34` starts the polling in `onMount`. A registration that is
  confirmed while the page of another agent is on screen keeps that component: no poll
  starts, and "Waiting for indexer..." stays until the page is loaded again. `WaitEnds`
  is about the pages that were mounted for their agent.
* The page says that an agent has been registered whenever the address says
  `registered=true` (`agents/[id]/+page.server.ts:89`), of an agent that does not exist too.
* `/api/v1` takes every page beyond 10000 for page 10000 (`handlers.ts:33`,
  `server.test.ts:350`) and compares that number with the total. With more agents than
  fit, a caller that follows `hasMore` is given the last page again and again. `WalkEnds`
  says that nothing else keeps a walk from ending.
* The edit page's folded sections never open (`MetadataEditor.svelte:21` keeps them in
  a plain `Set`, which Svelte does not track), so an agent with an `ipfs://` URI cannot
  be switched to a document of the form, and saving sends its old URI again.

## Proofs

Checked by TLAPS, for all values of the constants that satisfy the assumptions the
modules name. Most say that bounds are naturals, that the markers for "nothing"
(`None`, `Null`, `Ghost`) are no ordinary values, that the reserved key is a key and the
key set finite. The others say something of the system:

* `IndexerAssumption`: a contract's events come in the order of their ledgers.
  `StreamAssumption`: a row is created by one event of identity or of the contract
  itself, which precedes the events about the row, is not ignored by the parser, and
  precedes them in the order in which the indexer writes. The contracts guarantee it
  (`RegisteredOnce` below proves it of the identity registry).
* `WireAssumption` (one in each of the three `...Events` modules): what the parsers
  return for an event they refuse is no event, an address is never the empty text, and a
  text with a replacement character in it is neither an address, nor empty, nor a key or
  tag the code knows by name.
* `PageAssumption`: the limits of the page and the API are naturals, the API's at least 1.
* `SummaryAssumption`: an admissible value has at most WAD decimals; WAD is at least 2,
  for the leaderboard's hundredths (18 in the code); `get_summary` reads at least one
  client (5 in the code); a summary is not `None`.
* `DiscoveryAssumption`: agents registered later are not dated earlier, and `/api/v1` has
  at least one page.
* `UriFetchAssumption`, `PagesAssumption`: the hosts of the gateways and of web URIs are
  hosts of the model.

The bounds (`MaxAgents`, `MaxLedger`, `MaxFaults`, ...) stay parameters of arbitrary
size, and so do page sizes, batch sizes, the chain of events and the number of runs.

* `UpgradeProofs`. The invariant adds to the types that a pending proposal was made
  at a past ledger and has been visible exactly since; without it `execute_upgrade`'s
  arithmetic on `proposed_at` would say nothing about notice.
* `IdentityProofs`. `IdentityInv` is the conjunction of `TypeOK`,
  `AgentsArePermanent`, `MetadataIndexed` and `MetadataBounded`. No conjunct is
  inductive alone: the limit is checked on the key list, so it bounds the entries only
  if the list names them all, and a transfer clears through the list. The action
  properties (`NoClaimInheritance`, `OnlyAuthorizedChanges`, `WalletConsents`,
  `TransferEndsApprovals`) follow from the invariant, action by action.
  `EventsRead` is in two parts: the parser gives back what the contract put on the wire, decoded,
  event type by event type, through the topics and the body (`EventReadBack`); and every
  step publishes only such events (`StepPublishes`), with a wallet or nothing under the
  reserved key, by which the parser tells a wallet set from a wallet unset.
* `ReputationProofs`. `FeedbackContiguous` and `ClientsIndexed` support each other:
  a client without flag has no feedback, so its first index is 1 and its slot is free.
  `PagesListEveryClient` follows from `ClientsIndexed` and arithmetic on page numbers:
  each slot is on exactly one page (`SlotHasPage`, `PlaceIsUnique`). `TablesFollow`: the
  tables are the image of the storage under `RowOf` and `AnswersTo`, and each event,
  through wire, parser and SQL, takes the image before the call to the one after it
  (`GivenAddsRow`, `RevokedMarksRow`, `ResponseAddsRow`). It needs all of the invariant:
  a new number has neither a row nor responses, what is stored is admissible
  (`BodiesAdmissible`), or the parser would refuse its decimals, and the responses of a
  feedback are numbered 1 to their count, or the next number would not be the contract's.
  `ReplayChangesNothing` is the part about an indexer that starts over.
  `SummariesAverage` and `PageAgrees` need no further invariant: in every state of
  `ReputationInv` and `BodiesAdmissible` the loops of `get_summary`, the maps of the page
  and the query of the leaderboard are about the same feedback. The argument:
  * Induction is over sets, not predicates (`NatSetInduction`, from the library's
    well-foundedness of `<`, and `SubsetInduction`): with it the recursions of the model
    have the solution they describe (`Pow10Unfolds`, `SumFoldExists`, `IterationExists`)
    and a sum depends neither on the order nor on the names of what is added
    (`SumOverTakesAny`, `SumOverRenamed`, `SumOverScaled`).
  * The list `get_summary` reads has every live feedback of the clients it names once for
    each time it names them (`Listed`, `LiveBodiesListed`, `FlattenListed`,
    `SummarisedListed`): this is where contiguous numbering is used. So its length and
    its checked sum are those of a set, and a running sum that overflows is the sum of
    some of the feedback (`EntriesSummed`). Two divisions towards zero, by the count and
    by a power of ten, are one by their product (`NestedQuotients`).
  * The rows of the tables, and what page and API make of them, correspond one to one
    to the live feedback (`EntryMap`, `SameEntries`), finitely many, because every client
    with feedback is in the client list (`LiveFinite`). The leaderboard adds at the most
    decimals present and not at WAD; scaled, that is the same sum, and rounding is off by
    half a hundredth at most (`NearestRounds`, `ScaledBound`).
  * The limits: the rows a query returns are some of the agent's, and all of them when
    they fit (`NewestRows`), so each part is proved for any subset of the rows and
    strengthened for all of them (`ClientsOfPage`, `CardAgrees`, `ApiAgrees`). A client
    left out has no more feedback than each of the clients shown (`Breakdown`).
* `ValidationProofs`. `ListsMatchRequests` needs that requests are new when listed;
  `SummaryCountsRequests` follows from it; `RequestsArePermanent` needs that
  `last_update` is not in the future. `TableFollows`: the table is the image of the
  storage under `RowOf`, and each event, through wire, parser and SQL, takes the image
  of the storage before the step to the one after it (`RequestAddsRow`,
  `ResponseChangesRow`). Answers rest on `last_update` too: the ledger guard lets the
  event through because the row is not from a later ledger, and turns older ones away.
* `SystemProofs`. First the refinement: initial states map to initial states; an
  identity call maps to `IdentityMoves` (this is where `AgentsArePermanent` is used),
  a reputation or validation call to itself or to a stutter. Then the projection, in
  three invariants, each resting on the one before.
  * `ChainInv`: the log is ordered, every agent is registered once and before its owner
    or URI changes, and the contract's storage is what the last event about each cell
    says (`LogTellsChain`). It says that the events suffice to rebuild the storage,
    the indexer apart.
  * `WriterInv` is about any number of overlapping runs: every event a run has passed
    has its row, and the ledgers the SQL guards compare with are those of the events
    that set the columns (`Guards`). `OwnerAndUriNeverUndone`, `DocumentMatchesUri`
    and `NoUriStranded` need no more.
  * `Alone` is for runs that do not overlap: a cell that no event still to be written
    is about is as on the chain (`Agrees`). When everything is written nothing is left
    out, which is `ProjectionConverges`. It is an implication from `alone`, because a
    second writer may put an older wallet back (see *Other divergences*).
* `IndexerProofs`. `ScanInv` says of each run where it is in its window (`Bounds`), what
  it has in memory (`Buffers`), and that every event it has passed is accounted for, in
  its queue or held back (`Covers`). None of it depends on the lock: a run that lost the
  lock goes on writing, and only its checkpoints are refused. What is accounted for
  never ceases to be (`RunInvGrows`), so what one run knows no other run can falsify.
  `HolderSeesCheckpoints`, `DependentsBehindIdentity`, `NoSilentLoss` and
  `CheckpointsMonotone` follow. `ParentInv` adds that the parent of every queued event
  is accounted for or ahead of it in the queue, for which the sort of the page and the
  events held back from a ledger that may go on matter (`PageParents`);
  `GivenUpOnlyWithParent` follows.
* `DiscoveryProofs`. A place in a listing is a rank, the cardinality of the set of rows
  before it; ranks follow the order, are injective and onto (`RankIsOnto`). With a
  cursor, the unchanged agents seen are exactly those the cursor is past (`CursorInv`),
  whatever the others do; a cached page is still right about the unchanged ones
  (`CacheInv`), even between pages of another size. With page numbers, an unchanged
  agent not seen yet ranks on this page or a later one as long as nothing sank
  (`OffsetInv`). Past the last page of `/api/v1` the walk is served an earlier page than
  it asked for and asks again: it learns nothing, and is not told it is done. For a text
  search a rank is as good as any other key while no document is written; when one is,
  `sank` says so.
* `WebProofs`. The panel implements the session's specification (`PanelKeepsSession`),
  so the session's invariant, proved once, holds under the panel (`SessionInPanel`).
  What is signed is not inductive: a call takes its challenge from the panel, so
  `SignInv` adds that the panel's price is its challenge's while its protocol is MPP.
  `BusyIsReal` is inductive next to the types. Of the pages, `CountIsOwn` is inductive
  next to the badge's type; `DraftKept` needs only that nobody types nothing.
  `SubmitInv` adds to `SubmittingIsReal` the shape of `form` and `sent`; its steps are of
  two kinds, a form that changes with its own transaction (`OneFormStep`) and forms that
  go, whose transactions are orphaned (`GoneStep`).

Type invariants are proved and not repeated in the runs; `ScanInv`, `ParentInv`,
`ChainInv`, `WriterInv`, `Alone` and `DiscoveryInv` were checked by TLC on the instances
of the runs before they were proved.

Only model-checked:

* the liveness properties `CatchesUp`, `NeverStuck`, `WaitEnds` and `WalkEnds`: fairness
  is out of the prover's reach;
* the property of `indexer_skip`, which is violated.

## Plan

Done: the contracts, their composition and proofs; the summary's arithmetic; the way
of every event from the contracts to the tables and the screen; the indexer's control;
the projection with the resolver; the wallet session, the payment panel, the pages and
the listings; every safety property of these as a theorem. Next: an abstract reader
specification (a prefix of the chain, growing) that the projection implements between
runs.

## Not modelled

Storage TTLs and archival; error codes, texts and log lines; the byte layout of XDR and
of payment headers; tokenising of search texts; which network the x402 library pays on; the
fields of a document, one by one; the averages in floating point and the REAL fallback of
the leaderboard; the previous page of a listing; the widgets inside the forms (services,
trust, preview) beyond the text they edit; the API's single reads (detail, statistics,
health); the SDK's generated bindings, uploaders and key-pair signer; the static and
demonstration pages, the theme, the evidence viewer and the components no route uses;
the one-off database scripts. They keep no state that another part reads, or are
generated.
