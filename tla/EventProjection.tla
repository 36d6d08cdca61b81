---------------------------- MODULE EventProjection ----------------------------
(***************************************************************************)
(* What the indexer's rows say about the agents: the identity registry     *)
(* publishes events, runs of the indexer write them, in pages of complete  *)
(* ledgers and again after a crash, and resolve the documents behind the   *)
(* URIs.  Module Indexer has the scan, the lock and the failures in        *)
(* detail; here a page may be abandoned after any of its events and a run  *)
(* may lose the lock at any time.                                          *)
(*                                                                         *)
(* A page is written one event per step, as writeEvents does when it       *)
(* replays a batch; a batch is a series of such steps.  Events that fail   *)
(* to parse or are skipped are left to module Indexer.                     *)
(***************************************************************************)
EXTENDS IdentityRegistry

CONSTANTS
    Writers,       \* runs of the indexer that may be alive at once
    MAX_ATTEMPTS,  \* tries before a URI is given up
    MaxTx          \* bound on the invocations that publish events

\* Rows of agents, with their agent_metadata.
Rows == [owner : Addresses, uri : Uris, uri_updated_ledger : Ledgers \cup {None},
         wallet : Addresses \cup Values \cup {None}, transferred_ledger : Ledgers \cup {None},
         metadata : [Keys -> Addresses \cup Values \cup {None}],
         doc : Uris \cup {None}, pending : BOOLEAN, attempts : Nat]

ASSUME ProjectionAssumption ==
    /\ MAX_ATTEMPTS \in Nat /\ MaxTx \in Nat
    /\ None \notin Writers \cup Ledgers \cup Rows

VARIABLES
    log,      \* the events of the contract with their ledgers, in chain order
    row,      \* the agents table with its agent_metadata rows (None: no row);
              \* doc is agent_uri_data, as the URI it was fetched from
    expected, \* indexer_state.expected_next_ledger of the identity contract
    holder,   \* owner of the indexer lock
    run,      \* the local state of each run
    newest,   \* history: the latest ledger written about a guarded column
    alone     \* history: no run started while another was alive

chain == vars
dbVars == <<row, expected, holder, run, newest, alone>>
allVars == <<chain, log, dbVars>>

\* from: first ledger to scan.  page: events to write, as indexes of log.
\* to: last ledger of the page.  agent, uri, attempts: a PendingAgent.
NoRun == [pc |-> "idle", from |-> 0, page |-> {}, to |-> 0,
          agent |-> 0, uri |-> None, attempts |-> 0]

\* The columns whose updates carry a ledger guard, and the events about them.
GuardedColumns == {"owner", "uri"}
SetsColumn(e, c) == e.type = IF c = "uri" THEN "uri_updated" ELSE "transfer"

ProjectionInit ==
    /\ Init
    /\ log = <<>>
    /\ row = [id \in Agents |-> None]
    /\ expected = 0
    /\ holder = None
    /\ run = [w \in Writers |-> NoRun]
    /\ newest = [id \in Agents |-> [c \in GuardedColumns |-> None]]
    /\ alone = TRUE

Transactions == IF log = <<>> THEN 0 ELSE log[Len(log)].txHash

\* An invocation of the registry, or a ledger closing.  The last ledger of the
\* bound stays empty: it never closes, so nobody would index it.
Publish ==
    /\ ledger < MaxLedger
    /\ IF Transactions < MaxTx THEN Next ELSE CloseLedger
    /\ log' = log \o [i \in DOMAIN tx'.events |->
                         [event |-> tx'.events[i], ledger |-> ledger,
                          txHash |-> Transactions + 1]]
    /\ UNCHANGED dbVars

-----------------------------------------------------------------------------
(* eventStatement: one statement per event *)

\* INSERT ... ON CONFLICT DO NOTHING
OnRegistered(r, e) ==
    IF r # None THEN r
    ELSE [owner |-> e.owner, uri |-> e.uri, uri_updated_ledger |-> None,
          wallet |-> None, transferred_ledger |-> None, metadata |-> NoMetadata,
          doc |-> None, pending |-> e.uri # EmptyUri, attempts |-> 0]

\* The ledger a guard compares with, NULL admitting every event.
NotAfter(stored, l) == stored = None \/ stored <= l

Bug_ResolverNotRearmed(r, e, l) ==
    IF NotAfter(r.uri_updated_ledger, l) /\ ~(r.uri_updated_ledger = l /\ r.uri = e.uri)
    THEN [r EXCEPT !.uri = e.uri, !.doc = None, !.attempts = 0, !.uri_updated_ledger = l]
    ELSE r

\* Not for an older update, nor for the one applied already.
OnUriUpdated(r, e, l) ==
    IF NotAfter(r.uri_updated_ledger, l) /\ ~(r.uri_updated_ledger = l /\ r.uri = e.uri)
    THEN [r EXCEPT !.uri = e.uri, !.doc = None, !.attempts = 0,
                   !.pending = e.uri # EmptyUri, !.uri_updated_ledger = l]
    ELSE r

\* The parser turns metadata_set for the reserved key into AgentWalletSet and,
\* for empty bytes, AgentWalletUnset.
OnMetadataSet(r, e) ==
    IF e.key = ReservedKey THEN [r EXCEPT !.wallet = e.value]
    ELSE [r EXCEPT !.metadata[e.key] = e.value]

Bug_TransferUnguarded(r, e, l) ==
    [r EXCEPT !.owner = e.to, !.wallet = None, !.transferred_ledger = l,
              !.metadata = NoMetadata]

\* The trigger agents_transfer_clears_metadata included.
OnTransferred(r, e, l) ==
    IF NotAfter(r.transferred_ledger, l)
    THEN [r EXCEPT !.owner = e.to, !.wallet = None, !.transferred_ledger = l,
                   !.metadata = NoMetadata]
    ELSE r

\* An update of a missing row changes nothing.
Written(r, e, l) ==
    IF e.type = "registered" THEN OnRegistered(r, e)
    ELSE IF r = None THEN r
    ELSE CASE e.type = "uri_updated" -> OnUriUpdated(r, e, l)
           [] e.type = "metadata_set" -> OnMetadataSet(r, e)
           [] e.type = "transfer" -> OnTransferred(r, e, l)

\* agent_metadata references agents.
BreaksForeignKey(r, e) ==
    e.type = "metadata_set" /\ e.key # ReservedKey /\ r = None

-----------------------------------------------------------------------------
(* A run of the indexer *)

At(w, pc) == run[w].pc = pc

\* The lock is free, or its holder outlived LOCK_STALE_MS and is taken over.
StartRun(w) ==
    /\ At(w, "idle")
    /\ holder' = w
    /\ run' = [run EXCEPT ![w] = [NoRun EXCEPT !.pc = "index", !.from = expected]]
    /\ alone' = (alone /\ \A v \in Writers : At(v, "idle"))
    /\ UNCHANGED <<chain, log, row, expected, newest>>

IsRegistration(i) == log[i].event.type = "registered"

Bug_ChainOrder(i, j) == i < j

\* Event i of a page is written before event j: a registration publishes its
\* metadata before Registered, so these come first.
ParentsFirst(i, j) ==
    IF IsRegistration(i) = IsRegistration(j) THEN i < j ELSE IsRegistration(i)

\* The log indexes of the events of some ledgers.
EventsOf(first, final) == {i \in DOMAIN log : log[i].ledger \in first .. final}

\* getEvents: the events of some closed ledgers, all of each.
GetPage(w, to) ==
    /\ At(w, "index")
    /\ to \in run[w].from .. ledger - 1
    /\ run' = [run EXCEPT ![w] = [NoRun EXCEPT !.pc = "write", !.to = to,
                                     !.page = EventsOf(run[w].from, to)]]
    /\ UNCHANGED <<chain, log, row, expected, holder, newest, alone>>

WriteEvent(w, i) ==
    LET e == log[i].event
    IN /\ At(w, "write") /\ i \in run[w].page
       /\ \A j \in run[w].page \ {i} : ParentsFirst(i, j)
       /\ ~BreaksForeignKey(row[e.agent], e)
       /\ row' = [row EXCEPT ![e.agent] = Written(@, e, log[i].ledger)]
       /\ run' = [run EXCEPT ![w].page = @ \ {i}]
       /\ newest' = [newest EXCEPT ![e.agent] = [c \in GuardedColumns |->
                        IF SetsColumn(e, c) /\ NotAfter(@[c], log[i].ledger)
                        THEN log[i].ledger ELSE @[c]]]
       /\ UNCHANGED <<chain, log, expected, holder, alone>>

\* saveCheckpoint: refused, ending the run, once another run took the lock.
SavePage(w) ==
    /\ At(w, "write") /\ run[w].page = {}
    /\ IF holder = w
       THEN /\ expected' = run[w].to + 1
            /\ run' = [run EXCEPT ![w] = [NoRun EXCEPT !.pc = "index", !.from = run[w].to + 1]]
       ELSE /\ run' = [run EXCEPT ![w] = NoRun]
            /\ UNCHANGED expected
    /\ UNCHANGED <<chain, log, row, holder, newest, alone>>

\* releaseLock, in the finally of runIndexer.
Released(w) == IF holder = w THEN None ELSE holder

\* The run ends: done, deferred, out of time or crashed.  A lock that a crash
\* leaves behind goes stale: nobody waits for it, as if it were released.
EndRun(w) ==
    /\ ~At(w, "idle")
    /\ run' = [run EXCEPT ![w] = NoRun]
    /\ holder' = Released(w)
    /\ UNCHANGED <<chain, log, row, expected, newest, alone>>

-----------------------------------------------------------------------------
(* resolvePending, for one of the agents it selects; the backoff between
   tries is left open *)

IsPending(r) ==
    r # None /\ r.pending /\ r.doc = None /\ r.uri # EmptyUri /\ r.attempts < MAX_ATTEMPTS

SelectPending(w, id) ==
    /\ At(w, "index")
    /\ IsPending(row[id])
    /\ run' = [run EXCEPT ![w] = [NoRun EXCEPT !.pc = "try", !.agent = id,
                                     !.uri = row[id].uri, !.attempts = row[id].attempts]]
    /\ UNCHANGED <<chain, log, row, expected, holder, newest, alone>>

\* The try counts before the fetch, if the URI is still the selected one.
RecordTry(w) ==
    LET id == run[w].agent
        attempts == run[w].attempts + 1
    IN /\ At(w, "try")
       /\ row' = IF row[id].uri # run[w].uri THEN row
                 ELSE [row EXCEPT ![id].attempts = attempts,
                                  ![id].pending = attempts < MAX_ATTEMPTS]
       /\ run' = [run EXCEPT ![w].pc = "store", ![w].attempts = 0]
       /\ UNCHANGED <<chain, log, expected, holder, newest, alone>>

Bug_StoreAnyway(id, u) == TRUE
StillCurrent(id, u) == row[id].uri = u

\* store: the document arrived and fits; otherwise the try simply stays counted
\* and the run goes on (EndRun).
Store(w) ==
    LET id == run[w].agent IN
    /\ At(w, "store")
    /\ row' = IF StillCurrent(id, run[w].uri)
              THEN [row EXCEPT ![id].doc = run[w].uri, ![id].attempts = 0,
                               ![id].pending = FALSE]
              ELSE row
    /\ run' = [run EXCEPT ![w] = NoRun]
    /\ holder' = Released(w)
    /\ UNCHANGED <<chain, log, expected, newest, alone>>

-----------------------------------------------------------------------------

ProjectionNext ==
    \/ Publish
    \/ \E w \in Writers : StartRun(w)
    \/ \E w \in Writers, to \in Ledgers : GetPage(w, to)
    \/ \E w \in Writers : \E i \in run[w].page : WriteEvent(w, i)
    \/ \E w \in Writers : SavePage(w)
    \/ \E w \in Writers : EndRun(w)
    \/ \E w \in Writers, id \in Agents : SelectPending(w, id)
    \/ \E w \in Writers : RecordTry(w)
    \/ \E w \in Writers : Store(w)

ProjectionSpec == ProjectionInit /\ [][ProjectionNext]_allVars

-----------------------------------------------------------------------------
(* Properties *)

\* agent_uri is NOT NULL in practice: an absent URI is announced as ''.
ChainUri(id) == IF uri[id] = None THEN EmptyUri ELSE uri[id]

\* Once every event is below the checkpoint, the row of an agent says what the
\* contract says, as long as runs do not overlap: no order of crashes and
\* replays, with pages cut anywhere between ledgers, leaves a stale owner, URI,
\* wallet or metadata entry, nor loses what a registration announced before
\* Registered.
ProjectionConverges ==
    alone /\ (\A i \in DOMAIN log : log[i].ledger < expected) =>
       \A id \in Agents :
          /\ AgentExists(id) <=> row[id] # None
          /\ AgentExists(id) =>
                /\ row[id].owner = owner[id] /\ row[id].uri = ChainUri(id)
                /\ row[id].wallet = wallet[id] /\ row[id].metadata = metadata[id]

\* The ledger guards of uriUpdated and transferred: neither a replay nor a run
\* that lost the lock and still writes an old page takes the owner or the URI
\* back to what an event of an older ledger says.  Between two events of one
\* ledger the guards (<=) do not choose: the one written last stays.
OwnerAndUriNeverUndone ==
    \A id \in Agents, c \in GuardedColumns :
       newest[id][c] # None =>
          \E i \in DOMAIN log :
             /\ log[i].event.agent = id /\ log[i].ledger = newest[id][c]
             /\ SetsColumn(log[i].event, c)
             /\ row[id][c] = (IF c = "uri" THEN log[i].event.uri ELSE log[i].event.to)

\* A row never shows the document of another URI, however late it arrives.
DocumentMatchesUri ==
    \A id \in Agents : row[id] # None => row[id].doc \in {None, row[id].uri}

\* No URI is stranded: without a document it is still pending, unless
\* MAX_ATTEMPTS tries were counted.
NoUriStranded ==
    \A id \in Agents :
       row[id] # None /\ row[id].uri # EmptyUri /\ row[id].doc = None
          => row[id].pending \/ row[id].attempts >= MAX_ATTEMPTS
=============================================================================
