-------------------------------- MODULE Indexer --------------------------------
(***************************************************************************)
(* The cron-driven indexer: runs that overlap, a lock that goes stale, one *)
(* checkpoint per contract, pages of events from RPC nodes that may lag,   *)
(* and writes that fail on a constraint and are deferred, then skipped.    *)
(*                                                                         *)
(* A step is one await: a statement or batch sent to the database, or one  *)
(* RPC answer, with the computation up to the next await.  What an event   *)
(* does to the database is kept to what decides the control flow: the row  *)
(* it creates, the row it needs (foreign key), the row it updates, and     *)
(* whether it breaks another constraint.  Module EventProjection has the   *)
(* contents of the rows.                                                   *)
(*                                                                         *)
(* Everything that goes wrong outside the code (a crash, a deadline, an    *)
(* RPC or database error, a node that lags, a lock that ages under a       *)
(* living run) uses up one of MaxFaults faults.                            *)
(*                                                                         *)
(* Bug_... are broken variants of the definitions they precede.            *)
(***************************************************************************)
EXTENDS Naturals, Sequences, FiniteSets

CONSTANTS
    CONTRACTS,          \* the contracts in scan order, identity first
    Stream,             \* Stream[c]: the events of contract c in chain order
    Runs,               \* cron invocations that may be alive at once
    None,
    PAGE_LIMIT, BATCH_LIMIT, SCAN_LIMIT, MAX_DEFER_ATTEMPTS,
    AllowRetentionClamp, \* ALLOW_RETENTION_CLAMP
    MaxHead,            \* bound on the chain
    MaxOldest,          \* bound on what leaves the RPC retention window
    MaxFaults           \* bound on faults

Contracts == {CONTRACTS[i] : i \in DOMAIN CONTRACTS}
Identity == CONTRACTS[1]
Ledgers == 0 .. MaxHead
EventIds == UNION {{<<c, i>> : i \in DOMAIN Stream[c]} : c \in Contracts}

\* The lock of a run that died: nobody acts for it any more.
Ghost == "ghost"

\* An event as the interpreter and the writer see it.
IsEvent(e) ==
    /\ e.ledger \in 1 .. MaxHead
    /\ e.status \in {"parsed", "ignored", "invalid"}
    /\ e.registered \in BOOLEAN   \* type Registered, moved to the front
    /\ e.bad \in BOOLEAN          \* breaks a constraint whatever the rows
    /\ e.needs = None \/ e.updates = None

\* The row an event refers to: by a foreign key, or as the row it updates.
Parent(e) == IF e.needs # None THEN e.needs ELSE e.updates

\* The contracts publish the event that creates a row before those about it,
\* except that a registration ends its transaction.
Precedes(c, k, d, i) ==
    /\ Stream[c][k].ledger <= Stream[d][i].ledger
    /\ c = d => IF Stream[c][k].registered THEN ~Stream[d][i].registered
                ELSE k < i /\ ~Stream[d][i].registered

ASSUME IndexerAssumption ==
    /\ CONTRACTS \in Seq(Contracts) /\ Len(CONTRACTS) > 0
    /\ \A i, j \in DOMAIN CONTRACTS : CONTRACTS[i] = CONTRACTS[j] => i = j
    /\ \A c \in Contracts :
          /\ Stream[c] \in Seq({Stream[c][i] : i \in DOMAIN Stream[c]})
          /\ \A i \in DOMAIN Stream[c] : IsEvent(Stream[c][i])
          /\ \A i, j \in DOMAIN Stream[c] :
                i < j => Stream[c][i].ledger <= Stream[c][j].ledger
    /\ {PAGE_LIMIT, BATCH_LIMIT, SCAN_LIMIT} \subseteq Nat \ {0}
    /\ {MAX_DEFER_ATTEMPTS, MaxHead, MaxOldest, MaxFaults} \subseteq Nat
    /\ AllowRetentionClamp \in BOOLEAN
    /\ None \notin Runs /\ Ghost \notin Runs \cup {None}

\* A row has one creator, of the identity contract or of the contract of the
\* events about it, whose status is not "ignored".
ASSUME StreamAssumption ==
    \A e, f \in EventIds :
       LET x == Stream[e[1]][e[2]]
           y == Stream[f[1]][f[2]]
       IN /\ x.creates # None /\ x.creates = y.creates => e = f
          /\ Parent(x) # None =>
                \E g \in EventIds :
                   /\ Stream[g[1]][g[2]].creates = Parent(x)
                   /\ Stream[g[1]][g[2]].status # "ignored"
                   /\ g[1] \in {Identity, e[1]}
                   /\ Precedes(g[1], g[2], e[1], e[2])

VARIABLES
    head,      \* last closed ledger
    oldest,    \* first ledger the RPC nodes still hold
    lock,      \* indexer_locks: owner (None: no row) and whether it is stale
    cp,        \* indexer_state: last ledger and defer attempts per contract
    rows,      \* rows of agents, feedback and validations
    applied,   \* events whose statement was executed
    reported,  \* events dead-lettered, by reason (logged even if the insert fails)
    deferrals, \* how often each event made a run defer, up to the limit
    run,       \* the local state of each run
    faults     \* faults left

db == <<lock, cp, rows, applied, reported, deferrals>>
vars == <<head, oldest, db, run, faults>>

NoLock == [owner |-> None, stale |-> FALSE]

\* pc: the next await.  ci: contract being scanned.  last, defer: state of
\* indexContract; saved: what this run read or saved of indexer_state.
\* todo: packets to write, left: how many of them are being replayed singly,
\* zero: updates of the chunk that found no row.  next: what follows the page.
Idle == [pc |-> "idle", ci |-> 1, head |-> 0, oldest |-> 0,
         saved |-> [c \in Contracts |-> [last |-> 0, defer |-> 0]],
         last |-> 0, defer |-> 0, from |-> 0, to |-> 0, cursor |-> 0, held |-> {},
         todo |-> <<>>, left |-> 0, zero |-> {}, reached |-> 0, next |-> "stop"]

Init ==
    /\ head = 1
    /\ oldest = 1
    /\ lock = NoLock
    /\ cp = [c \in Contracts |-> [last |-> 0, defer |-> 0]]
    /\ rows = {}
    /\ applied = {}
    /\ reported = {}
    /\ deferrals = [e \in EventIds |-> 0]
    /\ run = [r \in Runs |-> Idle]
    /\ faults = MaxFaults

At(r, pc) == run[r].pc = pc
Here(r) == CONTRACTS[run[r].ci]
Least(m, n) == IF m < n THEN m ELSE n
Fault == faults > 0 /\ faults' = faults - 1
NoFault == UNCHANGED faults
EventsOf(c, first, final) ==
    {i \in DOMAIN Stream[c] : Stream[c][i].ledger \in first .. final}

-----------------------------------------------------------------------------
(* The environment: the chain, RPC retention and time *)

CloseLedger ==
    /\ head < MaxHead
    /\ head' = head + 1
    /\ UNCHANGED <<oldest, db, run, faults>>

RetentionMoves ==
    /\ oldest < MaxOldest /\ oldest < head
    /\ oldest' = oldest + 1
    /\ UNCHANGED <<head, db, run, faults>>

\* LOCK_STALE_MS pass since the lock was taken or refreshed.
LockAges ==
    /\ lock.owner # None /\ ~lock.stale
    /\ IF lock.owner = Ghost THEN NoFault ELSE Fault
    /\ lock' = [lock EXCEPT !.stale = TRUE]
    /\ UNCHANGED <<head, oldest, cp, rows, applied, reported, deferrals, run>>

-----------------------------------------------------------------------------
(* A run starts: runOnce, acquireLock, readCheckpoints, getHealth *)

AcquireLock(r) ==
    /\ At(r, "idle")
    /\ lock.owner = None \/ lock.stale
    /\ lock' = [owner |-> r, stale |-> FALSE]
    /\ run' = [run EXCEPT ![r] = [Idle EXCEPT !.pc = "read"]]
    /\ NoFault
    /\ UNCHANGED <<head, oldest, cp, rows, applied, reported, deferrals>>

ReadCheckpoints(r) ==
    /\ At(r, "read")
    /\ run' = [run EXCEPT ![r] = [@ EXCEPT !.pc = "health", !.saved = cp]]
    /\ NoFault
    /\ UNCHANGED <<head, oldest, db>>

\* A node answers with its own latest ledger: the head, or less if it lags.
NodeAt(latest) ==
    /\ latest \in oldest .. head
    /\ IF latest = head THEN NoFault ELSE Fault

\* Checkpoints that predate retention stop the run unless clamping is allowed.
Aged(r) == \E c \in Contracts : run[r].saved[c].last + 1 < oldest

GetHealth(r, latest) ==
    /\ At(r, "health")
    /\ NodeAt(latest)
    /\ run' = [run EXCEPT ![r] = [@ EXCEPT
          !.pc = IF Aged(r) /\ ~AllowRetentionClamp THEN "release" ELSE "begin",
          !.head = latest, !.oldest = oldest]]
    /\ UNCHANGED <<head, oldest, db>>

-----------------------------------------------------------------------------
(* saveCheckpoint: fenced by the lock, never backwards; it also refreshes
   the lock.  A save that is refused throws, and the run goes to "release". *)

Bug_SaveUnfenced(r, c, state) == cp[c].last <= state.last
Bug_SaveAlways(r, c, state) == TRUE
Bug_OnlyForward(r, c, state) == lock.owner = r /\ cp[c].last < state.last
SaveAccepted(r, c, state) == lock.owner = r /\ cp[c].last <= state.last

Save(r, c, state, done) ==
    /\ cp' = IF SaveAccepted(r, c, state) THEN [cp EXCEPT ![c] = state] ELSE cp
    /\ lock' = IF lock.owner = r THEN [lock EXCEPT !.stale = FALSE] ELSE lock
    /\ run' = IF SaveAccepted(r, c, state)
              THEN [run EXCEPT ![r] = [done EXCEPT !.saved[c] = state]]
              ELSE [run EXCEPT ![r].pc = "release"]

\* save() of indexContract: nothing is written when nothing changed.
SaveIfChanged(r, c, state, done) ==
    IF state = run[r].saved[c]
    THEN /\ run' = [run EXCEPT ![r] = done]
         /\ UNCHANGED <<cp, lock>>
    ELSE Save(r, c, state, done)

State(r) == [last |-> run[r].last, defer |-> run[r].defer]

-----------------------------------------------------------------------------
(* indexContracts and the start of indexContract *)

Bug_HeadNotCapped(s, c) ==
    [s EXCEPT !.pc = IF s.ci = Len(CONTRACTS) THEN "release" ELSE "begin",
              !.ci = IF s.ci = Len(CONTRACTS) THEN 1 ELSE s.ci + 1]

\* The next contract, with the head capped where identity stopped.
Outcome(s, c) ==
    [s EXCEPT !.pc = IF s.ci = Len(CONTRACTS) THEN "release" ELSE "begin",
              !.ci = IF s.ci = Len(CONTRACTS) THEN 1 ELSE s.ci + 1,
              !.head = IF c = Identity THEN Least(s.head, s.last) ELSE s.head]

\* The scan loop from ledger s.last + 1, one window of SCAN_LIMIT ledgers.
Window(s) ==
    [s EXCEPT !.pc = "loop", !.from = s.last + 1,
              !.to = Least(s.head, s.last + SCAN_LIMIT),
              !.cursor = 0, !.held = {}]

\* The events of the ledgers that left retention before they were indexed.
Lost(c, s) == EventsOf(c, s.last + 1, s.oldest - 1)

BeginContract(r) ==
    LET c == Here(r)
        s == [run[r] EXCEPT !.last = run[r].saved[c].last,
                            !.defer = run[r].saved[c].defer]
    IN /\ At(r, "begin")
       /\ \/ /\ s.last >= s.head
             /\ run' = [run EXCEPT ![r] = Outcome(s, c)]
             /\ UNCHANGED reported
          \/ /\ s.last < s.head /\ s.last + 1 < s.oldest
             /\ reported' = reported \cup
                   {<<c, i, "retention-clamp">> : i \in Lost(c, s)}
             /\ run' = [run EXCEPT ![r] = [s EXCEPT !.last = s.oldest - 1, !.pc = "clamp"]]
          \/ /\ s.last < s.head /\ s.last + 1 >= s.oldest
             /\ run' = [run EXCEPT ![r] = Window(s)]
             /\ UNCHANGED reported
       /\ NoFault
       /\ UNCHANGED <<head, oldest, lock, cp, rows, applied, deferrals>>

SaveClamp(r) ==
    /\ At(r, "clamp")
    /\ SaveIfChanged(r, Here(r), State(r), Window(run[r]))
    /\ NoFault
    /\ UNCHANGED <<head, oldest, rows, applied, reported, deferrals>>

\* The scan of the contract ends: the last save and the outcome.
EndContract(r) ==
    /\ \/ At(r, "end")
       \/ At(r, "loop") /\ run[r].last >= run[r].head
    /\ SaveIfChanged(r, Here(r), State(r), Outcome(run[r], Here(r)))
    /\ NoFault
    /\ UNCHANGED <<head, oldest, rows, applied, reported, deferrals>>

\* The deadline passed before a contract or a page, or getEvents failed: the
\* contract waits for the next run (and the deadline ends this one).
StopScan(r) ==
    /\ At(r, "begin") \/ At(r, "loop")
    /\ run' = [run EXCEPT ![r].pc = IF At(r, "loop") THEN "end" ELSE "release"]
    /\ Fault
    /\ UNCHANGED <<head, oldest, db>>

-----------------------------------------------------------------------------
(* getEvents and what indexContract makes of the page *)

\* How many of some indexes come before one.
Before(ids, i) == Cardinality({j \in ids : j < i})

\* The indexes of the events a node at latest returns: from the window's first
\* ledger up to its last, or from behind the cursor without an upper ledger.
StartLedger(r) ==
    IF run[r].cursor = 0 THEN run[r].from ELSE Stream[Here(r)][run[r].cursor].ledger

Page(r, latest) ==
    LET start == StartLedger(r)
        end == IF run[r].cursor = 0 THEN Least(latest, run[r].to) ELSE latest
        found == {i \in EventsOf(Here(r), start, Least(end, start + SCAN_LIMIT - 1)) :
                     i > run[r].cursor}
    IN {i \in found : Before(found, i) < PAGE_LIMIT}

\* Indexes in chain order.
InOrder(ids) == [n \in 1 .. Cardinality(ids) |-> CHOOSE i \in ids : Before(ids, i) = n - 1]

Bug_ChainOrder(c, ids) == InOrder(ids)

\* parentsFirst: Registered events first, each part in chain order
ParentsFirst(c, ids) ==
    InOrder({i \in ids : Stream[c][i].registered})
    \o InOrder({i \in ids : ~Stream[c][i].registered})

WithStatus(c, ids, status) == {i \in ids : Stream[c][i].status = status}

Bug_WindowAssumed(s, latest) == s.to

\* A page that is not full shows the window up to where the node itself is.
ScannedTo(s, latest) == Least(s.to, latest)

\* What indexContract keeps, reports and queues of a page.
TakePage(r, latest, page) ==
    LET s == run[r]
        c == Here(r)
        inWindow == {i \in page : Stream[c][i].ledger <= s.to}
        scanned == Cardinality(page) < PAGE_LIMIT \/ inWindow # page
        events == s.held \cup inWindow
        final == CHOOSE l \in Ledgers : /\ \E i \in events : Stream[c][i].ledger = l
                                        /\ \A i \in events : Stream[c][i].ledger <= l
        held == IF scanned THEN {} ELSE {i \in events : Stream[c][i].ledger = final}
        ready == events \ held
    IN /\ reported' = reported \cup
             {<<c, i, "unparseable">> : i \in WithStatus(c, ready, "invalid")}
       /\ run' = [run EXCEPT ![r] = [s EXCEPT
             !.pc = "write",
             !.held = held,
             !.todo = ParentsFirst(c, WithStatus(c, ready, "parsed")),
             !.reached = IF scanned THEN ScannedTo(s, latest) ELSE final - 1,
             !.cursor = IF scanned THEN 0 ELSE CHOOSE i \in page : \A j \in page : j <= i,
             !.next = IF ~scanned THEN "cursor"
                      ELSE IF latest < s.to THEN "stop" ELSE "window"]]
       /\ UNCHANGED <<head, oldest, lock, cp, rows, applied, deferrals>>

GetEvents(r, latest) ==
    /\ At(r, "loop") /\ run[r].last < run[r].head
    /\ NodeAt(latest)
    /\ StartLedger(r) \in oldest .. latest
    /\ \E page \in {Page(r, latest)} : TakePage(r, latest, page)

\* A start outside what the nodes hold is an RPC error.
OutOfRange(r) ==
    /\ At(r, "loop") /\ run[r].last < run[r].head
    /\ StartLedger(r) \notin oldest .. head
    /\ run' = [run EXCEPT ![r].pc = "end"]
    /\ NoFault
    /\ UNCHANGED <<head, oldest, db>>

-----------------------------------------------------------------------------
(* writeEvents *)

Ev(r, k) == Stream[Here(r)][run[r].todo[k]]

\* Rows when the k-th packet of the chunk is written, the earlier ones being in.
RowsBefore(r, k) == rows \cup ({Ev(r, j).creates : j \in 1 .. k - 1} \ {None})

Fails(e, present) == e.bad \/ (e.needs # None /\ e.needs \notin present)
FindsNoRow(e, present) == e.updates # None /\ e.updates \notin present

ChunkSize(r) == Least(BATCH_LIMIT, Len(run[r].todo))

\* The chunk is written: missing parents are recorded next, if there are any.
AfterChunk(s, zero, todo) ==
    [s EXCEPT !.todo = todo, !.left = 0, !.zero = zero,
              !.pc = IF zero = {} THEN "write" ELSE "missing"]

\* One transaction for the chunk; on a constraint failure it rolls back and the
\* chunk is replayed one event at a time.
WriteBatch(r) ==
    LET n == ChunkSize(r)
        todo == run[r].todo
        ok == \A k \in 1 .. n : ~Fails(Ev(r, k), RowsBefore(r, k))
    IN /\ At(r, "write") /\ n > 0 /\ run[r].left = 0
       /\ \/ /\ ok
             /\ rows' = RowsBefore(r, n + 1)
             /\ applied' = applied \cup {<<Here(r), todo[k]>> : k \in 1 .. n}
             /\ run' = [run EXCEPT ![r] = AfterChunk(run[r],
                   {todo[k] : k \in {m \in 1 .. n : FindsNoRow(Ev(r, m), RowsBefore(r, m))}},
                   SubSeq(todo, n + 1, Len(todo)))]
          \/ /\ ~ok
             /\ run' = [run EXCEPT ![r].left = n]
             /\ UNCHANGED <<rows, applied>>
       /\ NoFault
       /\ UNCHANGED <<head, oldest, lock, cp, reported, deferrals>>

SkipArmed(r) == run[r].defer >= MAX_DEFER_ATTEMPTS

\* The next packet of the chunk being replayed has been dealt with.
AfterPacket(s, zero) ==
    IF s.left = 1 THEN AfterChunk(s, zero, Tail(s.todo))
    ELSE [s EXCEPT !.todo = Tail(s.todo), !.left = s.left - 1, !.zero = zero]

ReplayEvent(r) ==
    LET s == run[r]
        e == Ev(r, 1)
        id == <<Here(r), s.todo[1]>>
    IN /\ At(r, "write") /\ s.left > 0
       /\ \/ /\ ~Fails(e, rows)
             /\ rows' = rows \cup ({e.creates} \ {None})
             /\ applied' = applied \cup {id}
             /\ run' = [run EXCEPT ![r] = AfterPacket(s,
                   IF FindsNoRow(e, rows) THEN s.zero \cup {s.todo[1]} ELSE s.zero)]
             /\ UNCHANGED <<reported, deferrals>>
          \/ /\ Fails(e, rows) /\ ~SkipArmed(r)
             /\ run' = [run EXCEPT ![r] = [s EXCEPT !.pc = "end", !.defer = s.defer + 1,
                                           !.todo = <<>>, !.left = 0, !.zero = {}]]
             /\ deferrals' = [deferrals EXCEPT ![id] = Least(@ + 1, MAX_DEFER_ATTEMPTS)]
             /\ UNCHANGED <<rows, applied, reported>>
          \/ /\ Fails(e, rows) /\ SkipArmed(r)
             /\ reported' = reported \cup {<<Here(r), s.todo[1], "skip">>}
             /\ run' = [run EXCEPT ![r] = AfterPacket(s, s.zero)]
             /\ UNCHANGED <<rows, applied, deferrals>>
       /\ NoFault
       /\ UNCHANGED <<head, oldest, lock, cp>>

\* recordMissingParents: updates whose row is still missing
RecordMissing(r) ==
    LET c == Here(r) IN
    /\ At(r, "missing")
    /\ reported' = reported \cup
          {<<c, i, "missing-parent">> : i \in {j \in run[r].zero : Stream[c][j].updates \notin rows}}
    /\ run' = [run EXCEPT ![r] = [@ EXCEPT !.pc = "write", !.zero = {}]]
    /\ NoFault
    /\ UNCHANGED <<head, oldest, lock, cp, rows, applied, deferrals>>

\* The page is written: advance and save, then the next page, window or end.
Advance(r) ==
    LET s == run[r]
        moved == s.reached > s.last
        t == [s EXCEPT !.last = IF moved THEN s.reached ELSE s.last,
                       !.defer = IF moved THEN 0 ELSE s.defer]
        done == CASE s.next = "cursor" -> [t EXCEPT !.pc = "loop"]
                  [] s.next = "stop" -> [t EXCEPT !.pc = "end"]
                  [] s.next = "window" ->
                        [t EXCEPT !.pc = "loop", !.from = s.to + 1,
                                  !.to = Least(s.head, s.to + SCAN_LIMIT)]
    IN /\ At(r, "write") /\ s.todo = <<>>
       /\ IF moved THEN Save(r, Here(r), [last |-> t.last, defer |-> t.defer], done)
          ELSE /\ run' = [run EXCEPT ![r] = done]
               /\ UNCHANGED <<cp, lock>>
       /\ NoFault
       /\ UNCHANGED <<head, oldest, rows, applied, reported, deferrals>>

-----------------------------------------------------------------------------
(* A run ends *)

\* Owner-fenced delete.
ReleaseLock(r) ==
    /\ At(r, "release")
    /\ lock' = IF lock.owner = r THEN NoLock ELSE lock
    /\ run' = [run EXCEPT ![r] = Idle]
    /\ NoFault
    /\ UNCHANGED <<head, oldest, cp, rows, applied, reported, deferrals>>

\* An error that is nobody's fault ends the run through its finally block.
Throw(r) ==
    /\ run[r].pc \notin {"idle", "release"}
    /\ run' = [run EXCEPT ![r].pc = "release"]
    /\ Fault
    /\ UNCHANGED <<head, oldest, db>>

\* The worker dies, or cannot release its lock.
Crash(r) ==
    /\ ~At(r, "idle")
    /\ run' = [run EXCEPT ![r] = Idle]
    /\ lock' = IF lock.owner = r THEN [lock EXCEPT !.owner = Ghost] ELSE lock
    /\ Fault
    /\ UNCHANGED <<head, oldest, cp, rows, applied, reported, deferrals>>

-----------------------------------------------------------------------------

Step(r) ==
    \/ ReadCheckpoints(r)
    \/ \E latest \in Ledgers : GetHealth(r, latest)
    \/ BeginContract(r)
    \/ SaveClamp(r)
    \/ EndContract(r)
    \/ \E latest \in Ledgers : GetEvents(r, latest)
    \/ OutOfRange(r)
    \/ WriteBatch(r)
    \/ ReplayEvent(r)
    \/ RecordMissing(r)
    \/ Advance(r)
    \/ ReleaseLock(r)

Next ==
    \/ CloseLedger
    \/ RetentionMoves
    \/ LockAges
    \/ \E r \in Runs : AcquireLock(r)
    \/ \E r \in Runs : Step(r)
    \/ \E r \in Runs : StopScan(r)
    \/ \E r \in Runs : Throw(r)
    \/ \E r \in Runs : Crash(r)

Spec == Init /\ [][Next]_vars

\* The cron keeps starting runs, a started run keeps going unless a fault stops
\* it, ledgers keep closing and time keeps passing.
Fairness ==
    /\ WF_vars(CloseLedger)
    /\ WF_vars(LockAges)
    /\ WF_vars(\E r \in Runs : AcquireLock(r))
    /\ \A r \in Runs : WF_vars(Step(r))

FairSpec == Spec /\ Fairness

-----------------------------------------------------------------------------
(* Properties *)

HoldsLock(r) == lock.owner = r
HasRead(r) == run[r].pc \notin {"idle", "read", "release"}

\* The lock fences the checkpoints: as long as a run holds the lock, what it
\* read or saved last is what the table holds, however many runs that lost the
\* lock are still alive.  So saveCheckpoint never refuses the lock's holder
\* ("moved past").
HolderSeesCheckpoints ==
    \A r \in Runs : HoldsLock(r) /\ HasRead(r) => cp = run[r].saved

\* A dependent contract is never indexed past the ledger identity was indexed
\* to, so its foreign keys point to agents that were written or given up.
DependentsBehindIdentity ==
    \A c \in Contracts : cp[c].last <= cp[Identity].last

Accounted(c, i) ==
    \/ Stream[c][i].status = "ignored"
    \/ <<c, i>> \in applied
    \/ \E reason \in {"unparseable", "skip", "retention-clamp"} : <<c, i, reason>> \in reported

\* No event is lost in silence: a checkpoint passes an event only after it was
\* written, ignored on purpose or reported, across page boundaries, lagging
\* nodes, crashes between a write and its save, and overlapping runs.
NoSilentLoss ==
    \A c \in Contracts : \A i \in EventsOf(c, 0, cp[c].last) : Accounted(c, i)

\* The event that creates a row.
Creator(row) ==
    CHOOSE e \in EventIds : Stream[e[1]][e[2]].creates = row

IsReported(e) == \E x \in reported : <<x[1], x[2]>> = e

\* An event is given up for a missing row only if the event that creates the
\* row was itself reported: neither a lagging identity scan nor a page that
\* ends mid-transaction costs a dependent event.
GivenUpOnlyWithParent ==
    \A x \in reported :
       LET e == Stream[x[1]][x[2]]
       IN x[3] \in {"skip", "missing-parent"} /\ ~e.bad => IsReported(Creator(Parent(e)))

\* A checkpoint never moves back.
CheckpointsMonotone ==
    [][\A c \in Contracts : cp[c].last <= cp'[c].last]_vars

\* An event is skipped only after it was deferred MAX_DEFER_ATTEMPTS times
\* itself (the comments on MAX_DEFER_ATTEMPTS and on the skip flag).
SkippedAfterOwnDeferrals ==
    \A x \in reported : x[3] = "skip" => deferrals[<<x[1], x[2]>>] >= MAX_DEFER_ATTEMPTS

\* Every contract is eventually indexed to the end of the chain and stays
\* there: a bad event, a dead lock holder or a lagging node only delays it.
CatchesUp == <>[](\A c \in Contracts : cp[c].last = MaxHead)
=============================================================================
